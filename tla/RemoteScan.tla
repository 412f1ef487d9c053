------------------------------ MODULE RemoteScan ------------------------------
(***************************************************************************)
(* One remote host, from scan_remote_host (src/main.rs) down through       *)
(* run_remote_scan_russh (src/ssh_engine.rs): up to 1 + retries attempts   *)
(* inside one ceiling, each of them connect, load the key, handshake, then *)
(* under the scan budget the sudo pre-flight, staging, upload, sudo probe, *)
(* execution and collection, and after it the cleanup and the disconnect.  *)
(*                                                                         *)
(* The host at the other end is an actor of its own.  A command it was     *)
(* asked to run takes effect at any later time or never, even when the     *)
(* attempt that asked for it is over; an answer needs the session.         *)
(*                                                                         *)
(* Time is a count of ticks since the ceiling was armed.  Stages with a    *)
(* timer end before time passes their deadline; the timers inside the scan *)
(* budget (probes, sudo, upload) are abstract and may fire at any time.    *)
(* The content of reports, notes and commands is left out.                 *)
(***************************************************************************)
EXTENDS Naturals

CONSTANTS
    Retries,            \* --retries
    CONNECT_BUDGET, HANDSHAKE_AUTH_BUDGET, SCAN_BUDGET, CLEANUP_BUDGET,
    DISCONNECT_BUDGET,  \* the literal around session.disconnect
    CEILING_MARGIN,
    Backoff,            \* --retry-backoff-secs
    Options             \* combinations of options to consider

ASSUME BudgetAssumption ==
    /\ Retries \in Nat /\ Backoff \in Nat
    /\ CONNECT_BUDGET \in Nat /\ HANDSHAKE_AUTH_BUDGET \in Nat
    /\ SCAN_BUDGET \in Nat /\ CLEANUP_BUDGET \in Nat
    /\ DISCONNECT_BUDGET \in Nat /\ CEILING_MARGIN \in Nat

(* run_command refuses --keep-binary with --copy-binary and no --remote-path. *)
Accepted ==
    {o \in [copy : BOOLEAN, keep : BOOLEAN, path : BOOLEAN, pass : BOOLEAN] :
        o.keep /\ o.copy => o.path}

ASSUME OptionsAssumption == Options \subseteq Accepted

Attempt == 1 .. Retries + 1

(* Directories: 0 is that of --remote-path, a the one mktemp makes for attempt a. *)
Dir == 0 .. Retries + 1

(* Files by the attempt whose `cat` wrote them. *)
Absent == 0
Operators == Retries + 2

(* Mutant: the cleanup is not part of the sum (R13-02). *)
host_ceiling_noCleanup ==
    CONNECT_BUDGET + HANDSHAKE_AUTH_BUDGET + SCAN_BUDGET + CEILING_MARGIN

(* R35-10: the stages an attempt may spend its budget on. *)
host_ceiling ==
    CONNECT_BUDGET + HANDSHAKE_AUTH_BUDGET + SCAN_BUDGET + CLEANUP_BUDGET + CEILING_MARGIN

VARIABLES
    opt,        \* the options: copy_binary, keep_binary, remote_path, sudo password
    pc,         \* where the scan is
    ended,      \* is it over, and how
    attempt,
    elapsed,    \* time since the ceiling was armed
    due,        \* deadline of the stage (of the whole scan budget inside it)
    slack,      \* time the first attempt spent loading keys, which has no timer
    link,       \* the SSH session of the attempt
    artifact,   \* is there something to tear down (OnceLock<RemoteArtifact>)?
    uploaded,   \* AtomicBool of the same name
    verdict,    \* how the attempt went
    result,     \* what the orchestrator gets
    notes,      \* does the report say that there were retries?
    warned,     \* was there a warning about something left, or kept, on the host?
    dirs,       \* host: directories that exist
    part, bin,  \* host: the two files of each directory
    mk, shell, rm,  \* host: the mktemp, upload and teardown command of each attempt
    fed,        \* were all bytes and the EOF sent to the attempt's upload?
    whole       \* host: did its `cat` get all of them?

timeVars == <<elapsed, due, slack>>
localVars == <<artifact, uploaded, verdict>>
reportVars == <<result, notes, warned>>
hostVars == <<dirs, part, bin, mk, shell, rm, whole>>
vars == <<opt, pc, ended, attempt, timeVars, link, localVars, reportVars, hostVars, fed>>

Init ==
    /\ opt \in Options
    /\ pc = "start" /\ ended = "no" /\ attempt = 1
    /\ elapsed = 0 /\ due = 0 /\ slack = 0
    /\ link = "down" /\ artifact = FALSE /\ uploaded = FALSE /\ verdict = "none"
    /\ result = "none" /\ notes = FALSE /\ warned = FALSE
    /\ dirs = {0}
    /\ part = [d \in Dir |-> Absent]
    /\ \E f \in {Absent, Operators} :
        bin = [d \in Dir |-> IF d = 0 /\ opt.path THEN f ELSE Absent]
    /\ mk = [a \in Attempt |-> "none"]
    /\ shell = [a \in Attempt |-> "none"]
    /\ rm = [a \in Attempt |-> "none"]
    /\ fed = [a \in Attempt |-> FALSE] /\ whole = [a \in Attempt |-> FALSE]

-------------------------------------------------------------------------------
(* The host. *)

(* Where attempt a puts the binary. *)
Place(a) == IF opt.path THEN 0 ELSE a

(* The session of attempt a is gone, so its channels are closed. *)
HungUp(a) == a # attempt \/ link # "up"

HostMktemp(a) ==
    /\ mk[a] = "asked"
    /\ mk' = [mk EXCEPT ![a] = "done"]
    /\ dirs' = dirs \cup {a}
    /\ UNCHANGED <<part, bin, shell, rm, whole>>

(* rm -f -- part && set -C && cat > part *)
ShellStarts(a) ==
    /\ shell[a] = "asked" /\ Place(a) \in dirs
    /\ shell' = [shell EXCEPT ![a] = "cat"]
    /\ part' = [part EXCEPT ![Place(a)] = a]
    /\ UNCHANGED <<dirs, bin, mk, rm, whole>>

(* `cat` exits 0 on EOF: after everything was sent, or when the channel is closed. *)
CatEnds(a) ==
    /\ shell[a] = "cat"
    /\ \/ fed[a] /\ whole' = [whole EXCEPT ![a] = TRUE]
       \/ HungUp(a) /\ UNCHANGED whole
    /\ shell' = [shell EXCEPT ![a] = "eof"]
    /\ UNCHANGED <<dirs, part, bin, mk, rm>>

(* chmod 700 -- part && mv -f -- part bin: whatever is at that path by now. *)
ShellMoves(a) ==
    /\ shell[a] = "eof" /\ part[Place(a)] # Absent
    /\ shell' = [shell EXCEPT ![a] = "ok"]
    /\ bin' = [bin EXCEPT ![Place(a)] = part[Place(a)]]
    /\ part' = [part EXCEPT ![Place(a)] = Absent]
    /\ UNCHANGED <<dirs, mk, rm, whole>>

(* One of the commands fails: no space, no permission, no such file. *)
ShellFails(a) ==
    /\ shell[a] \in {"asked", "cat", "eof"}
    /\ shell' = [shell EXCEPT ![a] = "failed"]
    /\ UNCHANGED <<dirs, part, bin, mk, rm, whole>>

(* The command that teardown_cmd made. *)
HostRemoves(a) ==
    /\ rm[a] \in {"dir", "part", "bin"}
    /\ rm' = [rm EXCEPT ![a] = "done"]
    /\ dirs' = IF rm[a] = "dir" THEN dirs \ {a} ELSE dirs
    /\ part' = IF rm[a] = "bin" THEN part ELSE [part EXCEPT ![Place(a)] = Absent]
    /\ bin' = IF rm[a] = "part" THEN bin ELSE [bin EXCEPT ![Place(a)] = Absent]
    /\ UNCHANGED <<mk, shell, whole>>

LinkBreaks ==
    /\ link = "up"
    /\ link' = "lost"
    /\ UNCHANGED <<opt, pc, ended, attempt, timeVars, localVars, reportVars, hostVars, fed>>

Host ==
    \E a \in Attempt :
        /\ HostMktemp(a) \/ ShellStarts(a) \/ CatEnds(a) \/ ShellMoves(a) \/ ShellFails(a)
           \/ HostRemoves(a)
        /\ UNCHANGED <<opt, pc, ended, attempt, timeVars, link, localVars, reportVars, fed>>

-------------------------------------------------------------------------------
(* The scan: stages before there is a session to clean up. *)

Inner == {"preflight", "stage", "mktemp", "upload", "feed", "open", "probe", "exec", "collect"}

(* A step of the task that is not over. *)
At(p) == ended = "no" /\ pc = p
Elsewhere == UNCHANGED <<opt, ended, attempt, elapsed, hostVars>>

(* The future is dropped, and with it the session and all locals. *)
Ends(how) ==
    /\ ended = "no" /\ ended' = how
    /\ pc' = "end" /\ link' = "down"
    /\ elapsed' = 0 /\ due' = 0 /\ slack' = 0
    /\ artifact' = FALSE /\ uploaded' = FALSE /\ verdict' = "none"
    /\ UNCHANGED <<opt, attempt, notes, warned, hostVars, fed>>

(* validate_host, validate_ssh_user, validate_remote_path; then the ceiling is armed. *)
Validate ==
    /\ At("start")
    /\ pc' = "connect" /\ due' = elapsed + CONNECT_BUDGET
    /\ UNCHANGED <<slack, link, localVars, reportVars, fed>> /\ Elsewhere

Refuse == At("start") /\ Ends("returned") /\ UNCHANGED result

Connect ==
    /\ At("connect")
    /\ pc' = "load"
    /\ UNCHANGED <<due, slack, link, localVars, reportVars, fed>> /\ Elsewhere

(* The known_hosts file and the private key; nothing bounds the time it takes. *)
LoadKey ==
    /\ At("load")
    /\ pc' = "handshake" /\ due' = elapsed + HANDSHAKE_AUTH_BUDGET
    /\ UNCHANGED <<slack, link, localVars, reportVars, fed>> /\ Elsewhere

(* Banner, key exchange, host key, authentication; the scan budget starts. *)
Handshake ==
    /\ At("handshake")
    /\ pc' = "preflight" /\ due' = elapsed + SCAN_BUDGET
    /\ link' = "up"
    /\ UNCHANGED <<slack, localVars, reportVars, fed>> /\ Elsewhere

(* An error that returns at once; timers of these two stages make it transient. *)
EstablishFails(v) ==
    /\ \/ At("connect") \/ At("handshake")
       \/ At("load") /\ v = "final"
    /\ v \in {"transient", "final"}
    /\ pc' = "decide" /\ due' = elapsed
    /\ verdict' = v
    /\ UNCHANGED <<slack, link, artifact, uploaded, reportVars, fed>> /\ Elsewhere

EstablishTimesOut == elapsed = due /\ pc # "load" /\ EstablishFails("transient")

-------------------------------------------------------------------------------
(* The scan: what runs under the scan budget. *)

(* validate_sudo_password, if there is one. *)
Preflight ==
    /\ At("preflight") /\ (opt.pass => link = "up")
    /\ pc' = "stage"
    /\ UNCHANGED <<due, slack, link, localVars, reportVars, fed>> /\ Elsewhere

(* With --remote-path the artifact is on record before it exists. *)
StagePath ==
    /\ At("stage") /\ opt.copy /\ opt.path
    /\ pc' = "upload" /\ artifact' = TRUE
    /\ UNCHANGED <<due, slack, link, uploaded, verdict, reportVars, fed>> /\ Elsewhere

StageNothing ==
    /\ At("stage") /\ ~opt.copy /\ opt.path
    /\ pc' = "open"
    /\ UNCHANGED <<due, slack, link, localVars, reportVars, fed>> /\ Elsewhere

(* make_remote_staging: a root that may execute was found, mktemp is asked for. *)
StageMktemp ==
    /\ At("stage") /\ opt.copy /\ ~opt.path /\ link = "up"
    /\ pc' = "mktemp"
    /\ mk' = [mk EXCEPT ![attempt] = "asked"]
    /\ UNCHANGED <<opt, ended, attempt, timeVars, link, localVars, reportVars, fed>>
    /\ UNCHANGED <<dirs, part, bin, shell, rm, whole>>

(* Its answer names a sane directory, which is put on record. *)
MktempAnswers ==
    /\ At("mktemp") /\ link = "up" /\ mk[attempt] = "done"
    /\ pc' = "upload" /\ artifact' = TRUE
    /\ UNCHANGED <<due, slack, link, uploaded, verdict, reportVars, fed>> /\ Elsewhere

UploadAsks ==
    /\ At("upload") /\ link = "up"
    /\ pc' = "feed"
    /\ shell' = [shell EXCEPT ![attempt] = "asked"]
    /\ UNCHANGED <<opt, ended, attempt, timeVars, link, localVars, reportVars, fed>>
    /\ UNCHANGED <<dirs, part, bin, mk, rm, whole>>

(* The last chunk and the EOF go out. *)
UploadFeeds ==
    /\ At("feed") /\ link = "up" /\ ~fed[attempt]
    /\ fed' = [fed EXCEPT ![attempt] = TRUE]
    /\ UNCHANGED <<pc, due, slack, link, localVars, reportVars>> /\ Elsewhere

(* Mutant: the end of the transfer is taken for its success. *)
UploadAnswers_eof ==
    /\ At("feed") /\ link = "up" /\ fed[attempt]
    /\ pc' = "open" /\ uploaded' = TRUE
    /\ UNCHANGED <<due, slack, link, artifact, verdict, reportVars, fed>> /\ Elsewhere

(* Exit status 0 of the upload command. *)
UploadAnswers ==
    /\ At("feed") /\ link = "up" /\ shell[attempt] = "ok"
    /\ pc' = "open" /\ uploaded' = TRUE
    /\ UNCHANGED <<due, slack, link, artifact, verdict, reportVars, fed>> /\ Elsewhere

OpenExec ==
    /\ At("open") /\ link = "up"
    /\ pc' = IF opt.pass THEN "exec" ELSE "probe"
    /\ UNCHANGED <<due, slack, link, localVars, reportVars, fed>> /\ Elsewhere

(* sudo -n -- bin --version: decides only whether the command line has a sudo. *)
ProbeSudo ==
    /\ At("probe") /\ link = "up"
    /\ pc' = "exec"
    /\ UNCHANGED <<due, slack, link, localVars, reportVars, fed>> /\ Elsewhere

Execute ==
    /\ At("exec") /\ link = "up"
    /\ pc' = "collect"
    /\ UNCHANGED <<due, slack, link, localVars, reportVars, fed>> /\ Elsewhere

-------------------------------------------------------------------------------
(* The scan: after the scan budget. *)

(* What follows the block under the scan budget, however it ended. *)
AfterScan(v) ==
    /\ verdict' = v
    /\ IF artifact /\ ~(opt.keep /\ uploaded)
       THEN pc' = "cleanup" /\ due' = elapsed + CLEANUP_BUDGET /\ UNCHANGED warned
       ELSE pc' = "disconnect" /\ due' = elapsed + DISCONNECT_BUDGET /\ warned' = (warned \/ artifact)
    /\ UNCHANGED <<slack, link, artifact, uploaded, result, notes, fed>> /\ Elsewhere

(* An exit status, no truncation, no sudo error, and stdout starts like a report. *)
Collect ==
    /\ At("collect") /\ link = "up"
    /\ AfterScan("report")

(***************************************************************************)
(* Any `?` or return Err of the block: a channel refused or closed without *)
(* exit status, sudo refused or silent, no executable staging root, a path *)
(* that is not sane, an upload that stalls, fails or takes too long, a     *)
(* report that is truncated or no report.  is_transient splits them.       *)
(***************************************************************************)
ScanFails(v) ==
    /\ ended = "no" /\ pc \in Inner
    /\ v \in {"transient", "final"}
    /\ AfterScan(v)

ScanTimesOut == elapsed = due /\ ScanFails("final")

(* Mutant: `replaced` is ignored and the binary is always removed (R25-24). *)
teardown_cmd_bin == IF opt.path THEN "bin" ELSE "dir"

(* RemoteArtifact::teardown_cmd. *)
teardown_cmd ==
    IF ~opt.path THEN "dir" ELSE IF uploaded THEN "bin" ELSE "part"

CleanupAsks ==
    /\ At("cleanup") /\ link = "up" /\ rm[attempt] = "none"
    /\ rm' = [rm EXCEPT ![attempt] = teardown_cmd]
    /\ UNCHANGED <<opt, pc, ended, attempt, timeVars, link, localVars, reportVars, fed>>
    /\ UNCHANGED <<dirs, part, bin, mk, shell, whole>>

(* Mutant: an exec request that was accepted is taken for a removal. *)
CleanupConfirmed_asked ==
    /\ At("cleanup") /\ link = "up" /\ rm[attempt] # "none"
    /\ pc' = "disconnect" /\ due' = elapsed + DISCONNECT_BUDGET
    /\ UNCHANGED <<slack, link, localVars, reportVars, fed>> /\ Elsewhere

(* Exit status 0. *)
CleanupConfirmed ==
    /\ At("cleanup") /\ link = "up" /\ rm[attempt] = "done"
    /\ pc' = "disconnect" /\ due' = elapsed + DISCONNECT_BUDGET
    /\ UNCHANGED <<slack, link, localVars, reportVars, fed>> /\ Elsewhere

(* Another exit status or none, a channel error, or its timer: only a warning. *)
CleanupUnconfirmed ==
    /\ At("cleanup")
    /\ pc' = "disconnect" /\ due' = elapsed + DISCONNECT_BUDGET
    /\ warned' = TRUE
    /\ UNCHANGED <<slack, link, localVars, result, notes, fed>> /\ Elsewhere

CleanupTimesOut == elapsed = due /\ CleanupUnconfirmed

(* Done or given up; the session is dropped with the attempt. *)
Disconnect ==
    /\ At("disconnect")
    /\ pc' = "decide" /\ due' = elapsed
    /\ link' = "down"
    /\ UNCHANGED <<slack, localVars, reportVars, fed>> /\ Elsewhere

-------------------------------------------------------------------------------
(* scan_remote_host: the retry loop and the ceiling around it. *)

(* Doubling, capped at 16 times the base. *)
retry_delay(n) == Backoff * <<1, 2, 4, 8, 16>>[IF n < 5 THEN n ELSE 5]

(* The report parses as an AgentReport or it does not; no other attempt either way. *)
DecideReport ==
    /\ At("decide") /\ verdict = "report"
    /\ Ends("returned") /\ result' \in {"report", "none"}

(* The jitter is less than a second. *)
DecideRetry ==
    /\ At("decide") /\ verdict = "transient" /\ attempt <= Retries
    /\ pc' = "backoff"
    /\ due' \in {elapsed + retry_delay(attempt), elapsed + retry_delay(attempt) + 1}
    /\ notes' = TRUE
    /\ UNCHANGED <<slack, link, localVars, result, warned, fed>> /\ Elsewhere

DecideFailed ==
    /\ At("decide")
    /\ verdict = "final" \/ (verdict = "transient" /\ attempt > Retries)
    /\ Ends("returned") /\ UNCHANGED result

(* The next call of run_remote_scan_russh, with its locals afresh. *)
NextAttempt ==
    /\ At("backoff") /\ elapsed = due
    /\ pc' = "connect" /\ due' = elapsed + CONNECT_BUDGET
    /\ attempt' = attempt + 1
    /\ artifact' = FALSE /\ uploaded' = FALSE /\ verdict' = "none"
    /\ slack' = 0
    /\ UNCHANGED <<opt, ended, elapsed, link, reportVars, hostVars, fed>>

(* Mutant: a blocking key load is not covered. *)
CeilingFires_notLoad ==
    /\ pc \notin {"start", "load"} /\ elapsed = host_ceiling
    /\ Ends("ceiling") /\ UNCHANGED result

(* tokio::time::timeout(overall, ..) drops the whole loop wherever it is. *)
CeilingFires ==
    /\ pc # "start" /\ elapsed = host_ceiling
    /\ Ends("ceiling") /\ UNCHANGED result

(* abort_all of the orchestrator, or the end of the process. *)
Abort == Ends("aborted") /\ UNCHANGED result

(* Time does not pass a timer that is due. *)
Tick ==
    /\ ended = "no" /\ pc # "start"
    /\ elapsed < host_ceiling
    /\ pc # "load" => elapsed < due
    /\ elapsed' = elapsed + 1
    /\ slack' = IF pc = "load" /\ attempt = 1 THEN slack + 1 ELSE slack
    /\ UNCHANGED <<opt, pc, ended, attempt, due, link, localVars, reportVars, hostVars, fed>>

-------------------------------------------------------------------------------
Establish ==
    \/ Connect \/ LoadKey \/ Handshake
    \/ \E v \in {"transient", "final"} : EstablishFails(v)

Scan ==
    \/ Preflight \/ StagePath \/ StageNothing \/ StageMktemp \/ MktempAnswers
    \/ UploadAsks \/ UploadFeeds \/ UploadAnswers
    \/ OpenExec \/ ProbeSudo \/ Execute \/ Collect
    \/ \E v \in {"transient", "final"} : ScanFails(v)

Cleanup == CleanupAsks \/ CleanupConfirmed \/ CleanupUnconfirmed

(* What happens without the host: timers, and decisions of the task. *)
Timer ==
    \/ Validate \/ Refuse \/ EstablishTimesOut \/ ScanTimesOut \/ CleanupTimesOut \/ Disconnect
    \/ DecideReport \/ DecideRetry \/ DecideFailed \/ NextAttempt \/ CeilingFires

Over == ended # "no" /\ UNCHANGED vars

Next == Establish \/ Scan \/ Cleanup \/ Timer \/ Abort \/ Tick \/ Host \/ LinkBreaks \/ Over

Spec == Init /\ [][Next]_vars

(* Time passes and the runtime serves timers; nothing is assumed of the host, of *)
(* the network or of the disk that holds the key.                                *)
FairSpec == Spec /\ WF_vars(Tick) /\ WF_vars(Timer)

-------------------------------------------------------------------------------
(* Properties. *)

Places == {"start", "connect", "load", "handshake", "cleanup", "disconnect", "decide", "backoff",
           "end"} \cup Inner

TypeOK ==
    /\ opt \in Options /\ pc \in Places
    /\ ended \in {"no", "returned", "ceiling", "aborted"}
    /\ attempt \in Attempt
    /\ elapsed \in 0 .. host_ceiling /\ due \in Nat /\ slack \in Nat
    /\ link \in {"down", "up", "lost"}
    /\ artifact \in BOOLEAN /\ uploaded \in BOOLEAN
    /\ verdict \in {"none", "report", "transient", "final"}
    /\ result \in {"none", "report"} /\ notes \in BOOLEAN /\ warned \in BOOLEAN
    /\ dirs \subseteq Dir
    /\ part \in [Dir -> Dir] /\ bin \in [Dir -> 0 .. Operators]
    /\ mk \in [Attempt -> {"none", "asked", "done"}]
    /\ shell \in [Attempt -> {"none", "asked", "cat", "eof", "ok", "failed"}]
    /\ rm \in [Attempt -> {"none", "dir", "part", "bin", "done"}]
    /\ fed \in [Attempt -> BOOLEAN] /\ whole \in [Attempt -> BOOLEAN]

(***************************************************************************)
(* R25-24: "Before it lands, the file at bin is still the operator's; only *)
(* our .part may be removed".  Whatever fails, is retried or arrives late, *)
(* the operator's binary only ever gives way to an upload.                 *)
(***************************************************************************)
OperatorFileSafe ==
    [][bin[0] = Operators => bin'[0] # Absent]_vars

(***************************************************************************)
(* A report that mentions no retry, on a run whose log has no warning      *)
(* about the host, means that nothing of ours is left there ("What WE put  *)
(* on the remote host and are therefore obliged to remove").               *)
(***************************************************************************)
SilentMeansClean ==
    (result = "report" /\ ~notes /\ ~warned) =>
        /\ dirs = {0}
        /\ (opt.copy /\ opt.path) => (part[0] = Absent /\ bin[0] = Absent)

(***************************************************************************)
(* What is probed and executed, with sudo, after an upload is what the     *)
(* attempt sent, complete: in a directory of its own always, in that of    *)
(* --remote-path in the first attempt.  (The path of the upload is fixed   *)
(* there, R25-47, so the shell of a lost attempt may still get in the way  *)
(* of the next one.)                                                       *)
(***************************************************************************)
RunsWhatItSent ==
    (/\ ended = "no" /\ opt.copy /\ pc \in {"open", "probe", "exec"}
     /\ opt.path => attempt = 1)
        => bin[Place(attempt)] = attempt /\ whole[attempt]

(***************************************************************************)
(* R35-10: host_ceiling outlives connect, handshake, scan and cleanup.     *)
(* When it fires in the first attempt, the cleanup of that attempt is      *)
(* over, provided loading the keys took less than the margin set aside.    *)
(***************************************************************************)
CeilingOutlivesAttempt ==
    [][(ended' = "ceiling" /\ ended = "no" /\ attempt = 1 /\ slack < CEILING_MARGIN)
        => pc \in {"disconnect", "decide", "backoff"}]_vars

(* The orchestrator gets an answer for the host, whatever the host does. *)
ScanEnds == <>(ended # "no")
===============================================================================
