------------------------------ MODULE FleetAudit ------------------------------
(***************************************************************************)
(* `owlzops-mapper audit` over a list of hosts (the fleet branch of        *)
(* run_command in src/main.rs): the local scan, the admission of remote    *)
(* scans under a semaphore, the JoinSet loop, the teardown after a signal, *)
(* the JSONL stream of JsonlWriter, --resume over the file an earlier run  *)
(* left behind, and the exit code.                                         *)
(*                                                                         *)
(* Processes: the main task (pc), one task per admitted remote host, the   *)
(* writer task, the signal handler with its watchdog, and the operator,    *)
(* who sends signals, may lose the process at any point, and starts it     *)
(* again.  Time is abstract: a grace period or a timeout may expire at any *)
(* moment at which its timer runs.                                         *)
(***************************************************************************)
EXTENDS JsonlWriter, FiniteSets

CONSTANTS
    LocalAlias,       \* the addresses that is_local_host recognises
    HostLists,        \* the lists (as sets, deduplicated) the operator asks for
    MaxConcurrent,    \* --max-concurrent
    Streaming,        \* --format json --output <file>
    FailOnIncomplete, \* --fail-on-incomplete
    Faults,           \* may the disk or the writer fail, or the process be killed?
    Pipe,             \* may the reader of stdout go away while it is rendered to?
    MaxSignals,       \* bound: signals per run (the third one exits)
    MaxRuns           \* bound: runs of the program over one output file

ASSUME AddressAssumption == IsFiniteSet(Address) /\ LocalAlias \subseteq Address
ASSUME HostListsAssumption == HostLists \subseteq (SUBSET Address) \ {{}}
ASSUME MaxConcurrentAssumption == MaxConcurrent \in Nat \ {0}
ASSUME FlagsAssumption ==
    Streaming \in BOOLEAN /\ FailOnIncomplete \in BOOLEAN /\ Faults \in BOOLEAN
    /\ Pipe \in BOOLEAN
ASSUME BoundsAssumption == MaxSignals \in Nat /\ MaxRuns \in Nat

NoExit == 256             \* still running: no process exits with this status
Killed == 137             \* SIGKILL, OOM: no code of the program's own

VARIABLES
    pc,           \* where the main task is
    back,         \* where it goes once the report in `out` is handed over
    hosts,        \* the deduplicated list of this run
    local,        \* the alias the local scan answers for: <<>> or <<h>>
    pending,      \* remote_iter: remote hosts not admitted yet
    running,      \* tasks of the JoinSet whose future is alive
    finished,     \* tasks of the JoinSet that ended and wait to be joined
    dropped,      \* hosts given up because no permit could be acquired
    permits,      \* permits available in the semaphore
    fillLeft,     \* iterations left of the initial fill
    agg,          \* OutcomeBuilder
    out,          \* the record being sent: <<>> or <<r>>
    sendFailures, \* send_failures
    interrupted,  \* a signal cancelled the local scan
    shutdown,     \* the AtomicBool
    notify,       \* the single permit Notify::notify_one can store
    hits,         \* signals received by the handler
    exit,         \* NoExit, Killed or the exit code
    run,          \* which run of the program this is
    received,     \* history: records accepted in this run, resumed ones included
    late          \* history: hosts admitted after the flag was set

listVars == <<hosts, local>>
slotVars == <<pending, running, finished, dropped, permits, fillLeft, late>>
reportVars == <<agg, received, out, back, sendFailures>>
signalVars == <<shutdown, notify, hits>>
processVars == <<exit, interrupted, run>>
vars == <<pc, listVars, slotVars, reportVars, signalVars, processVars, writerVars>>

Alive == exit = NoExit

Records(recs) == {recs[i] : i \in DOMAIN recs}
ReportsOf(recs) == [i \in DOMAIN recs |-> recs[i].report]
HostsOf(recs) == {recs[i].host : i \in DOMAIN recs}

(* A step of the main task that changes nothing but its place. *)
Goto(place) ==
    /\ pc' = place
    /\ UNCHANGED <<listVars, slotVars, reportVars, signalVars, processVars, writerVars>>

(* The end of run_command: the process exits with the code it returned. *)
Return(code) ==
    /\ exit' = code
    /\ pc' = "done"
    /\ ProcessEnds
    /\ UNCHANGED <<interrupted, run, listVars, slotVars, reportVars, signalVars>>

-------------------------------------------------------------------------------
(* Start of a run. *)

(***************************************************************************)
(* The variables of a new process, asked for the hosts in hs.  The first   *)
(* local alias of the list is the one scanned; which one is first is not   *)
(* modelled, so any may be.                                                *)
(***************************************************************************)
StartWith(hs) ==
    /\ hosts' = hs
    /\ IF hs \cap LocalAlias = {} THEN local' = <<>>
       ELSE \E h \in hs \cap LocalAlias : local' = <<h>>
    /\ pending' = hs \ LocalAlias

FreshMain ==
    /\ pc' = "open" /\ back' = "open"
    /\ running' = {} /\ finished' = {} /\ dropped' = {}
    /\ permits' = MaxConcurrent /\ fillLeft' = MaxConcurrent
    /\ agg' = EmptyAggregate /\ out' = <<>> /\ sendFailures' = 0
    /\ interrupted' = FALSE /\ exit' = NoExit
    /\ received' = {} /\ late' = 0
    /\ shutdown' = FALSE /\ notify' = FALSE /\ hits' = 0

FreshWriter ==
    /\ tx' = FALSE /\ chan' = <<>> /\ writer' = "off" /\ line' = <<>> /\ buf' = <<>>
    /\ poisoned' = FALSE /\ ioErrors' = 0 /\ opened' = <<>> /\ sent' = <<>>

Init ==
    /\ hosts \in HostLists
    /\ local \in (IF hosts \cap LocalAlias = {} THEN {<<>>}
                  ELSE {<<h>> : h \in hosts \cap LocalAlias})
    /\ pending = hosts \ LocalAlias
    /\ pc = "open" /\ back = "open"
    /\ running = {} /\ finished = {} /\ dropped = {}
    /\ permits = MaxConcurrent /\ fillLeft = MaxConcurrent
    /\ agg = EmptyAggregate /\ out = <<>> /\ sendFailures = 0
    /\ interrupted = FALSE /\ exit = NoExit
    /\ received = {} /\ late = 0
    /\ shutdown = FALSE /\ notify = FALSE /\ hits = 0 /\ run = 1
    /\ tx = FALSE /\ chan = <<>> /\ writer = "off" /\ line = <<>> /\ buf = <<>>
    /\ poisoned = FALSE /\ ioErrors = 0 /\ opened = <<>> /\ sent = <<>>
    /\ disk = EmptyFile

(* Mutant: resumed records are credited but not fed to the aggregator. *)
ResumedAggregate_empty(recs) == EmptyAggregate

(* resume_scan adds every record to the aggregator as it reads it. *)
ResumedAggregate(recs) == AggregateOf(ReportsOf(recs))

(* Mutant: an unterminated last record does not get its newline. *)
Terminated_not(f) == f

(* needs_newline: the previous run's last record is terminated. *)
Terminated(f) == [f EXCEPT !.tail = "ok"]

(***************************************************************************)
(* The file is created (the first run) or resumed and opened for append:   *)
(* every record is credited and fed to the aggregator, an unterminated     *)
(* last record gets its newline, the writer task is spawned.               *)
(***************************************************************************)
OpenOutput ==
    /\ Alive /\ pc = "open" /\ Streaming
    /\ disk.tail # "torn" /\ ~disk.fused
    /\ agg' = ResumedAggregate(disk.recs)
    /\ received' = Records(disk.recs)
    /\ pending' = pending \ HostsOf(disk.recs)
    /\ disk' = Terminated(disk)
    /\ opened' = disk.recs
    /\ tx' = TRUE /\ writer' = "recv"
    /\ pc' = "local"
    /\ UNCHANGED <<back, running, finished, dropped, permits, fillLeft, out,
                   sendFailures, late, chan, line, buf, poisoned, ioErrors,
                   sent, listVars, signalVars, processVars>>

(***************************************************************************)
(* The run gives up before it has a stream: the code is returned at once,  *)
(* whatever the records read until then said.                              *)
(***************************************************************************)
GiveUp(code, recs) ==
    /\ agg' = ResumedAggregate(recs)
    /\ received' = Records(recs)
    /\ exit' = code
    /\ pc' = "refused"
    /\ ProcessEnds
    /\ UNCHANGED <<back, out, sendFailures, interrupted, run, listVars, slotVars,
                   signalVars>>

(* resume_scan stops after n records: at a torn or fused line, or at a read error. *)
StopsAfter(n) ==
    \/ disk.tail = "torn" /\ n = Len(disk.recs)
    \/ disk.fused
    \/ Faults /\ run > 1

RefuseResume ==
    /\ Alive /\ pc = "open" /\ Streaming
    /\ \E n \in 0 .. Len(disk.recs) :
          StopsAfter(n) /\ GiveUp(EXIT_USAGE, SubSeq(disk.recs, 1, n))

(* Every record is read; then the file cannot be opened for writing, or the newline cannot
   be written. *)
OpenFails ==
    /\ Alive /\ pc = "open" /\ Streaming /\ Faults
    /\ disk.tail # "torn" /\ ~disk.fused
    /\ GiveUp(EXIT_DEGRADED, disk.recs)

(* Other formats collect the reports in memory; there is no stream. *)
NoStream ==
    /\ Alive /\ pc = "open" /\ ~Streaming
    /\ Goto("local")

-------------------------------------------------------------------------------
(* The local scan. *)

(* There is a local host, and --resume has not found its record. *)
LocalDue == local # <<>> /\ Head(local) \notin HostsOf(opened)

LocalSkip ==
    /\ Alive /\ pc = "local" /\ (~LocalDue \/ shutdown)
    /\ Goto("remote")

LocalStart ==
    /\ Alive /\ pc = "local" /\ LocalDue /\ ~shutdown
    /\ Goto("localScan")

(* A report arrives: aggregate it, then hand it over and go on at `next`. *)
Accept(h, r, next) ==
    /\ agg' = add(agg, r)
    /\ received' = received \cup {[host |-> h, report |-> r]}
    /\ out' = <<[host |-> h, report |-> r]>>
    /\ pc' = "send"
    /\ back' = next

LocalReport(r) ==
    /\ Alive /\ pc = "localScan"
    /\ Accept(Head(local), r, "remote")
    /\ UNCHANGED <<sendFailures, listVars, slotVars, signalVars, processVars,
                   writerVars>>

(* The notification wins the select: no report, and the run is interrupted. *)
LocalInterrupted ==
    /\ Alive /\ pc = "localScan" /\ notify
    /\ notify' = FALSE
    /\ interrupted' = TRUE
    /\ pc' = "remote"
    /\ UNCHANGED <<exit, shutdown, hits, run, listVars, slotVars, reportVars,
                   writerVars>>

-------------------------------------------------------------------------------
(* Handing a report over: tx.send(report).await, or reports.push(report). *)

SendReport ==
    /\ Alive /\ pc = "send"
    /\ IF Streaming THEN Send(Head(out)) ELSE UNCHANGED writerVars
    /\ out' = <<>>
    /\ pc' = back
    /\ UNCHANGED <<back, agg, sendFailures, received, listVars, slotVars, signalVars,
                   processVars>>

SendFails ==
    /\ Alive /\ pc = "send" /\ Streaming
    /\ SendClosed
    /\ sendFailures' = sendFailures + 1
    /\ out' = <<>>
    /\ pc' = back
    /\ UNCHANGED <<back, agg, received, listVars, slotVars, signalVars, processVars>>

-------------------------------------------------------------------------------
(* Admission control (R28-08): the flag is read, the host is taken and its *)
(* permit acquired, the task is spawned.  A signal may come in between.    *)

RemoteStart ==
    /\ Alive /\ pc = "remote"
    /\ Goto(IF pending = {} THEN "close" ELSE "fill")

(* Mutant: the fill goes on until the list is exhausted. *)
FillMore_unbounded == ~shutdown /\ pending # {}

(* Mutant: the fill does not look at the flag. *)
FillMore_blind == fillLeft > 0 /\ pending # {}

FillMore == fillLeft > 0 /\ ~shutdown /\ pending # {}

FillCheck ==
    /\ Alive /\ pc = "fill"
    /\ Goto(IF FillMore THEN "fillSpawn" ELSE "select")

Spawn(h) ==
    /\ pending' = pending \ {h}
    /\ running' = running \cup {h}
    /\ permits' = permits - 1
    /\ late' = IF shutdown THEN late + 1 ELSE late

FillSpawn(h) ==
    /\ Alive /\ pc = "fillSpawn" /\ h \in pending
    /\ permits > 0
    /\ Spawn(h)
    /\ fillLeft' = fillLeft - 1
    /\ pc' = "fill"
    /\ UNCHANGED <<finished, dropped, listVars, reportVars, signalVars, processVars,
                   writerVars>>

(* Mutant: the permit is forgotten instead of dropped. *)
DropPermit_leak == UNCHANGED permits

DropPermit == permits' = permits + 1

(* scan_remote_host returns, or the task panics: its permit is dropped with it. *)
TaskEnds(h) ==
    /\ Alive /\ h \in running
    /\ running' = running \ {h}
    /\ finished' = finished \cup {h}
    /\ DropPermit
    /\ UNCHANGED <<pc, pending, dropped, fillLeft, late, listVars, reportVars,
                   signalVars, processVars, writerVars>>

(* join_next yields a task: Ok(Some(report)), or Ok(None) / a JoinError. *)
Join(h, next) ==
    /\ Alive /\ pc = next /\ ~notify /\ h \in finished
    /\ finished' = finished \ {h}
    /\ UNCHANGED <<pending, running, dropped, permits, fillLeft, sendFailures, late,
                   listVars, signalVars, processVars, writerVars>>

JoinReport(h, r) ==
    /\ Join(h, "select")
    /\ Accept(h, r, "next")

JoinNothing(h) ==
    /\ Join(h, "select")
    /\ pc' = "next"
    /\ UNCHANGED <<back, agg, received, out>>

AdmitMore == ~shutdown /\ pending # {}

(* A slot is free: admit the next host unless shutdown was requested. *)
NextCheck ==
    /\ Alive /\ pc = "next"
    /\ Goto(IF AdmitMore THEN "nextSpawn" ELSE "select")

(* try_acquire_owned: without a permit the host is dropped. *)
NextSpawn(h) ==
    /\ Alive /\ pc = "nextSpawn" /\ h \in pending
    /\ IF permits > 0
       THEN Spawn(h) /\ UNCHANGED dropped
       ELSE /\ pending' = pending \ {h}
            /\ dropped' = dropped \cup {h}
            /\ UNCHANGED <<running, permits, late>>
    /\ pc' = "select"
    /\ UNCHANGED <<finished, fillLeft, listVars, reportVars, signalVars, processVars,
                   writerVars>>

(* join_next yields None: every task is joined. *)
AllJoined ==
    /\ Alive /\ pc \in {"select", "teardown"} /\ ~notify
    /\ running = {} /\ finished = {}
    /\ Goto("close")

-------------------------------------------------------------------------------
(* Teardown after a signal. *)

SelectShutdown ==
    /\ Alive /\ pc = "select" /\ notify
    /\ notify' = FALSE
    /\ pc' = "teardown"
    /\ UNCHANGED <<shutdown, hits, listVars, slotVars, reportVars, processVars,
                   writerVars>>

TeardownReport(h, r) ==
    /\ Join(h, "teardown")
    /\ Accept(h, r, "teardown")

TeardownNothing(h) ==
    /\ Join(h, "teardown")
    /\ UNCHANGED <<pc, back, agg, received, out>>

(* abort_all: live tasks are cancelled, unjoined results are discarded. *)
AbortAll ==
    /\ Alive /\ pc = "teardown"
    /\ running' = {} /\ finished' = {}
    /\ permits' = MaxConcurrent
    /\ pc' = "close"
    /\ UNCHANGED <<pending, dropped, fillLeft, late, shutdown, hits, listVars,
                   reportVars, processVars, writerVars>>

SecondInterrupt == AbortAll /\ notify /\ notify' = FALSE

GraceExpired == AbortAll /\ ~notify /\ UNCHANGED notify

-------------------------------------------------------------------------------
(* Delivery and the exit code. *)

(* Mutant: the sender outlives the scan loop. *)
CloseTx_keep == UNCHANGED writerVars

CloseTx == IF Streaming THEN DropTx ELSE UNCHANGED writerVars

CloseStream ==
    /\ Alive /\ pc = "close"
    /\ CloseTx
    /\ pc' = IF ~Streaming THEN "output" ELSE IF shutdown THEN "joinTimed" ELSE "joinWait"
    /\ UNCHANGED <<listVars, slotVars, reportVars, signalVars, processVars>>

FleetCode(lost, outputFailed) ==
    fleet_code(finish(agg, Cardinality(hosts), lost, outputFailed), interrupted, FailOnIncomplete)

(* Mutant: only failed sends count as lost records. *)
TotalLost_sendsOnly == sendFailures

TotalLost == ioErrors + sendFailures

WriterJoined ==
    /\ Alive /\ pc \in {"joinWait", "joinTimed"} /\ writer = "done"
    /\ Return(FleetCode(TotalLost, FALSE))

WriterFailed ==
    /\ Alive /\ pc \in {"joinWait", "joinTimed"} /\ writer = "panicked"
    /\ Return(FleetCode(sendFailures, TRUE))

DrainTimeout ==
    /\ Alive /\ pc = "joinTimed" /\ Receiving
    /\ Return(FleetCode(sendFailures, TRUE))

(* output_multi: nothing is rendered for an interrupted local scan. *)
OutputDone ==
    /\ Alive /\ pc = "output"
    /\ Return(FleetCode(0, FALSE))

OutputFails ==
    /\ Alive /\ pc = "output" /\ Faults /\ ~interrupted /\ received # {}
    /\ Return(FleetCode(0, TRUE))

(* EPIPE on stdout: outln! ends in exit_reader_gone, a println! panics. *)
ReaderGone ==
    /\ Alive /\ pc = "output" /\ Pipe /\ ~interrupted
    /\ \E code \in {EXIT_CLEAN, EXIT_INTERNAL_ERROR} : Return(code)

-------------------------------------------------------------------------------
(* Signals, forced exits, and the next run. *)

(* The process ends wherever the main task is. *)
ForcedExit(code) ==
    /\ exit' = code
    /\ ProcessEnds
    /\ UNCHANGED <<pc, interrupted, run, listVars, slotVars, reportVars>>

(***************************************************************************)
(* The handler counts the signal, sets the flag, stores the one permit a   *)
(* Notify can hold; the third signal exits.  (A waiter that is parked is   *)
(* woken without the permit, which a second signal may then store: the     *)
(* states of a second signal that comes after the waiter went on.)         *)
(***************************************************************************)
Signal ==
    /\ Alive /\ hits < MaxSignals /\ hits < 2
    /\ hits' = hits + 1
    /\ shutdown' = TRUE
    /\ notify' = TRUE
    /\ UNCHANGED <<pc, listVars, slotVars, reportVars, processVars, writerVars>>

ThirdSignal ==
    /\ Alive /\ hits < MaxSignals /\ hits = 2
    /\ hits' = hits + 1
    /\ shutdown' = TRUE
    /\ notify' = TRUE
    /\ ForcedExit(EXIT_INTERRUPT)

(* FLEET_TEARDOWN_GRACE + HARD_EXIT_MARGIN after the first signal. *)
Watchdog ==
    /\ Alive /\ hits > 0
    /\ ForcedExit(EXIT_INTERRUPT)
    /\ UNCHANGED signalVars

(* The process is killed from outside: nothing of it runs on. *)
Kill ==
    /\ Alive /\ Faults
    /\ ForcedExit(Killed)
    /\ UNCHANGED signalVars

(* The operator drops a torn tail as resume_scan's message says. *)
OperatorTruncates ==
    /\ exit = EXIT_USAGE /\ disk.tail = "torn"
    /\ disk' = [disk EXCEPT !.tail = "ok"]
    /\ UNCHANGED <<pc, tx, chan, writer, line, buf, poisoned, ioErrors, opened, sent,
                   listVars, slotVars, reportVars, signalVars, processVars>>

(* The operator runs the program again, with --resume over the same file. *)
Rerun ==
    /\ ~Alive /\ run < MaxRuns
    /\ run' = run + 1
    /\ \E hs \in HostLists : StartWith(hs)
    /\ FreshMain /\ FreshWriter
    /\ UNCHANGED disk

(* The program has ended and is not run again. *)
Ended == ~Alive /\ UNCHANGED vars

WriterTask ==
    /\ Alive
    /\ WriterStep
    /\ UNCHANGED <<pc, listVars, slotVars, reportVars, signalVars, processVars>>

WriterTaskFails ==
    /\ Alive /\ Faults
    /\ WriterFault
    /\ UNCHANGED <<pc, listVars, slotVars, reportVars, signalVars, processVars>>

Start == OpenOutput \/ RefuseResume \/ OpenFails \/ NoStream

LocalScan == LocalSkip \/ LocalStart \/ (\E r \in Reports : LocalReport(r)) \/ LocalInterrupted

Admission == RemoteStart \/ FillCheck \/ NextCheck \/ \E h \in Address : FillSpawn(h) \/ NextSpawn(h)

Collect ==
    \/ AllJoined \/ SelectShutdown
    \/ \E h \in Address : JoinNothing(h) \/ TeardownNothing(h)
    \/ \E h \in Address, r \in Reports : JoinReport(h, r) \/ TeardownReport(h, r)
    \/ SecondInterrupt \/ GraceExpired

Deliver == SendReport \/ SendFails \/ CloseStream \/ WriterJoined \/ WriterFailed
           \/ DrainTimeout \/ OutputDone \/ OutputFails \/ ReaderGone

Environment == Signal \/ ThirdSignal \/ Watchdog \/ Kill \/ OperatorTruncates \/ Rerun

MainTask == Start \/ LocalScan \/ Admission \/ Collect \/ Deliver

Next ==
    \/ MainTask
    \/ \E h \in Address : TaskEnds(h)
    \/ WriterTask \/ WriterTaskFails
    \/ Environment
    \/ Ended

Spec == Init /\ [][Next]_vars

(***************************************************************************)
(* The runtime polls the main task and the blocking writer thread runs;    *)
(* host_ceiling bounds every remote scan.  Nothing is assumed of signals,  *)
(* and the watchdog is not relied upon.                                    *)
(***************************************************************************)
FairSpec ==
    /\ Spec
    /\ WF_vars(MainTask)
    /\ WF_vars(WriterTask)
    /\ \A h \in Address : WF_vars(TaskEnds(h))

-------------------------------------------------------------------------------
(* Properties. *)

TypeOK ==
    /\ pc \in {"open", "local", "localScan", "send", "remote", "fill", "fillSpawn",
               "select", "next", "nextSpawn", "teardown", "close", "joinWait",
               "joinTimed", "output", "done", "refused"}
    /\ back \in {"open", "remote", "next", "teardown"}
    /\ hosts \in HostLists
    /\ local \in Seq(Address) /\ Len(local) <= 1
    /\ pending \subseteq Address /\ running \subseteq Address
    /\ finished \subseteq Address /\ dropped \subseteq Address
    /\ permits \in 0 .. MaxConcurrent /\ fillLeft \in 0 .. MaxConcurrent
    /\ agg \in Aggregate
    /\ out \in Seq(Record) /\ Len(out) = (IF pc = "send" THEN 1 ELSE 0)
    /\ sendFailures \in Nat
    /\ interrupted \in BOOLEAN /\ shutdown \in BOOLEAN /\ notify \in BOOLEAN
    /\ hits \in 0 .. 3
    /\ exit \in {EXIT_CLEAN, EXIT_CRITICAL, EXIT_DEGRADED, EXIT_COMPROMISED,
                 EXIT_INCOMPLETE, EXIT_USAGE, EXIT_INTERNAL_ERROR, EXIT_INTERRUPT,
                 Killed, NoExit}
    /\ run \in Nat
    /\ received \subseteq Record
    /\ late \in Nat
    /\ WriterTypeOK

(***************************************************************************)
(* Admission control (R28-08): every permit is in the semaphore or with a  *)
(* live task, and the JoinSet never holds more than MaxConcurrent tasks,   *)
(* finished ones included.                                                 *)
(***************************************************************************)
AdmissionBound ==
    /\ permits + Cardinality(running) = MaxConcurrent
    /\ Cardinality(running) + Cardinality(finished) <= MaxConcurrent

(***************************************************************************)
(* "Since a task just completed, a permit is guaranteed available": the    *)
(* branch that gives a requested host up is never taken.                   *)
(***************************************************************************)
NoHostDropped == dropped = {}

(***************************************************************************)
(* Once the shutdown flag is set at most one more host is admitted, the    *)
(* one whose admission had passed the check already.                       *)
(***************************************************************************)
AtMostOneLateAdmission == late <= 1

CompromiseAccepted == \E rec \in received : rec.report.verdict = "compromised"

(***************************************************************************)
(* "A confirmed compromise is never masked by uncertainty": a run that has *)
(* opened its output and returns after it accepted a compromised report,   *)
(* new or resumed, exits with 3, whatever was lost, interrupted or failed. *)
(* (A reader of stdout that goes away is ReaderGone.)                      *)
(***************************************************************************)
AuditNeverMasks == pc = "done" /\ CompromiseAccepted => exit = EXIT_COMPROMISED

(***************************************************************************)
(* The same of every run that returns, as README.md has it ("Active        *)
(* compromise detected - regardless of coverage"), with the runs that end  *)
(* while the output is being opened and those that lose their reader.      *)
(***************************************************************************)
CompromiseNeverMasked ==
    pc \in {"done", "refused"} /\ CompromiseAccepted => exit = EXIT_COMPROMISED

FullReport(r) == ~r.scanners_failed /\ ~r.non_root /\ ~r.warnings

(***************************************************************************)
(* README: 0 and 1 mean full coverage.  A run that streams and exits 0 or  *)
(* 1 has, for each host asked for, a record in the file whose report had   *)
(* full coverage, the file ends in a complete line, and the code agrees    *)
(* with the worst verdict among the records.                               *)
(***************************************************************************)
HonestExit ==
    Streaming /\ exit \in {EXIT_CLEAN, EXIT_CRITICAL} =>
        /\ disk.tail = "ok"
        /\ \A h \in hosts : \E rec \in Records(disk.recs) :
              rec.host = h /\ FullReport(rec.report)
        /\ \A rec \in Records(disk.recs) :
              rank(rec.report.verdict) <= (IF exit = EXIT_CLEAN THEN 0 ELSE 1)

(***************************************************************************)
(* Across crashes, forced exits and resumes the file holds at most one     *)
(* record per address and no line with two records: resume credits what is *)
(* there and scans only the rest (M4, R37-04).                             *)
(***************************************************************************)
FileStaysClean ==
    /\ ~disk.fused
    /\ \A i, j \in DOMAIN disk.recs : disk.recs[i].host = disk.recs[j].host => i = j

(* successful_hosts: the record of the local scan credits every alias (R25-100). *)
successful_hosts ==
    LET answered == {rec.host : rec \in received} IN
    answered \cup (IF local # <<>> /\ Head(local) \in answered
                  THEN hosts \cap LocalAlias ELSE {})

missing_of == hosts \ successful_hosts

(***************************************************************************)
(* "Dropping duplicates without crediting them makes them look like hosts  *)
(* that never reported (R25-100)": when every host asked for is credited,  *)
(* every report had full coverage and every record was written, a run that *)
(* returns does not exit as degraded or incomplete.                        *)
(***************************************************************************)
CreditedIsNotMissing ==
    /\ pc = "done" /\ writer = "done"
    /\ missing_of = {}
    /\ \A rec \in received : FullReport(rec.report)
    /\ ioErrors + sendFailures = 0
    => exit \notin {EXIT_DEGRADED, EXIT_INCOMPLETE}

(***************************************************************************)
(* Every run comes to an end, without the help of the watchdog: the main   *)
(* task never waits for a slot, a task or the writer forever.              *)
(***************************************************************************)
RunEnds == Alive ~> ~Alive
===============================================================================
