------------------------------- MODULE GhostPid -------------------------------
(***************************************************************************)
(* src/scanners/ghost_pid.rs: a process that the listing of /proc leaves   *)
(* out although /proc/<pid> exists is hidden.  The listing, the probes of  *)
(* the single pids and the reads of their status are separate system calls *)
(* between which processes come and go and pids are used again.            *)
(***************************************************************************)
EXTENDS Integers, FiniteSets

CONSTANTS
    Machines,           \* what the kernel says of itself, and the pids in use at first
    Kinds,              \* what may be started while the scan runs
    PROBE_CYCLES,
    MAX_FINDINGS,
    PID_MAX_FALLBACK,
    WRAP_TAIL_FRACTION,
    MaxStarts,          \* bound on the processes started during the scan
    none                \* no value: a file that cannot be read, no previous cycle

Kind == {"plain", "thread", "hidden", "buried"}
State == {"live", "zombie"}
Status == [thread : BOOLEAN, state : State \cup {none}]

(* Pids start at 1 and only movers change hands; what runs at first was started before the scan. *)
ASSUME MachinesAssumption ==
    \A m \in Machines :
        /\ m.pid_max \in Nat /\ m.ns_last \in Nat \cup {none} /\ m.movers \subseteq 1 .. m.pid_max
        /\ {m.pid_max_read, m.hidepid, m.deep, m.uptime} \subseteq BOOLEAN
        /\ DOMAIN m.proc \subseteq 1 .. m.pid_max
        /\ \A p \in DOMAIN m.proc : m.proc[p] \in [kind : Kind, age : {"old", "young"}, state : State]
ASSUME ProbeAssumption ==
    /\ Kinds \subseteq Kind /\ PROBE_CYCLES \in Nat \ {0} /\ MAX_FINDINGS \in Nat
    /\ PID_MAX_FALLBACK \in Nat
ASSUME NoneAssumption ==
    /\ none \notin State \cup {"old", "young"}
    /\ \A s \in Status : none # s
    /\ \A m \in Machines : \A pids \in SUBSET (1 .. m.pid_max) : none # pids

VARIABLES
    machine,    \* the kernel's settings; they do not change
    proc,       \* the process under each pid in use
    started,    \* per pid: how many processes were started during the scan (history)
    haunted,    \* the pids under which a hidden process has run (history)
    scan,       \* where detect is and what it has seen
    notes,      \* the coverage warnings
    findings

ghostVars == <<machine, proc, started, haunted, scan, notes, findings>>

(* The kinds: a plain process is listed and can be probed; a thread that leads no group and a
   hidden process are not listed; of a buried one only kill(pid, 0) tells. *)
Process(kind, age, state) == [kind |-> kind, age |-> age, state |-> state]
listed == {p \in DOMAIN proc : proc[p].kind = "plain"}
on_path(p) == p \in DOMAIN proc /\ proc[p].kind # "buried"

-------------------------------------------------------------------------------
(* The highest pid handed out bounds the probes; near the end of the range all of it is probed. *)
bounds_offByOne(m) ==
    LET pid_max == IF m.pid_max_read THEN m.pid_max ELSE PID_MAX_FALLBACK
        upper == IF m.ns_last # none /\ m.ns_last < pid_max THEN m.ns_last ELSE pid_max
        near_wrap == upper > (pid_max * (WRAP_TAIL_FRACTION - 1)) \div WRAP_TAIL_FRACTION
    IN [upper |-> upper, pid_max |-> pid_max, wraps |-> near_wrap /\ upper < pid_max,
        tail |-> IF near_wrap THEN upper + 2 .. pid_max ELSE {}]
pid_scan_bounds(m) ==
    LET pid_max == IF m.pid_max_read THEN m.pid_max ELSE PID_MAX_FALLBACK
        upper == IF m.ns_last # none /\ m.ns_last < pid_max THEN m.ns_last ELSE pid_max
        near_wrap == upper > (pid_max * (WRAP_TAIL_FRACTION - 1)) \div WRAP_TAIL_FRACTION
    IN [upper |-> upper, pid_max |-> pid_max, wraps |-> near_wrap /\ upper < pid_max,
        tail |-> IF near_wrap THEN upper + 1 .. pid_max ELSE {}]
should_report_scan_gap(b) == ~b.wraps /\ b.upper < b.pid_max

(* io_uring probes the whole range; without it, or when it breaks off, the bounds apply. *)
to_probe(b, used_sync) == IF used_sync THEN 1 .. b.upper \cup b.tail ELSE 1 .. b.pid_max

candidate_diff(live, listed_before, listed_after) == live \ (listed_before \cup listed_after)

(* A status that is gone keeps the candidate, one that may not be read drops it. *)
status_denied(p) == on_path(p) /\ p \in machine.denied
is_thread(p) == on_path(p) /\ (proc[p].kind = "thread" \/ status_denied(p))

(* The age counts back from the uptime that was read when the scan began: none for a process
   started since, none for any when it could not be read. *)
age_secs(p) ==
    IF ~on_path(p) \/ ~machine.uptime \/ proc[p].age = "new" THEN none ELSE proc[p].age
confirmed_ageless(state, age) == state = "live" /\ age # "young"
confirmed_ioc(state, age) == state = "live" /\ age = "old"

(* status is what /proc/<pid>/status said: whether it names another group leader, the state. *)
classify(p, status) ==
    LET state == IF status.state # none THEN status.state
                 ELSE IF on_path(p) THEN proc[p].state ELSE none
    IN IF status.thread \/ p \notin DOMAIN proc THEN {}
       ELSE {[pid |-> p, confirmed_ioc |-> confirmed_ioc(state, age_secs(p)),
              via |-> IF on_path(p) THEN "stat-path+kill" ELSE "kill"]}

-------------------------------------------------------------------------------
Phase(ph) == scan' = [scan EXCEPT !.phase = ph]
world == <<machine, proc, started, haunted>>

GhostInit ==
    /\ machine \in Machines
    /\ proc = machine.proc
    /\ started = [p \in 1 .. machine.pid_max |-> 0]
    /\ haunted = {p \in DOMAIN proc : proc[p].kind \in {"hidden", "buried"}}
    /\ scan = [phase |-> "start", cycle |-> 0, before |-> {}, todo |-> {}, live |-> {},
               after |-> {}, stable |-> none, status |-> none]
    /\ notes = {}
    /\ findings = {}

(* has_hidepid_option, uptime_secs and pid_scan_bounds, before the first cycle. *)
Start ==
    /\ scan.phase = "start"
    /\ notes' = (IF machine.hidepid THEN {"hidepid"} ELSE {})
                \cup (IF ~machine.uptime /\ (~machine.hidepid \/ machine.deep) THEN {"uptime"} ELSE {})
    /\ Phase(IF machine.hidepid /\ ~machine.deep THEN "done" ELSE "before")
    /\ UNCHANGED <<world, findings>>

(* One cycle: the listing ... *)
ListBefore ==
    /\ scan.phase = "before"
    /\ \E used_sync \in BOOLEAN :
        LET b == pid_scan_bounds(machine)
            gap == IF ~machine.pid_max_read THEN {"pid_max"}
                   ELSE IF used_sync /\ should_report_scan_gap(b) THEN {"gap"} ELSE {}
        IN /\ scan' = [scan EXCEPT !.phase = "probe", !.cycle = @ + 1, !.before = listed,
                                   !.todo = to_probe(b, used_sync), !.live = {}]
           /\ notes' = notes \cup gap
    /\ UNCHANGED <<world, findings>>

(* ... the probes, one pid after the other in no order to rely on ... *)
Probe(p) ==
    /\ scan.phase = "probe" /\ p \in scan.todo
    /\ scan' = [scan EXCEPT !.todo = @ \ {p}, !.live = IF on_path(p) THEN @ \cup {p} ELSE @]
    /\ UNCHANGED <<world, notes, findings>>

(* ... the listing again ... *)
ListAfter ==
    /\ scan.phase = "probe" /\ scan.todo = {}
    /\ scan' = [scan EXCEPT !.phase = "filter", !.after = listed]
    /\ UNCHANGED <<world, notes, findings>>

(* ... and what is left when the threads are gone is kept if every cycle so far saw it. *)
Filtered(candidates) ==
    LET kept == IF scan.stable = none THEN candidates ELSE scan.stable \cap candidates
    IN scan' = [scan EXCEPT !.stable = kept, !.before = {}, !.live = {}, !.after = {},
                            !.phase = IF kept = {} THEN "done"
                                      ELSE IF scan.cycle < PROBE_CYCLES THEN "before" ELSE "classify"]
Candidates == {p \in candidate_diff(scan.live, scan.before, scan.after) : ~is_thread(p)}
Filter_latest ==
    /\ scan.phase = "filter"
    /\ scan' = [scan EXCEPT !.stable = Candidates, !.before = {}, !.live = {}, !.after = {},
                            !.phase = IF Candidates = {} THEN "done"
                                      ELSE IF scan.cycle < PROBE_CYCLES THEN "before" ELSE "classify"]
    /\ UNCHANGED <<world, notes, findings>>
Filter ==
    /\ scan.phase = "filter"
    /\ Filtered(Candidates)
    /\ UNCHANGED <<world, notes, findings>>

(* The survivors, in order: first the status ... *)
Least(S) == CHOOSE p \in S : \A q \in S : p <= q
ReadStatus ==
    /\ scan.phase = "classify" /\ scan.stable # {} /\ scan.status = none
    /\ LET p == Least(scan.stable) IN
        IF Cardinality(findings) >= MAX_FINDINGS
        THEN /\ notes' = notes \cup {"cap"}
             /\ scan' = [scan EXCEPT !.stable = {}]
        ELSE /\ notes' = notes
             /\ scan' = IF status_denied(p) THEN [scan EXCEPT !.stable = @ \ {p}]
                        ELSE [scan EXCEPT !.status =
                                [thread |-> on_path(p) /\ proc[p].kind = "thread",
                                 state |-> IF on_path(p) THEN proc[p].state ELSE none]]
    /\ UNCHANGED <<world, findings>>

(* ... then the path, the signal and the age. *)
Classify ==
    /\ scan.phase = "classify" /\ scan.status # none
    /\ LET p == Least(scan.stable) IN
        /\ findings' = findings \cup classify(p, scan.status)
        /\ scan' = [scan EXCEPT !.stable = @ \ {p}, !.status = none]
    /\ UNCHANGED <<world, notes>>

Conclude ==
    /\ scan.phase = "classify" /\ scan.stable = {}
    /\ notes' = IF findings # {} THEN notes \cup {"found"} ELSE notes
    /\ Phase("done")
    /\ UNCHANGED <<world, findings>>

Detect ==
    \/ Start \/ ListBefore \/ ListAfter \/ Filter \/ ReadStatus \/ Classify \/ Conclude
    \/ \E p \in scan.todo : Probe(p)

-------------------------------------------------------------------------------
(* The machine goes on: processes end, and others take up pids that are free. *)
Starts == LET total[n \in 0 .. machine.pid_max] ==
                IF n = 0 THEN 0 ELSE total[n - 1] + started[n]
          IN total[machine.pid_max]
Spawn(p, kind) ==
    /\ scan.phase # "done" /\ p \in machine.movers \ DOMAIN proc /\ Starts < MaxStarts
    /\ proc' = [q \in DOMAIN proc \cup {p} |->
                    IF q = p THEN Process(kind, "new", "live") ELSE proc[q]]
    /\ started' = [started EXCEPT ![p] = @ + 1]
    /\ haunted' = IF kind \in {"hidden", "buried"} THEN haunted \cup {p} ELSE haunted
    /\ UNCHANGED <<machine, scan, notes, findings>>
Exit(p) ==
    /\ scan.phase # "done" /\ p \in machine.movers \cap DOMAIN proc
    /\ proc' = [q \in DOMAIN proc \ {p} |-> proc[q]]
    /\ UNCHANGED <<machine, started, haunted, scan, notes, findings>>
Elsewhere == \E p \in machine.movers : Exit(p) \/ \E kind \in Kinds : Spawn(p, kind)

-------------------------------------------------------------------------------
(* A confirmed indicator of compromise, which turns the exit code into 3, names a process that
   hides: however processes start, end and reuse each other's pids between the listings, the
   probes and the reads, an honest one is never it (ghost_pid::detect, classify). *)
ConfirmedIsHidden ==
    \A f \in findings : f.confirmed_ioc => f.pid \in haunted

(* Even a mere suspicion of a pid that nobody hid behind takes at least one process started under
   that very pid for every probe cycle (candidate_diff on two listings, the intersection of the
   cycles, is_thread). *)
SuspicionTakesRaces ==
    \A f \in findings : f.pid \notin haunted => started[f.pid] >= PROBE_CYCLES

(* A process that was hidden from the listing before the scan began and still is when it ends has
   been found, as a confirmed one if it is old enough, alive and the uptime is known; or a note
   tells why not: /proc was not scanned at all, its pid lies beyond the bounds, or the list of
   findings is full.  The bounds leave no pid out in silence (pid_scan_bounds,
   should_report_scan_gap, probe_live_set). *)
Beyond(p) == p \notin to_probe(pid_scan_bounds(machine), TRUE)
HiddenIsFound ==
    scan.phase = "done" =>
        \A p \in DOMAIN proc :
            proc[p].kind = "hidden" /\ proc[p].age # "new" /\ p \notin machine.denied =>
                \/ \E f \in findings :
                    /\ f.pid = p
                    /\ f.confirmed_ioc <=>
                        machine.uptime /\ proc[p].age = "old" /\ proc[p].state = "live"
                \/ machine.hidepid /\ ~machine.deep /\ "hidepid" \in notes
                \/ Beyond(p) /\ notes \cap {"gap", "pid_max"} # {}
                \/ Cardinality(findings) = MAX_FINDINGS /\ "cap" \in notes
===============================================================================
