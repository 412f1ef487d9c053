------------------------------ MODULE ScanTasks -------------------------------
(***************************************************************************)
(* run_local_scan_async of src/runner.rs: nine tasks that scan this machine*)
(* side by side, what they share (the capped list of warnings of           *)
(* src/coverage.rs, the package memo of src/scanners/provenance.rs), and   *)
(* the report made of what they return.  A scanner is one step of its task,*)
(* its warnings are recorded one by one, and a panic ends a task anywhere. *)
(* What the scanners return is a parameter.                                *)
(***************************************************************************)
EXTENDS NamespaceScan, Provenance

CONSTANTS
    Hosts,          \* the machines to scan
    run(_, _),      \* what a scanner returns on a machine: what it found, notes, asks for
    Word,           \* the strings that warnings are made of
    MAX_ENTRIES,    \* the cap of the list of warnings
    none            \* no report, no source, no batch

VARIABLES
    host,           \* the machine
    task,           \* per task: where it is and what it has found
    memo,           \* the packages looked up so far
    sink,           \* the warnings recorded so far
    said,           \* every warning raised (history)
    runner,         \* the runner itself: where it is, what the tasks returned, what it notes
    report

vars == <<host, task, memo, sink, said, runner, report>>

(* The tasks and the scanners each one runs, in order. *)
Program == [
    host |-> <<>>, databases |-> <<>>, storage |-> <<>>, packages |-> <<>>,
    network |-> <<"network">>, docker |-> <<"docker">>, mount_namespace |-> <<"mount_namespace">>,
    security |-> <<"access", "mounts", "inventory", "hygiene", "systemd_hardening", "taint", "cpu",
                   "confinement", "kernel_modules", "ftrace", "immutable">>,
    persistence |-> <<"kernel_facts", "one_way", "preload", "exec", "ld_so_conf", "generators",
                      "pam">>]
Tasks == DOMAIN Program

(* The scanners read what does not change while they run: what each returns, per machine. *)
Scanned == [h \in Hosts |-> [s \in UNION {ToSet(Program[t]) : t \in Tasks} |-> run(h, s)]]

(* A warning is a place and what is wrong there; a container has the names of its namespaces. *)
Warning == Word \X Word
Named(found) == \A f \in found : f[1] = "containers" => f[5] \in Word /\ f[6] \in Word
ASSUME ScannersAssumption ==
    \A h \in Hosts : \A s \in DOMAIN Scanned[h] :
        Scanned[h][s].warns \subseteq Warning /\ Named(Scanned[h][s].found)
ASSUME WordAssumption ==
    Tasks \cup {"panicked", "coverage", "cap reached", "provenance", "NotFound", "PermissionDenied",
                "InvalidData", "none", "truncated", "unavailable", "no rpmdb", "no rpm",
                "queries failed", "not owned", "exec", "unverified", "shared"} \subseteq Word
ASSUME CapAssumption == MAX_ENTRIES \in Nat

Idle == [at |-> 1, phase |-> "scan", found |-> {}, pend |-> {}, ask |-> {}, batch |-> none]
Ended == {"returned", "panicked"}
scanner_of(t) == Program[t][task[t].at]

Init ==
    /\ host \in Hosts
    /\ task = [t \in Tasks |-> IF t \in host.busy THEN Idle ELSE [Idle EXCEPT !.phase = "returned"]]
    /\ memo = [source |-> none, known |-> NoOwners]
    /\ sink = <<>>
    /\ said = {}
    /\ runner = [at |-> "join", found |-> {}, failed |-> {}, pend |-> {}] /\ report = none

-------------------------------------------------------------------------------
(* coverage::record: the first warning past the cap is replaced by a marker, the rest dropped. *)
CapReached == <<"coverage", "cap reached">>
record_dropping(s, w) == IF Len(s) < MAX_ENTRIES THEN Append(s, w) ELSE s
record(s, w) ==
    IF Len(s) < MAX_ENTRIES THEN Append(s, w)
    ELSE IF Len(s) = MAX_ENTRIES THEN Append(s, CapReached) ELSE s

(* One scanner runs; a read that never returns keeps it from doing so. *)
Scan(t) ==
    /\ task[t].phase = "scan" /\ task[t].at <= Len(Program[t])
    /\ LET piece == Scanned[host][scanner_of(t)] IN
        /\ \A w \in piece.warns : w[2] # "Blocked"
        /\ task' = [task EXCEPT ![t].found = @ \cup piece.found, ![t].ask = piece.ask,
                                ![t].pend = piece.warns, ![t].phase = "record"]
    /\ UNCHANGED <<host, memo, sink, said, runner, report>>

Record(t) ==
    /\ task[t].phase \in {"record", "remember"} /\ task[t].pend # {}
    /\ LET w == CHOOSE x \in task[t].pend : TRUE IN
        /\ task' = [task EXCEPT ![t].pend = @ \ {w}]
        /\ sink' = record(sink, w)
        /\ said' = said \cup {w}
    /\ UNCHANGED <<host, memo, runner, report>>

(* The inventory asks for packages even when it found nothing, the others only then. *)
asks(t) == task[t].ask # {} \/ scanner_of(t) = "inventory"
Recorded(t) ==
    /\ task[t].phase = "record" /\ task[t].pend = {}
    /\ task' = [task EXCEPT ![t].phase = IF asks(t) THEN "lookup" ELSE "scan",
                            ![t].at = IF asks(t) THEN @ ELSE @ + 1]
    /\ UNCHANGED <<host, memo, sink, said, runner, report>>

-------------------------------------------------------------------------------
(* A map with the entries of another put in. *)
extended(map, by) ==
    [p \in DOMAIN map \cup DOMAIN by |-> IF p \in DOMAIN by THEN by[p] ELSE map[p]]

(* resolve_batch: what the memo knows is taken from it under its lock ... *)
Attributed(t, map) ==
    {<<"package", p, IF p \in DOMAIN map THEN map[p] ELSE "none">> : p \in task[t].ask}
KnownOf(known, ask) ==
    LET hit == {q \in DOMAIN known \cap ask : known[q] # "none"}
    IN [p \in hit |-> known[p]]
Resolved(t, map, source) ==
    [task EXCEPT ![t].found = @ \cup Attributed(t, map)
                              \cup Where(scanner_of(t) = "inventory",
                                         {<<"provenance_source", source>>}),
                 ![t].phase = "scan", ![t].at = @ + 1, ![t].batch = none]
LookUp(t) ==
    /\ task[t].phase = "lookup"
    /\ LET map == KnownOf(memo.known, task[t].ask)
           missing == task[t].ask \ DOMAIN memo.known
       IN IF missing = {} /\ memo.source # none
          THEN task' = Resolved(t, map, memo.source)
          ELSE task' = [task EXCEPT ![t].phase = "query",
                            ![t].batch = [map |-> map, missing |-> missing, cached |-> memo.source]]
    /\ UNCHANGED <<host, memo, sink, said, runner, report>>

(* ... the rest is asked of the package database, without it ... *)
Query(t) ==
    /\ task[t].phase = "query"
    /\ \E failing \in {{}} \cup {{p} : p \in task[t].batch.missing \cap host.slow} :
        LET fresh == resolve_batch_uncached(host, task[t].batch.missing, failing) IN
        task' = [task EXCEPT ![t].phase = "remember", ![t].pend = fresh.warns,
                             ![t].batch = [map |-> extended(@.map, fresh.map), missing |-> @.missing,
                                           cached |-> @.cached, fresh |-> fresh]]
    /\ UNCHANGED <<host, memo, sink, said, runner, report>>

(* ... its warnings are recorded, and the answers remembered, with what has no owner; one that
   could not be had is not. *)
Remember(t) ==
    LET b == task[t].batch
        unavail == b.fresh.source = "Unavailable"
        learned == [p \in b.missing |-> IF p \in DOMAIN b.fresh.map THEN b.fresh.map[p] ELSE "none"]
        source == IF ~unavail THEN b.fresh.source
                  ELSE IF b.cached = none THEN "Unavailable" ELSE b.cached
    IN  /\ task[t].phase = "remember" /\ task[t].pend = {}
        /\ memo' = IF unavail THEN memo
                   ELSE [source |-> b.fresh.source, known |-> extended(memo.known, learned)]
        /\ task' = Resolved(t, b.map, source)
        /\ UNCHANGED <<host, sink, said, runner, report>>

-------------------------------------------------------------------------------
Returns(t) ==
    /\ task[t].phase = "scan" /\ task[t].at > Len(Program[t])
    /\ task' = [task EXCEPT ![t].phase = "returned"]
    /\ UNCHANGED <<host, memo, sink, said, runner, report>>

(* What the task has found is lost with it; what it has recorded is not. *)
Panics(t) ==
    /\ t \in host.fragile /\ task[t].phase \notin Ended
    /\ task' = [task EXCEPT ![t].phase = "panicked", ![t].found = {}, ![t].pend = {},
                            ![t].batch = none]
    /\ UNCHANGED <<host, memo, sink, said, runner, report>>

(* After the join: containers are linked to namespaces, and what that shows is recorded too. *)
warn_evaluate_side_effects(found) ==
    Where(\E f \in found : f[1] = "exec_start" /\ f[6] = "Unknown", {<<"exec", "unverified">>})
Join ==
    LET found == UNION {task[t].found : t \in Tasks}
        of(list) == {f \in found : f[1] = list}
        net == link_foreign_netns_to_containers(found, of("containers"))
        mnt == link_mount_ns_to_containers(net.found, of("containers"))
        bypass == detect_firewall_bypass(of("containers"), <<"firewall_active", TRUE>> \in found)
        warns == net.warns \cup mnt.warns \cup warn_evaluate_side_effects(found)
    IN  /\ runner.at = "join" /\ \A t \in Tasks : task[t].phase \in Ended
        /\ runner' = [at |-> "linked", found |-> mnt.found \cup bypass, pend |-> warns,
                      failed |-> {t \in Tasks : task[t].phase = "panicked"}]
        /\ UNCHANGED <<host, task, memo, sink, said, report>>
RecordLinks ==
    /\ runner.pend # {}
    /\ LET w == CHOOSE x \in runner.pend : TRUE IN
        /\ runner' = [runner EXCEPT !.pend = @ \ {w}]
        /\ sink' = record(sink, w)
        /\ said' = said \cup {w}
    /\ UNCHANGED <<host, task, memo, report>>

(* coverage::drain_scoped, and the report. *)
Drain ==
    /\ runner.at = "linked" /\ runner.pend = {}
    /\ report' = [found |-> runner.found, failed_scanners |-> runner.failed,
                  coverage_warnings |-> ToSet(sink)]
    /\ sink' = <<>>
    /\ runner' = [runner EXCEPT !.at = "done"]
    /\ UNCHANGED <<host, task, memo, said>>

Step(t) == Scan(t) \/ Record(t) \/ Recorded(t) \/ LookUp(t) \/ Query(t) \/ Remember(t) \/ Returns(t)
Next == (\E t \in Tasks : Step(t) \/ Panics(t)) \/ Join \/ RecordLinks \/ Drain

Spec == Init /\ [][Next]_vars

(* The blocking pool gives every task a thread, and the runner waits for all of them. *)
FairSpec == Spec /\ WF_vars((\E t \in Tasks : Step(t)) \/ Join \/ RecordLinks \/ Drain)

-------------------------------------------------------------------------------
(* What was in the way: the warnings raised and the tasks that panicked. *)
Panicked == {<<t, "panicked">> : t \in {u \in Tasks : task[u].phase = "panicked"}}
Told == [told |-> (report.coverage_warnings \ {CapReached})
                  \cup {<<t, "panicked">> : t \in report.failed_scanners},
         more |-> CapReached \in report.coverage_warnings]
Contract == INSTANCE ScanContract WITH
    Gap <- Warning, nothing <- none,
    met <- said \cup Panicked,
    delivered <- IF runner.at = "done" THEN Told ELSE none

(* A scan keeps the promise of ScanContract: with any number of tasks recording into one capped
   list, a warning that did not fit is made up for by the marker and a panic by the name of the
   scanner (coverage::record, drain_scoped, the unwrap_or_else of run_local_scan_async). *)
ImplementsContract == Contract!Spec
===============================================================================
