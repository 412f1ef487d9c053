---------------------------- MODULE LiveScanProofs ----------------------------
(***************************************************************************)
(* Proofs about the two scanners that race the machine they look at: what  *)
(* scanners/ghost_pid.rs reports as a hidden process, and what             *)
(* scanners/kernel_modules.rs reports as a hidden module, for every        *)
(* machine, number of cycles, cap and sequence of events.                  *)
(*                                                                         *)
(* HideInv is the inductive invariant of the first: a pid that no process  *)
(* hides behind stays a survivor only by changing hands once per cycle     *)
(* (TurnInv), a process that hides throughout stays in the race (GhostInv).*)
(* ViewsInv is that of the second: what has come since the first snapshot  *)
(* is in the history (HistoryInv).                                         *)
(***************************************************************************)
EXTENDS LiveScan, FiniteSetTheorems, WellFoundedInduction, SequenceTheorems, TLAPS

Pids == 1 .. machine.pid_max
Scan == [phase : {"start", "before", "probe", "filter", "classify", "done"}, cycle : Nat,
         before : SUBSET Pids, todo : SUBSET Nat, live : SUBSET Pids, after : SUBSET Pids,
         stable : (SUBSET Pids) \cup {none}, status : Status \cup {none}]

(* The types of the machine and of what detect has seen. *)
GhostTypeOK ==
    /\ machine \in Machines
    /\ DOMAIN proc \subseteq Pids
    /\ \A p \in DOMAIN proc :
          proc[p] \in [kind : Kind, age : {"old", "young", "new"}, state : State]
    /\ started \in [Pids -> Nat]
    /\ scan \in Scan
    /\ IsFiniteSet(findings) /\ Cardinality(findings) <= MAX_FINDINGS

(* Where the scan is. *)
CycleInv ==
    /\ scan.phase = "start" => scan.stable = none
    /\ scan.phase \in {"start", "before"} /\ scan.stable = none => scan.cycle = 0
    /\ scan.phase \in {"probe", "filter"} => scan.cycle > 0
    /\ scan.phase \in {"probe", "filter"} /\ scan.stable = none => scan.cycle = 1
    /\ scan.phase = "classify" => scan.stable # none /\ scan.cycle >= PROBE_CYCLES
    /\ scan.status # none => /\ scan.phase = "classify" /\ scan.stable # {}
                             /\ Cardinality(findings) < MAX_FINDINGS

(* A process that hides is remembered. *)
HauntInv == \A p \in DOMAIN proc : proc[p].kind \in {"hidden", "buried"} => p \in haunted

(* A process that runs since before the scan, and is no more than it seems, is in the listing,
   and never among the survivors. *)
OldInv ==
    \A p \in DOMAIN proc : proc[p].age # "new" =>
        /\ scan.phase \in {"probe", "filter"} /\ proc[p].kind = "plain" => p \in scan.before
        /\ scan.stable # none /\ p \in scan.stable => p \in haunted

(* How often pid p has changed hands: the processes started under it, and the end of the last. *)
Turns(p) == started[p] + (IF p \in DOMAIN proc THEN 0 ELSE 1)

InAllCycles(p) == scan.stable = none \/ p \in scan.stable

TurnInv ==
    /\ scan.phase \in {"before", "classify"} /\ scan.stable # none =>
          \A p \in scan.stable \ haunted : Turns(p) >= scan.cycle
    /\ scan.phase \in {"probe", "filter"} /\ scan.stable # none =>
          \A p \in scan.stable \ haunted : Turns(p) >= scan.cycle - 1
    /\ scan.phase = "probe" =>
          \A p \in scan.live \ haunted :
             InAllCycles(p) => Turns(p) >= scan.cycle \/ p \in DOMAIN proc
    /\ scan.phase = "filter" =>
          \A p \in scan.live \ (scan.after \cup haunted) :
             InAllCycles(p) =>
                Turns(p) >= scan.cycle \/ (p \in DOMAIN proc /\ proc[p].kind = "thread")

Ghost(p) == /\ p \in DOMAIN proc /\ proc[p].kind = "hidden" /\ proc[p].age # "new"
            /\ p \notin machine.denied
Found(p) == \E f \in findings :
               /\ f.pid = p
               /\ f.confirmed_ioc <=>
                    machine.uptime /\ proc[p].age = "old" /\ proc[p].state = "live"
Missed(p) == Beyond(p) /\ notes \cap {"gap", "pid_max"} # {}
Full == Cardinality(findings) = MAX_FINDINGS /\ "cap" \in notes

GhostInv ==
    \A p \in DOMAIN proc : Ghost(p) =>
        /\ p \notin scan.before \cup scan.after
        /\ scan.phase = "before" => InAllCycles(p) \/ Missed(p)
        /\ scan.phase = "probe" => (InAllCycles(p) /\ p \in scan.todo \cup scan.live) \/ Missed(p)
        /\ scan.phase = "filter" => (InAllCycles(p) /\ p \in scan.live) \/ Missed(p)
        /\ scan.phase = "classify" => p \in scan.stable \/ Found(p) \/ Missed(p) \/ Full
        /\ scan.status # none /\ p = Least(scan.stable) =>
              ~scan.status.thread /\ scan.status.state = proc[p].state
        /\ scan.phase = "done" =>
              \/ Found(p) \/ Missed(p) \/ Full
              \/ machine.hidepid /\ ~machine.deep /\ "hidepid" \in notes

-------------------------------------------------------------------------------
Readings(names) == {Names(S) : S \in SUBSET names} \cup {Closed}
ViewsTypeOK ==
    /\ loaded \subseteq Modules
    /\ DOMAIN views = {"first", "sysfs", "kallsyms", "second", "piece"}
    /\ views.first \in Readings(Modules) \cup {none}
    /\ views.sysfs \in Readings(Modules \cup {rk}) \cup {none}
    /\ views.kallsyms \in Readings(Modules \cup {rk}) \cup {none}
    /\ views.second \in Readings(Modules) \cup {none}

Judged == IF views.first = Closed THEN Piece({}, {<<"modules", Closed.err>>})
          ELSE inventory_of(views.first, views.sysfs, views.kallsyms, views.second)
(* The views are taken in order, and judged when all are there. *)
OrderInv ==
    /\ views.sysfs # none => views.first \notin {none, Closed}
    /\ views.kallsyms # none => views.sysfs # none
    /\ views.second # none => views.kallsyms # none
    /\ views.piece # none => (views.first = Closed \/ views.second # none) /\ views.piece = Judged

(* What the rootkit shows. *)
RootkitInv ==
    /\ "sysfs" \in machine.rootkit_in /\ views.sysfs \notin {none, Closed} => rk \in names_in(views.sysfs)
    /\ "kallsyms" \in machine.rootkit_in /\ views.kallsyms \notin {none, Closed} =>
          rk \in names_in(views.kallsyms) \/ views.kallsyms = Names({})

Told(v) == IF v = none THEN {} ELSE names_in(v)
(* A module that came after the first snapshot was loaded, and one that is gone unloaded. *)
HistoryInv ==
    \A m \in Modules \ Told(views.first) :
        /\ views.first \notin {none, Closed} /\ m \in loaded => <<m, "loaded">> \in history
        /\ m \in Told(views.sysfs) \cup Told(views.kallsyms) =>
              /\ <<m, "loaded">> \in history
              /\ \/ views.second # none /\ m \in Told(views.second)
                 \/ views.second = Closed
                 \/ views.second = none /\ m \in loaded
                 \/ <<m, "unloaded">> \in history
-------------------------------------------------------------------------------
(* What one step of detect does to its record, field by field. *)

Fields(ph, cycle, before, todo, live, after, stable, status) ==
    /\ scan'.phase = ph /\ scan'.cycle = cycle /\ scan'.before = before /\ scan'.todo = todo
    /\ scan'.live = live /\ scan'.after = after /\ scan'.stable = stable
    /\ scan'.status = status
    /\ scan' = [phase |-> ph, cycle |-> cycle, before |-> before, todo |-> todo, live |-> live,
                after |-> after, stable |-> stable, status |-> status]

LEMMA StartFields ==
    ASSUME scan \in Scan, Start
    PROVE  Fields(IF machine.hidepid /\ ~machine.deep THEN "done" ELSE "before", scan.cycle,
                  scan.before, scan.todo, scan.live, scan.after, scan.stable, scan.status)
  BY DEF Start, Phase, Scan, Fields

LEMMA ListBeforeFields ==
    ASSUME scan \in Scan, ListBefore
    PROVE  \E used_sync \in BOOLEAN :
             LET b == pid_scan_bounds(machine) IN
             /\ Fields("probe", scan.cycle + 1, listed, to_probe(b, used_sync), {}, scan.after,
                       scan.stable, scan.status)
             /\ notes' = notes \cup (IF ~machine.pid_max_read THEN {"pid_max"}
                                     ELSE IF used_sync /\ should_report_scan_gap(b) THEN {"gap"}
                                     ELSE {})
  BY DEF ListBefore, Scan, Fields

LEMMA ProbeFields ==
    ASSUME scan \in Scan, NEW p, Probe(p)
    PROVE  Fields(scan.phase, scan.cycle, scan.before, scan.todo \ {p},
                  IF on_path(p) THEN scan.live \cup {p} ELSE scan.live, scan.after,
                  scan.stable, scan.status)
  BY DEF Probe, Scan, Fields

LEMMA ListAfterFields ==
    ASSUME scan \in Scan, ListAfter
    PROVE  Fields("filter", scan.cycle, scan.before, scan.todo, scan.live, listed,
                  scan.stable, scan.status)
  BY DEF ListAfter, Scan, Fields

Kept == IF scan.stable = none THEN Candidates ELSE scan.stable \cap Candidates

LEMMA FilterFields ==
    ASSUME scan \in Scan, Filter
    PROVE  Fields(IF Kept = {} THEN "done"
                  ELSE IF scan.cycle < PROBE_CYCLES THEN "before" ELSE "classify",
                  scan.cycle, {}, scan.todo, {}, {}, Kept, scan.status)
  BY DEF Filter, Filtered, Scan, Fields, Kept

LEMMA ReadStatusFields ==
    ASSUME scan \in Scan, ReadStatus
    PROVE  LET p == Least(scan.stable) IN
           \/ /\ Cardinality(findings) >= MAX_FINDINGS /\ notes' = notes \cup {"cap"}
              /\ Fields(scan.phase, scan.cycle, scan.before, scan.todo, scan.live, scan.after,
                        {}, scan.status)
           \/ /\ ~(Cardinality(findings) >= MAX_FINDINGS) /\ notes' = notes /\ status_denied(p)
              /\ Fields(scan.phase, scan.cycle, scan.before, scan.todo, scan.live, scan.after,
                        scan.stable \ {p}, scan.status)
           \/ /\ ~(Cardinality(findings) >= MAX_FINDINGS) /\ notes' = notes /\ ~status_denied(p)
              /\ Fields(scan.phase, scan.cycle, scan.before, scan.todo, scan.live, scan.after,
                        scan.stable, [thread |-> on_path(p) /\ proc[p].kind = "thread",
                                      state |-> IF on_path(p) THEN proc[p].state ELSE none])
  BY DEF ReadStatus, Scan, Fields

LEMMA ClassifyFields ==
    ASSUME scan \in Scan, Classify
    PROVE  Fields(scan.phase, scan.cycle, scan.before, scan.todo, scan.live, scan.after,
                  scan.stable \ {Least(scan.stable)}, none)
  BY DEF Classify, Scan, Fields

LEMMA ConcludeFields ==
    ASSUME scan \in Scan, Conclude
    PROVE  Fields("done", scan.cycle, scan.before, scan.todo, scan.live, scan.after,
                  scan.stable, scan.status)
  BY DEF Conclude, Phase, Scan, Fields

(* A set of pids that is not empty has a least one. *)
LEMMA LeastFacts ==
    ASSUME NEW S \in SUBSET Nat, S # {}
    PROVE  Least(S) \in S
<1>1. \E p \in S : \A q \in S : ~(<<q, p>> \in OpToRel(<, Nat))
  BY NatLessThanWellFounded, WFMin
<1>2. PICK p \in S : \A q \in S : ~(<<q, p>> \in OpToRel(<, Nat))
  BY <1>1
<1>3. \A q \in S : ~(q < p)
  BY <1>2 DEF OpToRel
<1>4. \A q \in S : p <= q
  BY <1>3
<1> QED BY <1>4 DEF Least

(* Every pid in range is probed, or it lies beyond the bounds and that is noted. *)
LEMMA BoundsFacts ==
    ASSUME machine \in Machines, NEW p \in Pids, NEW used_sync \in BOOLEAN
    PROVE  LET b == pid_scan_bounds(machine) IN
           \/ p \in to_probe(b, used_sync)
           \/ /\ Beyond(p)
              /\ ~machine.pid_max_read \/ (used_sync /\ should_report_scan_gap(b))
<1> DEFINE b == pid_scan_bounds(machine)
           N == IF machine.pid_max_read THEN machine.pid_max ELSE PID_MAX_FALLBACK
           U == IF machine.ns_last # none /\ machine.ns_last < N THEN machine.ns_last ELSE N
           near == U > (N * (WRAP_TAIL_FRACTION - 1)) \div WRAP_TAIL_FRACTION
<1> SUFFICES \/ p \in to_probe(b, used_sync)
             \/ /\ Beyond(p)
                /\ ~machine.pid_max_read \/ (used_sync /\ should_report_scan_gap(b))
  OBVIOUS
<1>1. /\ machine.pid_max \in Nat /\ machine.ns_last \in Nat \cup {none}
      /\ machine.pid_max_read \in BOOLEAN /\ p \in Nat /\ 1 <= p /\ p <= machine.pid_max
  BY MachinesAssumption DEF Pids
<1>2. N \in Nat /\ U \in Nat /\ U <= N
  BY <1>1, ProbeAssumption
<1>3. /\ b.upper = U /\ b.pid_max = N /\ b.wraps = (near /\ U < N)
      /\ b.tail = IF near THEN U + 1 .. N ELSE {}
  BY DEF pid_scan_bounds
<1>4. machine.pid_max_read => N = machine.pid_max
  OBVIOUS
<1> HIDE DEF b, N, U, near
<1>5. /\ to_probe(b, TRUE) = 1 .. U \cup b.tail /\ to_probe(b, FALSE) = 1 .. N
  BY <1>3 DEF to_probe
<1>6. p \notin to_probe(b, TRUE) => Beyond(p)
  BY DEF Beyond, b
<1>7. CASE machine.pid_max_read /\ used_sync
  <2>1. CASE near
    <3>1. p \in 1 .. U \/ p \in U + 1 .. N
      BY <1>1, <1>2, <1>4, <1>7
    <3>2. p \in to_probe(b, TRUE)
      BY <1>3, <1>5, <2>1, <3>1
    <3> QED BY <1>7, <3>2
  <2>2. CASE ~near /\ ~(U < N)
    <3>1. p \in 1 .. U
      BY <1>1, <1>2, <1>4, <1>7, <2>2
    <3>2. p \in to_probe(b, TRUE)
      BY <1>5, <3>1
    <3> QED BY <1>7, <3>2
  <2>3. CASE ~near /\ U < N
    <3>1. should_report_scan_gap(b)
      BY <1>3, <2>3 DEF should_report_scan_gap
    <3> QED BY <1>6, <1>7, <3>1
  <2> QED BY <2>1, <2>2, <2>3
<1>8. CASE machine.pid_max_read /\ ~used_sync
  <2>1. p \in 1 .. N
    BY <1>1, <1>2, <1>4, <1>8
  <2>2. p \in to_probe(b, FALSE)
    BY <1>5, <2>1
  <2> QED BY <1>8, <2>2
<1>9. CASE ~machine.pid_max_read
  <2>1. CASE p \in to_probe(b, TRUE)
    <3>1. to_probe(b, TRUE) \subseteq to_probe(b, FALSE)
      <4>1. 1 .. U \subseteq 1 .. N /\ U + 1 .. N \subseteq 1 .. N
        BY <1>2
      <4> QED BY <1>3, <1>5, <4>1
    <3> QED BY <2>1, <3>1
  <2>2. CASE p \notin to_probe(b, TRUE)
    BY <1>6, <1>9, <2>2
  <2> QED BY <2>1, <2>2
<1> QED BY <1>7, <1>8, <1>9

LEMMA ProbedAreNumbers ==
    ASSUME machine \in Machines, NEW used_sync \in BOOLEAN
    PROVE  to_probe(pid_scan_bounds(machine), used_sync) \subseteq Nat
<1> DEFINE N == IF machine.pid_max_read THEN machine.pid_max ELSE PID_MAX_FALLBACK
           U == IF machine.ns_last # none /\ machine.ns_last < N THEN machine.ns_last ELSE N
<1>1. N \in Nat /\ U \in Nat
  BY MachinesAssumption, ProbeAssumption
<1>2. /\ pid_scan_bounds(machine).upper = U /\ pid_scan_bounds(machine).pid_max = N
      /\ pid_scan_bounds(machine).tail \in {U + 1 .. N, {}}
  BY DEF pid_scan_bounds
<1> HIDE DEF N, U
<1>3. 1 .. U \subseteq Nat /\ 1 .. N \subseteq Nat /\ U + 1 .. N \subseteq Nat
  BY <1>1
<1> QED BY <1>2, <1>3 DEF to_probe
-------------------------------------------------------------------------------
GhostNext == Detect \/ Elsewhere

LEMMA NextIsGhost == [Next]_vars => [GhostNext]_ghostVars
  BY DEF Next, vars, GhostNext, First, Sysfs, Kallsyms, Second, Take, Reconcile, Load, Unload

LEMMA NoSetIsNone ==
    ASSUME machine \in Machines, NEW S \in SUBSET Pids
    PROVE  S # none
  BY NoneAssumption DEF Pids

(* The settings, the pids and the record of detect keep their types, and a phase is entered with
   what it needs. *)
LEMMA ScanInit ==
    ASSUME GhostInit
    PROVE  GhostTypeOK /\ CycleInv
<1>1. machine \in Machines /\ proc = machine.proc /\ findings = {} /\ scan.status = none
      /\ scan.stable = none /\ scan.phase = "start" /\ scan.cycle = 0
  BY DEF GhostInit
<1>2. DOMAIN proc \subseteq Pids
  BY <1>1, MachinesAssumption DEF Pids
<1>3. \A p \in DOMAIN proc : proc[p] \in [kind : Kind, age : {"old", "young"}, state : State]
  BY <1>1, MachinesAssumption
<1>3a. \A p \in DOMAIN proc : proc[p] \in [kind : Kind, age : {"old", "young", "new"}, state : State]
  BY <1>3
<1>4. started \in [Pids -> Nat] /\ scan \in Scan
  BY DEF GhostInit, Pids, Scan
<1>5. IsFiniteSet(findings) /\ Cardinality(findings) <= MAX_FINDINGS
  BY <1>1, FS_EmptySet, ProbeAssumption
<1> QED BY <1>1, <1>2, <1>3a, <1>4, <1>5 DEF GhostTypeOK, CycleInv

LEMMA ScanStep ==
    ASSUME GhostTypeOK, CycleInv, [GhostNext]_ghostVars
    PROVE  GhostTypeOK' /\ CycleInv'
<1> USE DEF Fields
<1>0. scan \in Scan /\ machine \in Machines /\ DOMAIN proc \subseteq Pids
      /\ IsFiniteSet(findings) /\ Cardinality(findings) <= MAX_FINDINGS
      /\ Cardinality(findings) \in Nat /\ MAX_FINDINGS \in Nat
  BY FS_CardinalityType, ProbeAssumption DEF GhostTypeOK
<1>0a. scan.before \in SUBSET Pids /\ scan.todo \in SUBSET Nat /\ scan.live \in SUBSET Pids
       /\ scan.after \in SUBSET Pids /\ scan.cycle \in Nat
       /\ scan.stable \in (SUBSET Pids) \cup {none} /\ scan.status \in Status \cup {none}
       /\ scan.phase \in {"start", "before", "probe", "filter", "classify", "done"}
  BY <1>0 DEF Scan
<1>1. ASSUME UNCHANGED ghostVars
      PROVE  GhostTypeOK' /\ CycleInv'
  BY <1>1 DEF ghostVars, GhostTypeOK, CycleInv, Pids, Scan
<1>2. ASSUME UNCHANGED <<world, findings>>, scan' \in Scan
      PROVE  GhostTypeOK'
  BY <1>2 DEF world, GhostTypeOK, Pids, Scan
<1>3. CASE Start
  <2>1. UNCHANGED <<world, findings>> /\ scan.phase = "start" /\ scan.status = none
    BY <1>3 DEF Start, CycleInv
  <2>2. scan' \in Scan
    BY <1>0, <1>0a, <1>3, StartFields DEF Scan
  <2>3. CycleInv'
    BY <1>0, <1>3, <2>1, StartFields DEF CycleInv
  <2> QED BY <1>2, <2>1, <2>2, <2>3
<1>4. CASE ListBefore
  <2>1. UNCHANGED <<world, findings>> /\ scan.phase = "before" /\ scan.status = none
    BY <1>4 DEF ListBefore, CycleInv
  <2>2. listed \in SUBSET Pids
    BY <1>0 DEF listed
  <2>3. PICK s \in BOOLEAN : Fields("probe", scan.cycle + 1, listed,
                 to_probe(pid_scan_bounds(machine), s), {}, scan.after, scan.stable, scan.status)
    BY <1>0, <1>4, ListBeforeFields
  <2>4. to_probe(pid_scan_bounds(machine), s) \in SUBSET Nat
    BY <1>0, ProbedAreNumbers
  <2>5. scan' \in Scan
    BY <1>0a, <2>2, <2>3, <2>4 DEF Scan
  <2>6. CycleInv'
    BY <1>0a, <2>1, <2>3 DEF CycleInv
  <2> QED BY <1>2, <2>1, <2>5, <2>6
<1>5. ASSUME NEW p \in scan.todo, Probe(p)
      PROVE  GhostTypeOK' /\ CycleInv'
  <2>1. UNCHANGED <<world, findings>> /\ scan.phase = "probe" /\ scan.status = none
    BY <1>5 DEF Probe, CycleInv
  <2>2. on_path(p) => p \in Pids
    BY <1>0 DEF on_path
  <2>2a. (IF on_path(p) THEN scan.live \cup {p} ELSE scan.live) \in SUBSET Pids
         /\ scan.todo \ {p} \in SUBSET Nat
    BY <1>0a, <2>2
  <2>2b. Fields(scan.phase, scan.cycle, scan.before, scan.todo \ {p},
                IF on_path(p) THEN scan.live \cup {p} ELSE scan.live, scan.after,
                scan.stable, scan.status)
    BY <1>0, <1>5, ProbeFields
  <2>3. scan' \in Scan
    BY <1>0a, <2>2a, <2>2b DEF Scan
  <2>4. CycleInv'
    BY <1>0, <1>5, <2>1, ProbeFields DEF CycleInv
  <2> QED BY <1>2, <2>1, <2>3, <2>4
<1>6. CASE ListAfter
  <2>1. UNCHANGED <<world, findings>> /\ scan.phase = "probe" /\ scan.status = none
    BY <1>6 DEF ListAfter, CycleInv
  <2>2. listed \in SUBSET Pids
    BY <1>0 DEF listed
  <2>3. scan' \in Scan
    BY <1>0, <1>0a, <1>6, <2>2, ListAfterFields DEF Scan
  <2>4. CycleInv'
    BY <1>0, <1>6, <2>1, ListAfterFields DEF CycleInv
  <2> QED BY <1>2, <2>1, <2>3, <2>4
<1>7. CASE Filter
  <2>1. UNCHANGED <<world, findings>> /\ scan.phase = "filter" /\ scan.status = none /\ scan.cycle > 0
    BY <1>7 DEF Filter, CycleInv
  <2>2. Kept \in SUBSET Pids
    BY <1>0a DEF Kept, Candidates, candidate_diff
  <2>3. Kept # none
    BY <1>0, <2>2, NoSetIsNone
  <2>4. scan' \in Scan
    BY <1>0, <1>0a, <1>7, <2>2, FilterFields DEF Scan
  <2>5. CycleInv'
    BY <1>0, <1>0a, <1>7, <2>1, <2>3, FilterFields, ProbeAssumption DEF CycleInv
  <2> QED BY <1>2, <2>1, <2>4, <2>5
<1>8. CASE ReadStatus
  <2> DEFINE p == Least(scan.stable)
  <2>1. /\ UNCHANGED <<world, findings>> /\ scan.phase = "classify" /\ scan.status = none
        /\ scan.stable # {} /\ scan.stable # none
    BY <1>8 DEF ReadStatus, CycleInv
  <2>2. {} # none /\ scan.stable \ {p} # none /\ scan.stable \ {p} \in SUBSET Pids
    BY <1>0, <1>0a, <2>1, NoSetIsNone
  <2>3. on_path(p) => proc[p].state \in State
    BY DEF on_path, GhostTypeOK
  <2>4. [thread |-> on_path(p) /\ proc[p].kind = "thread",
         state |-> IF on_path(p) THEN proc[p].state ELSE none] \in Status
    <3>1. (on_path(p) /\ proc[p].kind = "thread") \in BOOLEAN
      BY DEF on_path
    <3> QED BY <2>3, <3>1 DEF Status
  <2> HIDE DEF p
  <2>5. scan' \in Scan /\ CycleInv'
    <3>1. CASE /\ Cardinality(findings) >= MAX_FINDINGS
               /\ Fields(scan.phase, scan.cycle, scan.before, scan.todo, scan.live, scan.after,
                         {}, scan.status)
      BY <1>0a, <2>1, <2>2, <3>1 DEF Scan, CycleInv
    <3>2. CASE Fields(scan.phase, scan.cycle, scan.before, scan.todo, scan.live, scan.after,
                      scan.stable \ {p}, scan.status)
      BY <1>0a, <2>1, <2>2, <3>2 DEF Scan, CycleInv
    <3>3. CASE /\ ~(Cardinality(findings) >= MAX_FINDINGS)
               /\ Fields(scan.phase, scan.cycle, scan.before, scan.todo, scan.live, scan.after,
                        scan.stable, [thread |-> on_path(p) /\ proc[p].kind = "thread",
                                      state |-> IF on_path(p) THEN proc[p].state ELSE none])
      <4>1. scan' \in Scan
        BY <1>0a, <2>4, <3>3 DEF Scan
      <4>2. Cardinality(findings) < MAX_FINDINGS
        BY <1>0, <3>3
      <4>3. CycleInv'
        BY <1>0, <1>0a, <2>1, <3>3, <4>2 DEF CycleInv
      <4> QED BY <4>1, <4>3
    <3> QED BY <1>0, <1>8, <3>1, <3>2, <3>3, ReadStatusFields DEF p
  <2> QED BY <1>2, <2>1, <2>5
<1>9. CASE Classify
  <2> DEFINE p == Least(scan.stable)
  <2>1. /\ UNCHANGED world /\ scan.phase = "classify" /\ scan.status # none
        /\ scan.stable # none /\ findings' = findings \cup classify(p, scan.status)
        /\ Cardinality(findings) < MAX_FINDINGS
    BY <1>9 DEF Classify, CycleInv
  <2>2. scan.stable \ {p} # none /\ scan.stable \ {p} \in SUBSET Pids
    BY <1>0, <1>0a, <2>1, NoSetIsNone
  <2>3. scan' \in Scan /\ CycleInv'
    BY <1>0, <1>0a, <1>9, <2>1, <2>2, ClassifyFields DEF Scan, CycleInv
  <2>4. classify(p, scan.status) = {} \/ \E f : classify(p, scan.status) = {f}
    BY DEF classify
  <2> HIDE DEF p
  <2>5. IsFiniteSet(findings') /\ Cardinality(findings') <= MAX_FINDINGS
    <3>1. CASE classify(p, scan.status) = {}
      BY <1>0, <2>1, <3>1
    <3>2. CASE \E f : classify(p, scan.status) = {f}
      <4>1. PICK f : findings' = findings \cup {f}
        BY <2>1, <3>2
      <4>2. /\ IsFiniteSet(findings \cup {f})
            /\ Cardinality(findings \cup {f}) \in {Cardinality(findings), Cardinality(findings) + 1}
        BY <1>0, FS_AddElement
      <4>3. Cardinality(findings \cup {f}) <= MAX_FINDINGS
        BY <1>0, <2>1, <4>2
      <4> QED BY <4>1, <4>2, <4>3
    <3> QED BY <2>4, <3>1, <3>2
  <2> QED BY <2>1, <2>3, <2>5 DEF world, GhostTypeOK, Pids, Scan
<1>10. CASE Conclude
  <2>1. /\ UNCHANGED <<world, findings>> /\ scan.phase = "classify" /\ scan.stable = {}
        /\ scan.status = none
    BY <1>10 DEF Conclude, CycleInv
  <2>2. scan' \in Scan
    BY <1>0, <1>0a, <1>10, ConcludeFields DEF Scan
  <2>3. CycleInv'
    BY <1>0, <1>0a, <1>10, <2>1, ConcludeFields DEF CycleInv
  <2> QED BY <1>2, <2>1, <2>2, <2>3
<1>11. ASSUME NEW p \in machine.movers, Exit(p)
       PROVE  GhostTypeOK' /\ CycleInv'
  BY <1>11 DEF Exit, GhostTypeOK, CycleInv, Pids, Scan
<1>12. ASSUME NEW p \in machine.movers, NEW kind \in Kinds, Spawn(p, kind)
       PROVE  GhostTypeOK' /\ CycleInv'
  <2>1. /\ UNCHANGED <<machine, scan, findings>>
        /\ DOMAIN proc' = DOMAIN proc \cup {p}
        /\ \A q \in DOMAIN proc' : proc'[q] = IF q = p THEN Process(kind, "new", "live") ELSE proc[q]
        /\ started' = [started EXCEPT ![p] = @ + 1]
    BY <1>12 DEF Spawn
  <2>2. p \in Pids /\ kind \in Kind
    BY <1>0, MachinesAssumption, ProbeAssumption DEF Pids
  <2>3. Process(kind, "new", "live") \in [kind : Kind, age : {"old", "young", "new"}, state : State]
    BY <2>2 DEF Process, State
  <2>4. \A q \in DOMAIN proc' :
          proc'[q] \in [kind : Kind, age : {"old", "young", "new"}, state : State]
    BY <2>1, <2>3 DEF GhostTypeOK
  <2>5. started' \in [Pids -> Nat]
    BY <2>1, <2>2 DEF GhostTypeOK
  <2>6. CycleInv'
    BY <2>1 DEF CycleInv
  <2> QED BY <1>0, <2>1, <2>2, <2>4, <2>5, <2>6 DEF GhostTypeOK, Pids, Scan
<1> QED BY <1>1, <1>3, <1>4, <1>5, <1>6, <1>7, <1>8, <1>9, <1>10, <1>11, <1>12
        DEF GhostNext, Detect, Elsewhere
-------------------------------------------------------------------------------
(* What each step leaves as it was, and how the pids change hands in the others. *)
LEMMA Quiet ==
    ASSUME GhostTypeOK, CycleInv
    PROVE  /\ Start => UNCHANGED <<world, findings>>
           /\ ListBefore => UNCHANGED <<world, findings>>
           /\ ListAfter => UNCHANGED <<world, findings>>
           /\ Filter => UNCHANGED <<world, findings>>
           /\ ReadStatus => UNCHANGED <<world, findings>>
           /\ Classify => UNCHANGED world
           /\ Conclude => UNCHANGED <<world, findings>>
           /\ \A p : Probe(p) => UNCHANGED <<world, findings>>
  BY DEF Start, ListBefore, ListAfter, Filter, ReadStatus, Classify, Conclude, Probe

LEMMA ExitFacts ==
    ASSUME GhostTypeOK, NEW p \in machine.movers, Exit(p)
    PROVE  /\ UNCHANGED <<machine, started, haunted, scan, notes, findings>>
           /\ scan.phase # "done" /\ p \in DOMAIN proc /\ DOMAIN proc' = DOMAIN proc \ {p}
           /\ \A q \in DOMAIN proc' : proc'[q] = proc[q]
  BY DEF Exit

LEMMA SpawnFacts ==
    ASSUME GhostTypeOK, NEW p \in machine.movers, NEW kind \in Kinds, Spawn(p, kind)
    PROVE  /\ UNCHANGED <<machine, scan, notes, findings>> /\ scan.phase # "done"
           /\ p \in Pids /\ p \notin DOMAIN proc /\ DOMAIN proc' = DOMAIN proc \cup {p}
           /\ \A q \in DOMAIN proc : q # p /\ proc'[q] = proc[q]
           /\ proc'[p].kind = kind /\ proc'[p].age = "new" /\ proc'[p].state = "live"
           /\ \A q \in Pids : started'[q] = IF q = p THEN started[q] + 1 ELSE started[q]
           /\ haunted \subseteq haunted' /\ (kind \in {"hidden", "buried"} => p \in haunted')
<1>1. p \in Pids
  BY MachinesAssumption DEF Pids, GhostTypeOK
<1>2. \A q \in DOMAIN proc' : proc'[q] = IF q = p THEN Process(kind, "new", "live") ELSE proc[q]
  BY DEF Spawn
<1>3. /\ UNCHANGED <<machine, scan, notes, findings>> /\ scan.phase # "done"
      /\ p \notin DOMAIN proc /\ DOMAIN proc' = DOMAIN proc \cup {p}
  BY DEF Spawn
<1>4. \A q \in Pids : started'[q] = IF q = p THEN started[q] + 1 ELSE started[q]
  BY <1>1 DEF Spawn, GhostTypeOK
<1>5. haunted \subseteq haunted' /\ (kind \in {"hidden", "buried"} => p \in haunted')
  BY DEF Spawn
<1>6. proc'[p].kind = kind /\ proc'[p].age = "new" /\ proc'[p].state = "live"
  BY <1>2, <1>3 DEF Process
<1> QED BY <1>1, <1>2, <1>3, <1>4, <1>5, <1>6

LEMMA HauntStep ==
    ASSUME GhostTypeOK, CycleInv, HauntInv, [GhostNext]_ghostVars
    PROVE  HauntInv' /\ haunted \subseteq haunted'
<1>1. CASE UNCHANGED world
  BY <1>1 DEF world, HauntInv
<1>2. ASSUME NEW p \in machine.movers, Exit(p)
      PROVE  HauntInv' /\ haunted \subseteq haunted'
  BY <1>2, ExitFacts DEF HauntInv
<1>3. ASSUME NEW p \in machine.movers, NEW kind \in Kinds, Spawn(p, kind)
      PROVE  HauntInv' /\ haunted \subseteq haunted'
  BY <1>3, SpawnFacts DEF HauntInv
<1>4. UNCHANGED ghostVars => UNCHANGED world
  BY DEF ghostVars, world
<1> QED BY <1>1, <1>2, <1>3, <1>4, Quiet DEF GhostNext, Detect, Elsewhere

LEMMA OldStep ==
    ASSUME GhostTypeOK, CycleInv, HauntInv, OldInv, [GhostNext]_ghostVars
    PROVE  OldInv'
<1> USE DEF Fields
<1>0. scan \in Scan /\ scan.stable \in (SUBSET Pids) \cup {none}
  BY DEF GhostTypeOK, Scan
<1>1. CASE UNCHANGED ghostVars
  BY <1>1 DEF ghostVars, OldInv
<1>2. CASE Start
  BY <1>0, <1>2, StartFields, Quiet DEF Start, world, OldInv, CycleInv
<1>3. CASE ListBefore
  <2>1. scan'.before = listed /\ scan'.stable = scan.stable
    BY <1>0, <1>3, ListBeforeFields
  <2> QED BY <1>3, <2>1, Quiet DEF ListBefore, world, OldInv, listed
<1>4. ASSUME NEW p, Probe(p)
      PROVE  OldInv'
  BY <1>0, <1>4, ProbeFields, Quiet DEF Probe, world, OldInv
<1>5. CASE ListAfter
  BY <1>0, <1>5, ListAfterFields, Quiet DEF ListAfter, world, OldInv
<1>6. CASE Filter
  <2>1. scan'.stable = Kept /\ scan'.phase \notin {"probe", "filter"} /\ UNCHANGED world
        /\ scan.phase = "filter"
    BY <1>0, <1>6, FilterFields, Quiet DEF Filter
  <2>2. ASSUME NEW p \in DOMAIN proc, proc[p].age # "new", p \in Kept
        PROVE  p \in haunted
    <3>1. p \notin scan.before /\ ~is_thread(p)
      BY <2>2 DEF Kept, Candidates, candidate_diff
    <3>2. proc[p].kind # "plain" /\ proc[p].kind # "thread"
      BY <2>1, <2>2, <3>1 DEF OldInv, is_thread, on_path
    <3>3. proc[p].kind \in Kind
      BY DEF GhostTypeOK
    <3> QED BY <3>2, <3>3 DEF HauntInv, Kind
  <2> QED BY <2>1, <2>2 DEF OldInv, world
<1>7. ASSUME scan.stable # none, scan'.stable \subseteq scan.stable, UNCHANGED world,
             scan'.phase \notin {"probe", "filter"}
      PROVE  OldInv'
  BY <1>7 DEF OldInv, world
<1>8. CASE ReadStatus
  <2>1. scan.stable # none /\ scan.phase = "classify"
    BY <1>8 DEF ReadStatus, CycleInv
  <2>2. scan'.stable \subseteq scan.stable /\ scan'.phase = scan.phase
    BY <1>0, <1>8, ReadStatusFields
  <2> QED BY <1>7, <1>8, <2>1, <2>2, Quiet
<1>9. CASE Classify
  <2>1. scan.stable # none /\ scan.phase = "classify"
    BY <1>9 DEF Classify, CycleInv
  <2>2. scan'.stable \subseteq scan.stable /\ scan'.phase = scan.phase
    BY <1>0, <1>9, ClassifyFields
  <2> QED BY <1>7, <1>9, <2>1, <2>2, Quiet
<1>10. CASE Conclude
  <2>1. scan.stable # none
    BY <1>10 DEF Conclude, CycleInv
  <2>2. scan'.stable = scan.stable /\ scan'.phase = "done"
    BY <1>0, <1>10, ConcludeFields
  <2> QED BY <1>7, <1>10, <2>1, <2>2, Quiet
<1>11. ASSUME NEW p \in machine.movers, Exit(p)
       PROVE  OldInv'
  BY <1>11, ExitFacts DEF OldInv
<1>12. ASSUME NEW p \in machine.movers, NEW kind \in Kinds, Spawn(p, kind)
       PROVE  OldInv'
  <2>1. /\ scan' = scan /\ haunted \subseteq haunted' /\ DOMAIN proc' = DOMAIN proc \cup {p}
        /\ proc'[p].age = "new" /\ \A q \in DOMAIN proc : proc'[q] = proc[q]
    BY <1>12, SpawnFacts
  <2> QED BY <2>1 DEF OldInv
<1> QED BY <1>1, <1>2, <1>3, <1>4, <1>5, <1>6, <1>8, <1>9, <1>10, <1>11, <1>12
        DEF GhostNext, Detect, Elsewhere
-------------------------------------------------------------------------------
(* A pid changes hands when its process ends; a start only fills it again. *)
LEMMA TurnsFacts ==
    ASSUME GhostTypeOK
    PROVE  /\ \A q \in Pids : Turns(q) \in Nat
           /\ UNCHANGED world => Pids' = Pids /\ \A q \in Pids : Turns(q)' = Turns(q)
           /\ \A p \in machine.movers : Exit(p) =>
                 Pids' = Pids /\ \A q \in Pids : Turns(q)' = IF q = p THEN Turns(q) + 1 ELSE Turns(q)
           /\ \A p \in machine.movers, kind \in Kinds : Spawn(p, kind) =>
                 Pids' = Pids /\ \A q \in Pids : Turns(q)' = Turns(q)
<1>0. \A q \in Pids : started[q] \in Nat
  BY DEF GhostTypeOK
<1>1. \A q \in Pids : Turns(q) \in Nat
  BY <1>0 DEF Turns
<1>2. UNCHANGED world => Pids' = Pids /\ \A q \in Pids : Turns(q)' = Turns(q)
  BY DEF world, Pids, Turns
<1>3. ASSUME NEW p \in machine.movers, Exit(p)
      PROVE  Pids' = Pids /\ \A q \in Pids : Turns(q)' = IF q = p THEN Turns(q) + 1 ELSE Turns(q)
  <2>1. machine' = machine /\ started' = started /\ p \in DOMAIN proc /\ DOMAIN proc' = DOMAIN proc \ {p}
    BY <1>3, ExitFacts
  <2> QED BY <1>0, <2>1 DEF Turns, Pids
<1>4. ASSUME NEW p \in machine.movers, NEW kind \in Kinds, Spawn(p, kind)
      PROVE  Pids' = Pids /\ \A q \in Pids : Turns(q)' = Turns(q)
  <2>1. /\ machine' = machine /\ p \notin DOMAIN proc /\ DOMAIN proc' = DOMAIN proc \cup {p}
        /\ \A q \in Pids : started'[q] = IF q = p THEN started[q] + 1 ELSE started[q]
    BY <1>4, SpawnFacts
  <2> QED BY <1>0, <2>1 DEF Turns, Pids
<1> QED BY <1>1, <1>2, <1>3, <1>4

LEMMA TurnStep ==
    ASSUME GhostTypeOK, CycleInv, HauntInv, TurnInv, [GhostNext]_ghostVars
    PROVE  TurnInv'
<1> USE DEF Fields
<1>0. /\ scan \in Scan /\ scan.stable \in (SUBSET Pids) \cup {none} /\ scan.live \in SUBSET Pids
      /\ scan.cycle \in Nat
  BY DEF GhostTypeOK, Scan
<1>0a. haunted \subseteq haunted' /\ \A q \in Pids : Turns(q) \in Nat
  BY HauntStep, TurnsFacts
<1> DEFINE Still == UNCHANGED world /\ \A q \in Pids : Turns(q)' = Turns(q)
<1>0b. UNCHANGED world => Still
  BY TurnsFacts
<1> HIDE DEF Still
<1>0c. Still => haunted' = haunted /\ proc' = proc
  BY DEF Still, world
<1>0d. Still => \A q \in Pids : Turns(q)' = Turns(q)
  BY DEF Still
<1>1. CASE UNCHANGED ghostVars
  BY <1>1 DEF ghostVars, TurnInv, Turns, InAllCycles
<1>2. CASE Start
  BY <1>0, <1>2, StartFields DEF Start, CycleInv, TurnInv
<1>3. CASE ListBefore
  <2>1. Still
    BY <1>0b, <1>3, Quiet
  <2>2. /\ scan.phase = "before" /\ scan'.phase = "probe" /\ scan'.cycle = scan.cycle + 1
        /\ scan'.live = {} /\ scan'.stable = scan.stable
    BY <1>0, <1>3, ListBeforeFields DEF ListBefore
  <2>3. scan.stable # none => \A p \in scan.stable \ haunted : Turns(p)' >= (scan.cycle + 1) - 1
    BY <1>0, <1>0a, <1>0d, <2>1, <2>2 DEF TurnInv
  <2> QED BY <1>0c, <2>1, <2>2, <2>3 DEF TurnInv
<1>4. ASSUME NEW p, Probe(p)
      PROVE  TurnInv'
  <2>1. Still
    BY <1>0b, <1>4, Quiet
  <2>2. /\ scan.phase = "probe" /\ scan'.phase = "probe" /\ scan'.cycle = scan.cycle
        /\ scan'.stable = scan.stable
        /\ scan'.live = IF on_path(p) THEN scan.live \cup {p} ELSE scan.live
    BY <1>0, <1>4, ProbeFields DEF Probe
  <2>3. on_path(p) => p \in DOMAIN proc
    BY DEF on_path
  <2>4. scan.stable # none => \A q \in scan.stable \ haunted : Turns(q)' >= scan.cycle - 1
    BY <1>0, <1>0d, <2>1, <2>2 DEF TurnInv
  <2>5. ASSUME NEW q \in scan'.live \ haunted, InAllCycles(q)'
        PROVE  Turns(q)' >= scan.cycle \/ q \in DOMAIN proc
    <3>1. InAllCycles(q)
      BY <2>2, <2>5 DEF InAllCycles
    <3>2. CASE q \in scan.live
      BY <1>0, <1>0d, <2>1, <2>2, <2>5, <3>1, <3>2 DEF TurnInv
    <3>3. CASE q \notin scan.live
      BY <2>2, <2>3, <2>5, <3>3
    <3> QED BY <3>2, <3>3
  <2> QED BY <1>0c, <2>1, <2>2, <2>4, <2>5 DEF TurnInv
<1>5. CASE ListAfter
  <2>1. Still
    BY <1>0b, <1>5, Quiet
  <2>2. /\ scan.phase = "probe" /\ scan'.phase = "filter" /\ scan'.cycle = scan.cycle
        /\ scan'.stable = scan.stable /\ scan'.live = scan.live /\ scan'.after = listed
    BY <1>0, <1>5, ListAfterFields DEF ListAfter
  <2>3. scan.stable # none => \A q \in scan.stable \ haunted : Turns(q)' >= scan.cycle - 1
    BY <1>0, <1>0d, <2>1, <2>2 DEF TurnInv
  <2>4. ASSUME NEW q \in scan.live \ (listed \cup haunted), InAllCycles(q)'
        PROVE  Turns(q)' >= scan.cycle \/ (q \in DOMAIN proc /\ proc[q].kind = "thread")
    <3>1. InAllCycles(q)
      BY <2>2, <2>4 DEF InAllCycles
    <3>2. Turns(q) >= scan.cycle \/ q \in DOMAIN proc
      BY <2>2, <2>4, <3>1 DEF TurnInv
    <3>3. q \in DOMAIN proc => proc[q].kind \in Kind /\ proc[q].kind # "plain"
      BY <2>4 DEF GhostTypeOK, listed
    <3>4. q \in DOMAIN proc => proc[q].kind = "thread"
      BY <2>4, <3>3 DEF HauntInv, Kind
    <3> QED BY <1>0, <1>0d, <2>1, <2>4, <3>2, <3>4
  <2> QED BY <1>0c, <2>1, <2>2, <2>3, <2>4 DEF TurnInv
<1>6. CASE Filter
  <2>1. Still
    BY <1>0b, <1>6, Quiet
  <2>2. /\ scan.phase = "filter" /\ scan'.phase \in {"done", "before", "classify"}
        /\ scan'.cycle = scan.cycle /\ scan'.stable = Kept
    BY <1>0, <1>6, FilterFields DEF Filter
  <2>3. ASSUME NEW q \in Kept \ haunted
        PROVE  Turns(q)' >= scan.cycle
    <3>1. q \in scan.live \ (scan.after \cup haunted) /\ ~is_thread(q) /\ InAllCycles(q)
      BY <2>3 DEF Kept, Candidates, candidate_diff, InAllCycles
    <3>2. ~(q \in DOMAIN proc /\ proc[q].kind = "thread")
      BY <3>1 DEF is_thread, on_path
    <3>3. Turns(q) >= scan.cycle
      BY <2>2, <3>1, <3>2 DEF TurnInv
    <3> QED BY <1>0, <1>0d, <2>1, <3>1, <3>3
  <2> QED BY <1>0c, <2>1, <2>2, <2>3 DEF TurnInv
<1>7. ASSUME scan.stable # none, scan'.stable \subseteq scan.stable, UNCHANGED world,
             scan.phase = "classify", scan'.phase \in {"classify", "done"}, scan'.cycle = scan.cycle
      PROVE  TurnInv'
  <2>1. Still
    BY <1>0b, <1>7
  <2>2. \A q \in scan.stable \ haunted : Turns(q)' >= scan.cycle
    BY <1>0, <1>0d, <1>7, <2>1 DEF TurnInv
  <2> QED BY <1>0c, <1>7, <2>1, <2>2 DEF TurnInv
<1>8. CASE ReadStatus
  <2>1. scan.stable # none /\ scan.phase = "classify"
    BY <1>8 DEF ReadStatus, CycleInv
  <2>2. scan'.stable \subseteq scan.stable /\ scan'.phase = scan.phase /\ scan'.cycle = scan.cycle
    BY <1>0, <1>8, ReadStatusFields
  <2> QED BY <1>7, <1>8, <2>1, <2>2, Quiet
<1>9. CASE Classify
  <2>1. scan.stable # none /\ scan.phase = "classify"
    BY <1>9 DEF Classify, CycleInv
  <2>2. scan'.stable \subseteq scan.stable /\ scan'.phase = scan.phase /\ scan'.cycle = scan.cycle
    BY <1>0, <1>9, ClassifyFields
  <2> QED BY <1>7, <1>9, <2>1, <2>2, Quiet
<1>10. CASE Conclude
  <2>1. scan.stable # none /\ scan.phase = "classify"
    BY <1>10 DEF Conclude, CycleInv
  <2>2. scan'.stable = scan.stable /\ scan'.phase = "done" /\ scan'.cycle = scan.cycle
    BY <1>0, <1>10, ConcludeFields
  <2> QED BY <1>7, <1>10, <2>1, <2>2, Quiet
<1>11. ASSUME NEW p \in machine.movers, Exit(p)
       PROVE  TurnInv'
  <2>1. /\ scan' = scan /\ haunted' = haunted /\ DOMAIN proc' = DOMAIN proc \ {p}
        /\ \A q \in DOMAIN proc' : proc'[q] = proc[q]
    BY <1>11, ExitFacts
  <2>2. \A q \in Pids : Turns(q)' = IF q = p THEN Turns(q) + 1 ELSE Turns(q)
    BY <1>11, TurnsFacts
  <2>3. \A q \in Pids : Turns(q)' >= Turns(q)
    BY <1>0a, <2>2
  <2>4. scan.phase \in {"before", "classify"} /\ scan.stable # none =>
          \A q \in scan.stable \ haunted : Turns(q)' >= scan.cycle
    BY <1>0, <1>0a, <2>2 DEF TurnInv
  <2>5. scan.phase \in {"probe", "filter"} /\ scan.stable # none =>
          \A q \in scan.stable \ haunted : Turns(q)' >= scan.cycle - 1
    BY <1>0, <1>0a, <2>2 DEF TurnInv
  <2>6. ASSUME NEW q \in scan.live \ haunted, InAllCycles(q), scan.phase \in {"probe", "filter"}, q = p
        PROVE  Turns(q)' >= scan.cycle
    <3>1. Turns(q) \in Nat /\ Turns(q)' = Turns(q) + 1
      BY <1>0, <1>0a, <2>2, <2>6
    <3>2. CASE scan.stable = none
      BY <1>0, <2>6, <3>1, <3>2 DEF CycleInv
    <3>3. CASE scan.stable # none
      <4>1. Turns(q) >= scan.cycle - 1
        BY <2>6, <3>3 DEF TurnInv, InAllCycles
      <4> QED BY <1>0, <3>1, <4>1
    <3> QED BY <3>2, <3>3
  <2>7. scan.phase = "probe" =>
          \A q \in scan.live \ haunted :
             InAllCycles(q) => Turns(q)' >= scan.cycle \/ q \in DOMAIN proc'
    BY <1>0, <1>0a, <2>1, <2>2, <2>6 DEF TurnInv
  <2>8. scan.phase = "filter" =>
          \A q \in scan.live \ (scan.after \cup haunted) :
             InAllCycles(q) =>
                Turns(q)' >= scan.cycle \/ (q \in DOMAIN proc' /\ proc'[q].kind = "thread")
    BY <1>0, <1>0a, <2>1, <2>2, <2>6 DEF TurnInv
  <2> QED BY <2>1, <2>4, <2>5, <2>7, <2>8 DEF TurnInv, InAllCycles
<1>12. ASSUME NEW p \in machine.movers, NEW kind \in Kinds, Spawn(p, kind)
       PROVE  TurnInv'
  <2>1. /\ scan' = scan /\ DOMAIN proc' = DOMAIN proc \cup {p}
        /\ \A q \in DOMAIN proc : proc'[q] = proc[q]
    BY <1>12, SpawnFacts
  <2>2. \A q \in Pids : Turns(q)' = Turns(q)
    BY <1>12, TurnsFacts
  <2>3. /\ scan.phase \in {"before", "classify"} /\ scan.stable # none =>
              \A q \in scan.stable \ haunted' : Turns(q)' >= scan.cycle
        /\ scan.phase \in {"probe", "filter"} /\ scan.stable # none =>
              \A q \in scan.stable \ haunted' : Turns(q)' >= scan.cycle - 1
    BY <1>0, <1>0a, <2>2 DEF TurnInv
  <2>4. scan.phase = "probe" =>
          \A q \in scan.live \ haunted' :
             InAllCycles(q) => Turns(q)' >= scan.cycle \/ q \in DOMAIN proc'
    BY <1>0, <1>0a, <2>1, <2>2 DEF TurnInv
  <2>5. scan.phase = "filter" =>
          \A q \in scan.live \ (scan.after \cup haunted') :
             InAllCycles(q) =>
                Turns(q)' >= scan.cycle \/ (q \in DOMAIN proc' /\ proc'[q].kind = "thread")
    BY <1>0, <1>0a, <2>1, <2>2 DEF TurnInv
  <2> QED BY <2>1, <2>3, <2>4, <2>5 DEF TurnInv, InAllCycles
<1> QED BY <1>1, <1>2, <1>3, <1>4, <1>5, <1>6, <1>8, <1>9, <1>10, <1>11, <1>12
        DEF GhostNext, Detect, Elsewhere

(* What has been reported. *)
ReportInv ==
    \A f \in findings :
        /\ f.pid \in Pids
        /\ f.confirmed_ioc => f.pid \in haunted
        /\ f.pid \notin haunted => started[f.pid] >= PROBE_CYCLES

LEMMA ReportStep ==
    ASSUME GhostTypeOK, CycleInv, HauntInv, OldInv, TurnInv, ReportInv, [GhostNext]_ghostVars
    PROVE  ReportInv'
<1>1. CASE UNCHANGED <<world, findings>>
  BY <1>1 DEF ReportInv, world, Pids
<1>2. CASE Classify
  <2> DEFINE p == Least(scan.stable)
  <2>1. UNCHANGED world /\ findings' = findings \cup classify(p, scan.status)
    BY <1>2 DEF Classify
  <2>2. /\ scan.stable \in SUBSET Pids /\ scan.stable # none /\ scan.stable # {}
        /\ scan.phase = "classify" /\ scan.cycle >= PROBE_CYCLES
    BY <1>2 DEF Classify, CycleInv, GhostTypeOK, Scan
  <2>3. p \in scan.stable
    BY <2>2, LeastFacts DEF Pids
  <2> HIDE DEF p
  <2>4. ASSUME NEW f \in classify(p, scan.status)
        PROVE  /\ f.pid \in Pids
               /\ f.confirmed_ioc => f.pid \in haunted
               /\ f.pid \notin haunted => started[f.pid] >= PROBE_CYCLES
    <3>1. p \in DOMAIN proc /\ f.pid = p /\ (f.confirmed_ioc => age_secs(p) = "old")
      <4>1. p \in DOMAIN proc /\ \E st, via : f = [pid |-> p, confirmed_ioc |-> confirmed_ioc(st, age_secs(p)), via |-> via]
        BY <2>4 DEF classify
      <4>2. PICK st, via : f = [pid |-> p, confirmed_ioc |-> confirmed_ioc(st, age_secs(p)), via |-> via]
        BY <4>1
      <4>3. f.pid = p /\ f.confirmed_ioc = confirmed_ioc(st, age_secs(p))
        BY <4>2
      <4> QED BY <4>1, <4>3 DEF confirmed_ioc
    <3>2. f.confirmed_ioc => p \in haunted
      BY <2>2, <2>3, <3>1, NoneAssumption DEF age_secs, OldInv
    <3>3. ASSUME p \notin haunted
          PROVE  started[p] >= PROBE_CYCLES
      <4>1. Turns(p) >= scan.cycle
        BY <2>2, <2>3, <3>3 DEF TurnInv
      <4>2. Turns(p) = started[p] /\ started[p] \in Nat /\ scan.cycle \in Nat
        BY <2>2, <2>3, <3>1 DEF Turns, GhostTypeOK, Scan
      <4> QED BY <2>2, <4>1, <4>2, ProbeAssumption
    <3> QED BY <2>2, <2>3, <3>1, <3>2, <3>3
  <2> QED BY <2>1, <2>4 DEF ReportInv, world, Pids
<1>3. ASSUME NEW p \in machine.movers, Exit(p)
      PROVE  ReportInv'
  BY <1>3, ExitFacts DEF ReportInv, Pids
<1>4. ASSUME NEW p \in machine.movers, NEW kind \in Kinds, Spawn(p, kind)
      PROVE  ReportInv'
  <2>1. \A q \in Pids : started[q] \in Nat /\ started'[q] \in {started[q], started[q] + 1}
    BY <1>4, SpawnFacts DEF GhostTypeOK
  <2>2. machine' = machine /\ findings' = findings /\ haunted \subseteq haunted'
    BY <1>4, SpawnFacts
  <2>3. \A q \in Pids : started[q] >= PROBE_CYCLES => started'[q] >= PROBE_CYCLES
    BY <2>1, ProbeAssumption
  <2> QED BY <2>2, <2>3 DEF ReportInv, Pids
<1>5. UNCHANGED ghostVars => UNCHANGED <<world, findings>>
  BY DEF ghostVars, world
<1> QED BY <1>1, <1>2, <1>3, <1>4, <1>5, Quiet DEF GhostNext, Detect, Elsewhere
-------------------------------------------------------------------------------
(* What has been found or noted stays so while the processes do. *)
LEMMA Lasting ==
    ASSUME UNCHANGED world, findings \subseteq findings', notes \subseteq notes', NEW p
    PROVE  /\ Ghost(p)' <=> Ghost(p)
           /\ Found(p) => Found(p)'
           /\ Missed(p) => Missed(p)'
<1>1. Ghost(p)' <=> Ghost(p)
  BY DEF Ghost, world
<1>2. Found(p) => Found(p)'
  BY DEF Found, world
<1>3. Missed(p) => Missed(p)'
  BY DEF Missed, Beyond, world
<1> QED BY <1>1, <1>2, <1>3

(* The first survivor, if it is a hidden process, is reported for what it is. *)
LEMMA GhostIsReported ==
    ASSUME NEW p, NEW status, GhostTypeOK, Ghost(p), ~status.thread, status.state = proc[p].state
    PROVE  \E f \in classify(p, status) :
              /\ f.pid = p
              /\ f.confirmed_ioc <=>
                    machine.uptime /\ proc[p].age = "old" /\ proc[p].state = "live"
<1>1. p \in DOMAIN proc /\ on_path(p) /\ proc[p].age # "new"
  BY DEF Ghost, on_path
<1>2. proc[p].state \in State
  BY <1>1 DEF GhostTypeOK
<1>3. status.state # none
  BY <1>2, NoneAssumption
<1> DEFINE f == [pid |-> p, confirmed_ioc |-> confirmed_ioc(proc[p].state, age_secs(p)),
                 via |-> "stat-path+kill"]
<1>4. f \in classify(p, status)
  BY <1>1, <1>3 DEF classify
<1>5. f.pid = p /\ f.confirmed_ioc = confirmed_ioc(proc[p].state, age_secs(p))
  OBVIOUS
<1>6. age_secs(p) = "old" <=> machine.uptime /\ proc[p].age = "old"
  BY <1>1, NoneAssumption DEF age_secs
<1> HIDE DEF f
<1> QED BY <1>4, <1>5, <1>6, Zenon DEF confirmed_ioc

LEMMA GhostStep ==
    ASSUME GhostTypeOK, CycleInv, GhostInv, [GhostNext]_ghostVars
    PROVE  GhostInv'
<1> USE DEF Fields
<1>0. /\ scan \in Scan /\ machine \in Machines /\ DOMAIN proc \subseteq Pids
      /\ scan.stable \in (SUBSET Pids) \cup {none}
      /\ scan.phase \in {"start", "before", "probe", "filter", "classify", "done"}
  BY DEF GhostTypeOK, Scan
<1> DEFINE Held(p) ==
        /\ p \notin scan.before \cup scan.after
        /\ scan.phase = "before" => InAllCycles(p) \/ Missed(p)
        /\ scan.phase = "probe" => (InAllCycles(p) /\ p \in scan.todo \cup scan.live) \/ Missed(p)
        /\ scan.phase = "filter" => (InAllCycles(p) /\ p \in scan.live) \/ Missed(p)
        /\ scan.phase = "classify" => p \in scan.stable \/ Found(p) \/ Missed(p) \/ Full
        /\ scan.status # none /\ p = Least(scan.stable) =>
              ~scan.status.thread /\ scan.status.state = proc[p].state
        /\ scan.phase = "done" =>
              \/ Found(p) \/ Missed(p) \/ Full
              \/ machine.hidepid /\ ~machine.deep /\ "hidepid" \in notes
<1>0a. GhostInv <=> \A p \in DOMAIN proc : Ghost(p) => Held(p)
  BY DEF GhostInv
<1>0b. GhostInv' <=> \A p \in DOMAIN proc' : Ghost(p)' => Held(p)'
  BY DEF GhostInv
<1>1. CASE UNCHANGED ghostVars
  <2>1. \A p : Ghost(p)' = Ghost(p) /\ Held(p)' = Held(p)
    BY <1>1 DEF ghostVars, Ghost, InAllCycles, Missed, Found, Full, Beyond
  <2> QED BY <1>0a, <1>0b, <1>1, <2>1 DEF ghostVars
<1>3. ASSUME UNCHANGED world, findings \subseteq findings',
             \A p \in DOMAIN proc : Ghost(p) /\ Held(p) => Held(p)'
      PROVE  GhostInv'
  BY <1>0a, <1>0b, <1>3 DEF world, Ghost
<1>4. ASSUME NEW p \in DOMAIN proc, Ghost(p)
      PROVE  /\ p \notin listed /\ on_path(p) /\ ~is_thread(p) /\ ~status_denied(p) /\ p \in Pids
             /\ proc[p].kind # "thread"
  BY <1>0, <1>4 DEF Ghost, listed, on_path, is_thread, status_denied
<1>5. CASE Start
  <2>1. /\ scan.phase = "start" /\ scan.stable = none /\ scan.status = none /\ UNCHANGED <<world, findings>>
        /\ machine.hidepid => "hidepid" \in notes'
    BY <1>5 DEF Start, CycleInv
  <2>2. ASSUME NEW p \in DOMAIN proc, Ghost(p), Held(p)
        PROVE  Held(p)'
    BY <1>0, <1>5, <2>1, <2>2, StartFields DEF InAllCycles, world
  <2> QED BY <1>3, <2>1, <2>2
<1>6. CASE ListBefore
  <2>1. /\ UNCHANGED <<world, findings>> /\ scan.phase = "before" /\ scan.status = none
    BY <1>6 DEF ListBefore, CycleInv
  <2>2. PICK s \in BOOLEAN :
          LET b == pid_scan_bounds(machine) IN
          /\ Fields("probe", scan.cycle + 1, listed, to_probe(b, s), {}, scan.after,
                    scan.stable, scan.status)
          /\ notes' = notes \cup (IF ~machine.pid_max_read THEN {"pid_max"}
                                  ELSE IF s /\ should_report_scan_gap(b) THEN {"gap"} ELSE {})
    BY <1>0, <1>6, ListBeforeFields
  <2>3. ASSUME NEW p \in DOMAIN proc, Ghost(p), Held(p)
        PROVE  Held(p)'
    <3>1. p \notin scan'.before \cup scan'.after
      BY <1>4, <2>2, <2>3
    <3>2. Missed(p) => Missed(p)'
      BY <2>1, <2>2, Lasting
    <3>3. InAllCycles(p)' = InAllCycles(p)
      BY <2>2 DEF InAllCycles
    <3>4. CASE p \in to_probe(pid_scan_bounds(machine), s)
      BY <2>1, <2>2, <2>3, <3>1, <3>2, <3>3, <3>4
    <3>5. CASE p \notin to_probe(pid_scan_bounds(machine), s)
      <4>1. /\ Beyond(p)
            /\ ~machine.pid_max_read \/ (s /\ should_report_scan_gap(pid_scan_bounds(machine)))
        BY <1>0, <1>4, <2>3, <3>5, BoundsFacts
      <4>2. Beyond(p)'
        BY <2>1, <4>1 DEF Beyond, world
      <4>3. notes' \cap {"gap", "pid_max"} # {}
        BY <2>2, <4>1
      <4>4. Missed(p)'
        BY <4>2, <4>3 DEF Missed
      <4> QED BY <2>1, <2>2, <3>1, <4>4
    <3> QED BY <3>4, <3>5
  <2> QED BY <1>3, <2>1, <2>3
<1>7. ASSUME NEW x, Probe(x)
      PROVE  GhostInv'
  <2>1. /\ UNCHANGED <<world, notes, findings>> /\ scan.phase = "probe" /\ scan.status = none
    BY <1>7 DEF Probe, CycleInv
  <2>2. Fields(scan.phase, scan.cycle, scan.before, scan.todo \ {x},
               IF on_path(x) THEN scan.live \cup {x} ELSE scan.live, scan.after,
               scan.stable, scan.status)
    BY <1>0, <1>7, ProbeFields
  <2>3. ASSUME NEW p \in DOMAIN proc, Ghost(p), Held(p)
        PROVE  Held(p)'
    <3>1. Missed(p) => Missed(p)'
      BY <2>1, Lasting
    <3>2. InAllCycles(p)' = InAllCycles(p)
      BY <2>2 DEF InAllCycles
    <3>3. p \in scan.todo \cup scan.live => p \in scan'.todo \cup scan'.live
      BY <1>4, <2>2, <2>3
    <3> QED BY <2>1, <2>2, <2>3, <3>1, <3>2, <3>3
  <2> QED BY <1>3, <2>1, <2>3
<1>8. CASE ListAfter
  <2>1. /\ UNCHANGED <<world, notes, findings>> /\ scan.phase = "probe" /\ scan.status = none
        /\ scan.todo = {}
    BY <1>8 DEF ListAfter, CycleInv
  <2>2. Fields("filter", scan.cycle, scan.before, scan.todo, scan.live, listed,
               scan.stable, scan.status)
    BY <1>0, <1>8, ListAfterFields
  <2>3. ASSUME NEW p \in DOMAIN proc, Ghost(p), Held(p)
        PROVE  Held(p)'
    <3>1. Missed(p) => Missed(p)'
      BY <2>1, Lasting
    <3>2. InAllCycles(p)' = InAllCycles(p)
      BY <2>2 DEF InAllCycles
    <3>3. p \notin scan'.before \cup scan'.after
      BY <1>4, <2>2, <2>3
    <3> QED BY <2>1, <2>2, <2>3, <3>1, <3>2, <3>3
  <2> QED BY <1>3, <2>1, <2>3
<1>9. CASE Filter
  <2>1. /\ UNCHANGED <<world, notes, findings>> /\ scan.phase = "filter" /\ scan.status = none
    BY <1>9 DEF Filter, CycleInv
  <2>2. Fields(IF Kept = {} THEN "done"
               ELSE IF scan.cycle < PROBE_CYCLES THEN "before" ELSE "classify",
               scan.cycle, {}, scan.todo, {}, {}, Kept, scan.status)
    BY <1>0, <1>9, FilterFields
  <2>3. ASSUME NEW p \in DOMAIN proc, Ghost(p), Held(p)
        PROVE  Held(p)'
    <3>1. Missed(p) => Missed(p)'
      BY <2>1, Lasting
    <3>2. InAllCycles(p) /\ p \in scan.live => p \in Kept
      BY <1>4, <2>3 DEF InAllCycles, Kept, Candidates, candidate_diff
    <3>3. CASE Missed(p)
      BY <2>1, <2>2, <3>1, <3>3
    <3>4. CASE p \in Kept
      BY <2>1, <2>2, <3>4 DEF InAllCycles
    <3> QED BY <2>1, <2>3, <3>2, <3>3, <3>4
  <2> QED BY <1>3, <2>1, <2>3
<1>10. CASE ReadStatus
  <2> DEFINE l == Least(scan.stable)
  <2>1. /\ UNCHANGED <<world, findings>> /\ scan.phase = "classify" /\ scan.status = none
        /\ notes \subseteq notes'
    BY <1>10 DEF ReadStatus
  <2>2. ASSUME NEW p \in DOMAIN proc, Ghost(p), Held(p)
        PROVE  Held(p)'
    <3>1. (Missed(p) => Missed(p)') /\ (Found(p) => Found(p)')
      BY <2>1, Lasting
    <3>2. Full => Full'
      BY <2>1 DEF Full
    <3>3. CASE /\ Cardinality(findings) >= MAX_FINDINGS /\ notes' = notes \cup {"cap"}
               /\ Fields(scan.phase, scan.cycle, scan.before, scan.todo, scan.live, scan.after,
                         {}, scan.status)
      <4>1. Cardinality(findings) = MAX_FINDINGS
        BY <3>3, FS_CardinalityType, ProbeAssumption DEF GhostTypeOK
      <4>2. Full'
        BY <2>1, <3>3, <4>1 DEF Full
      <4> QED BY <2>1, <2>2, <3>3, <4>2
    <3>4. CASE /\ status_denied(l)
               /\ Fields(scan.phase, scan.cycle, scan.before, scan.todo, scan.live, scan.after,
                         scan.stable \ {l}, scan.status)
      <4>1. p # l
        BY <1>4, <2>2, <3>4
      <4> QED BY <2>1, <2>2, <3>1, <3>2, <3>4, <4>1
    <3>5. CASE Fields(scan.phase, scan.cycle, scan.before, scan.todo, scan.live, scan.after,
                      scan.stable, [thread |-> on_path(l) /\ proc[l].kind = "thread",
                                    state |-> IF on_path(l) THEN proc[l].state ELSE none])
      <4>1. p = l => ~scan'.status.thread /\ scan'.status.state = proc[p].state
        BY <1>4, <2>2, <3>5
      <4>2. Least(scan'.stable) = l /\ proc' = proc
        BY <2>1, <3>5 DEF world
      <4> QED BY <2>1, <2>2, <3>1, <3>2, <3>5, <4>1, <4>2
    <3> QED BY <1>0, <1>10, <3>3, <3>4, <3>5, ReadStatusFields
  <2> QED BY <1>3, <2>1, <2>2
<1>11. CASE Classify
  <2> DEFINE l == Least(scan.stable)
  <2>1. /\ UNCHANGED <<world, notes>> /\ scan.phase = "classify" /\ scan.status # none
        /\ findings' = findings \cup classify(l, scan.status)
        /\ Cardinality(findings) < MAX_FINDINGS
    BY <1>11 DEF Classify, CycleInv
  <2>2. Fields(scan.phase, scan.cycle, scan.before, scan.todo, scan.live, scan.after,
               scan.stable \ {l}, none)
    BY <1>0, <1>11, ClassifyFields
  <2>3. ~Full
    <3>1. Cardinality(findings) \in Nat /\ MAX_FINDINGS \in Nat
      BY FS_CardinalityType, ProbeAssumption DEF GhostTypeOK
    <3> QED BY <2>1, <3>1 DEF Full
  <2>4. ASSUME NEW p \in DOMAIN proc, Ghost(p), Held(p)
        PROVE  Held(p)'
    <3>1. (Missed(p) => Missed(p)') /\ (Found(p) => Found(p)')
      BY <2>1, Lasting
    <3>2. CASE p = l
      <4>1. \E f \in classify(p, scan.status) :
              /\ f.pid = p
              /\ f.confirmed_ioc <=>
                    machine.uptime /\ proc[p].age = "old" /\ proc[p].state = "live"
        BY <2>1, <2>4, <3>2, GhostIsReported
      <4>2. Found(p)'
        BY <2>1, <3>2, <4>1 DEF Found, world
      <4> QED BY <2>1, <2>2, <2>4, <4>2
    <3>3. CASE p # l
      BY <2>1, <2>2, <2>3, <2>4, <3>1, <3>3
    <3> QED BY <3>2, <3>3
  <2> QED BY <1>3, <2>1, <2>4
<1>12. CASE Conclude
  <2>1. /\ UNCHANGED <<world, findings>> /\ scan.phase = "classify" /\ scan.stable = {}
        /\ scan.status = none /\ notes \subseteq notes'
    BY <1>12 DEF Conclude, CycleInv
  <2>2. Fields("done", scan.cycle, scan.before, scan.todo, scan.live, scan.after,
               scan.stable, scan.status)
    BY <1>0, <1>12, ConcludeFields
  <2>3. ASSUME NEW p \in DOMAIN proc, Ghost(p), Held(p)
        PROVE  Held(p)'
    <3>1. (Missed(p) => Missed(p)') /\ (Found(p) => Found(p)')
      BY <2>1, Lasting
    <3>2. Full => Full'
      BY <2>1 DEF Full
    <3> QED BY <2>1, <2>2, <2>3, <3>1, <3>2
  <2> QED BY <1>3, <2>1, <2>3
<1>13. ASSUME UNCHANGED <<machine, scan, notes, findings>>, NEW p \in DOMAIN proc,
              p \in DOMAIN proc', proc'[p] = proc[p], Ghost(p)'
       PROVE  Ghost(p) /\ (Held(p) => Held(p)')
  <2>1. Ghost(p)
    BY <1>13 DEF Ghost
  <2>2. /\ InAllCycles(p)' = InAllCycles(p) /\ Missed(p)' = Missed(p) /\ Full' = Full
        /\ Found(p) => Found(p)'
    BY <1>13 DEF InAllCycles, Missed, Beyond, Full, Found
  <2> QED BY <1>13, <2>1, <2>2
<1>14. ASSUME NEW p \in machine.movers, Exit(p)
       PROVE  GhostInv'
  <2>1. /\ UNCHANGED <<machine, scan, notes, findings>>
        /\ \A q \in DOMAIN proc' : q \in DOMAIN proc /\ proc'[q] = proc[q]
    BY <1>14, ExitFacts
  <2> QED BY <1>0a, <1>0b, <1>13, <2>1
<1>15. ASSUME NEW p \in machine.movers, NEW kind \in Kinds, Spawn(p, kind)
       PROVE  GhostInv'
  <2>1. /\ UNCHANGED <<machine, scan, notes, findings>> /\ DOMAIN proc' = DOMAIN proc \cup {p}
        /\ proc'[p].age = "new" /\ \A q \in DOMAIN proc : proc'[q] = proc[q]
    BY <1>15, SpawnFacts
  <2>2. ~Ghost(p)'
    BY <2>1 DEF Ghost
  <2> QED BY <1>0a, <1>0b, <1>13, <2>1, <2>2
<1> QED BY <1>1, <1>5, <1>6, <1>7, <1>8, <1>9, <1>10, <1>11, <1>12, <1>14, <1>15
        DEF GhostNext, Detect, Elsewhere
-------------------------------------------------------------------------------
HideInv == /\ GhostTypeOK /\ CycleInv /\ HauntInv /\ OldInv
           /\ TurnInv /\ ReportInv /\ GhostInv

LEMMA HideInit ==
    ASSUME GhostInit
    PROVE  HideInv
<1>1. GhostTypeOK /\ CycleInv
  BY ScanInit
<1>2. HauntInv
  BY DEF GhostInit, HauntInv
<1>3. /\ scan.phase = "start" /\ scan.stable = none /\ scan.before = {} /\ scan.after = {}
      /\ scan.status = none /\ findings = {}
  BY DEF GhostInit
<1>4. OldInv /\ TurnInv /\ ReportInv /\ GhostInv
  BY <1>3 DEF OldInv, TurnInv, ReportInv, GhostInv
<1> QED BY <1>1, <1>2, <1>4 DEF HideInv

(* The inductive invariant of detect while processes start, end and change pids. *)
THEOREM HideInvariance == Spec => []HideInv
<1>1. Init => HideInv
  BY HideInit DEF Init
<1>2. HideInv /\ [Next]_vars => HideInv'
  <2> SUFFICES ASSUME HideInv, [Next]_vars
               PROVE  HideInv'
    OBVIOUS
  <2>1. [GhostNext]_ghostVars
    BY NextIsGhost
  <2> QED BY <2>1, ScanStep, HauntStep, OldStep, TurnStep, ReportStep, GhostStep DEF HideInv
<1> QED BY <1>1, <1>2, PTL DEF Spec

(* ConfirmedIsHidden: a confirmed finding of ghost_pid::detect names a pid under which a process
   has hidden, on every machine and whatever starts, ends and reuses pids meanwhile. *)
THEOREM ConfirmedOnlyHidden == Spec => []ConfirmedIsHidden
<1>1. HideInv => ConfirmedIsHidden
  BY DEF HideInv, ReportInv, ConfirmedIsHidden
<1> QED BY <1>1, HideInvariance, PTL

(* SuspicionTakesRaces: a finding on a pid that nobody hid behind takes one start under that pid
   for each of the probe cycles, however many cycles there are. *)
THEOREM SuspicionNeedsRaces == Spec => []SuspicionTakesRaces
<1>1. HideInv => SuspicionTakesRaces
  BY DEF HideInv, ReportInv, SuspicionTakesRaces
<1> QED BY <1>1, HideInvariance, PTL

(* HiddenIsFound: a process that hides from before the scan until its end is found, or a note says
   why not: no pid is left out in silence for any pid_max, ns_last_pid and fallback. *)
THEOREM HiddenAreFound == Spec => []HiddenIsFound
<1>1. HideInv => HiddenIsFound
  <2> SUFFICES ASSUME HideInv, scan.phase = "done", NEW p \in DOMAIN proc,
                      proc[p].kind = "hidden", proc[p].age # "new", p \notin machine.denied
               PROVE  \/ Found(p) \/ Missed(p) \/ Full
                      \/ machine.hidepid /\ ~machine.deep /\ "hidepid" \in notes
    BY DEF HiddenIsFound, Found, Missed, Full
  <2> QED BY DEF HideInv, GhostInv, Ghost
<1> QED BY <1>1, HideInvariance, PTL

-------------------------------------------------------------------------------
(* The list of a set holds its members, that of the empty set none. *)
LEMMA ListOfSet ==
    ASSUME NEW T, IsFiniteSet(T)
    PROVE  ToSet(SetToSeq(T)) = T /\ (T = {} => SetToSeq(T) = <<>>)
<1> DEFINE n == Cardinality(T)
           f == SetToSeq(T)
<1>1. n \in Nat /\ ExistsBijection(1 .. n, T)
  BY FS_CardinalityType
<1>2. \E g \in [1 .. n -> T] : IsInjective(g)
  BY <1>1 DEF ExistsBijection, Bijection, Injection
<1>3. f \in [1 .. n -> T] /\ IsInjective(f)
  BY <1>2 DEF SetToSeq
<1>4. f \in Injection(1 .. n, T)
  BY <1>3 DEF Injection
<1>5. Cardinality(1 .. n) = n
  BY <1>1, FS_Interval
<1>6. f \in Surjection(1 .. n, T)
  BY <1>4, <1>5, FS_Injection
<1>7. \A t \in T : \E i \in 1 .. n : f[i] = t
  BY <1>6 DEF Surjection
<1>8. T = {} => n = 0
  BY FS_EmptySet
<1> HIDE DEF f, n
<1>9. ToSet(f) = T
  BY <1>3, <1>7 DEF ToSet
<1>10. T = {} => f = <<>>
  <2> SUFFICES ASSUME T = {}
               PROVE  f = <<>>
    OBVIOUS
  <2>1. f \in [1 .. 0 -> T]
    BY <1>3, <1>8
  <2>2. f \in Seq(T) /\ Len(f) = 0
    BY <2>1
  <2> QED BY <2>2, EmptySeq
<1> QED BY <1>9, <1>10 DEF f

LEMMA NamesFacts ==
    ASSUME NEW S \in SUBSET (Modules \cup {rk})
    PROVE  /\ names_in(Names(S)) = S
           /\ Names(S).err = "none" /\ ~Names(S).truncated
           /\ S = {} => Names(S).lines = <<>>
<1> DEFINE T == {<<m>> : m \in S}
           g == [m \in S |-> <<m>>]
<1>1. IsFiniteSet(S)
  BY ModulesAssumption, FS_AddElement, FS_Subset
<1>2. g \in Bijection(S, T)
  <2>1. g \in [S -> T]
    OBVIOUS
  <2>2. \A a, b \in S : g[a] = g[b] => a = b
    OBVIOUS
  <2>3. \A t \in T : \E s \in S : g[s] = t
    OBVIOUS
  <2> QED BY <2>1, <2>2, <2>3 DEF Bijection, Injection, Surjection, IsInjective
<1>3. IsFiniteSet(T)
  BY <1>1, <1>2, FS_Bijection DEF ExistsBijection
<1>4. ToSet(SetToSeq(T)) = T /\ (T = {} => SetToSeq(T) = <<>>)
  BY <1>3, ListOfSet
<1>5. Names(S).lines = SetToSeq(T) /\ Names(S).err = "none" /\ Names(S).truncated = FALSE
  BY DEF Names, Result
<1>6. S = {} => T = {}
  OBVIOUS
<1>7. {l[1] : l \in T} = S
  <2>1. \A l \in T : \E m \in S : l = <<m>> /\ l[1] = m
    OBVIOUS
  <2>2. \A m \in S : <<m>> \in T /\ <<m>>[1] = m
    OBVIOUS
  <2> QED BY <2>1, <2>2
<1> HIDE DEF T, g
<1> QED BY <1>4, <1>5, <1>6, <1>7 DEF names_in

LEMMA ClosedFacts ==
    /\ names_in(Closed) = {} /\ Closed.err = "PermissionDenied" /\ Closed # none
    /\ \A S \in SUBSET (Modules \cup {rk}) : Names(S) # none /\ Names(S) # Closed
<1>1. Closed.err = "PermissionDenied" /\ Closed.lines = <<>>
  BY DEF Closed, Result
<1>2. names_in(Closed) = {}
  <2>1. DOMAIN Closed.lines = {}
    BY <1>1
  <2> QED BY <2>1 DEF names_in, ToSet
<1>3. \A S \in SUBSET (Modules \cup {rk}) : Names(S).err = "none"
  BY NamesFacts
<1>4. \A S \in SUBSET (Modules \cup {rk}) : Names(S) # Closed
  BY <1>1, <1>3
<1> QED BY <1>1, <1>2, <1>4, ViewsAssumption

(* A reading is closed, or lists names. *)
LEMMA ReadingFacts ==
    ASSUME NEW N \in SUBSET (Modules \cup {rk}), NEW r \in Readings(N)
    PROVE  /\ r # none /\ names_in(r) \subseteq N
           /\ r = Closed \/ (r.err = "none" /\ r # Closed)
<1>1. CASE r = Closed
  BY <1>1, ClosedFacts
<1>2. CASE r # Closed
  <2>1. PICK S \in SUBSET N : r = Names(S)
    BY <1>2 DEF Readings
  <2>2. S \in SUBSET (Modules \cup {rk})
    OBVIOUS
  <2> QED BY <1>2, <2>1, <2>2, NamesFacts, ClosedFacts
<1> QED BY <1>1, <1>2
-------------------------------------------------------------------------------
ViewsInv == ViewsTypeOK /\ OrderInv /\ RootkitInv /\ HistoryInv

LEMMA ViewsInit ==
    ASSUME Init
    PROVE  ViewsInv
<1>1. machine \in Machines /\ loaded = machine.modules /\ views = Views
  BY DEF Init, GhostInit
<1>2. loaded \subseteq Modules
  BY <1>1, ModulesAssumption
<1>3. /\ DOMAIN views = {"first", "sysfs", "kallsyms", "second", "piece"}
      /\ views.first = none /\ views.sysfs = none /\ views.kallsyms = none
      /\ views.second = none /\ views.piece = none
  BY <1>1 DEF Views
<1> QED BY <1>2, <1>3 DEF ViewsInv, ViewsTypeOK, OrderInv, RootkitInv, HistoryInv, Told

(* What a read leaves of the views. *)
LEMMA TakeFacts ==
    ASSUME ViewsTypeOK, NEW view \in {"first", "sysfs", "kallsyms", "second"}, NEW readings,
           Take(view, readings)
    PROVE  /\ UNCHANGED <<machine, loaded, history>> /\ views[view] = none
           /\ DOMAIN views' = DOMAIN views /\ views'[view] \in readings
           /\ \A v \in {"first", "sysfs", "kallsyms", "second", "piece"} \ {view} : views'[v] = views[v]
  BY DEF Take, ViewsTypeOK, ghostVars

LEMMA MachineStays == [Next]_vars => machine' = machine
  BY DEF Next, vars, ghostVars, Detect, Elsewhere, Start, ListBefore, Probe, ListAfter, Filter,
         ReadStatus, Classify, Conclude, Spawn, Exit, First, Sysfs, Kallsyms, Second, Take,
         Reconcile, Load, Unload, world

LEMMA ViewsStep ==
    ASSUME machine \in Machines, ViewsInv, [Next]_vars
    PROVE  ViewsInv'
<1>0. /\ ViewsTypeOK /\ OrderInv /\ RootkitInv /\ HistoryInv /\ machine' = machine
      /\ loaded \subseteq Modules /\ machine.rootkit_in \subseteq {"sysfs", "kallsyms"}
      /\ rk \notin Modules
  BY MachineStays, ModulesAssumption DEF ViewsInv, ViewsTypeOK
<1>0a. \A S \in SUBSET (Modules \cup {rk}) :
         Names(S) # none /\ Names(S) # Closed /\ names_in(Names(S)) = S
  BY NamesFacts, ClosedFacts
<1>0b. Closed # none /\ names_in(Closed) = {}
  BY ClosedFacts
<1>0c. /\ loaded \in SUBSET (Modules \cup {rk}) /\ {} \in SUBSET (Modules \cup {rk})
       /\ Shown("sysfs") \in SUBSET (Modules \cup {rk})
       /\ Shown("kallsyms") \in SUBSET (Modules \cup {rk})
       /\ \A v : Shown(v) \cap Modules = loaded /\ (v \in machine.rootkit_in => rk \in Shown(v))
  BY <1>0 DEF Shown
<1>1. CASE UNCHANGED modVars
  BY <1>0, <1>1 DEF modVars, ViewsInv, ViewsTypeOK, OrderInv, RootkitInv, HistoryInv, Judged
<1>2. CASE First
  <2>1. /\ UNCHANGED <<loaded, history>> /\ views.first = none /\ DOMAIN views' = DOMAIN views
        /\ views'.first \in {Names(loaded), Closed}
        /\ views'.sysfs = views.sysfs /\ views'.kallsyms = views.kallsyms
        /\ views'.second = views.second /\ views'.piece = views.piece
    BY <1>0, <1>2, TakeFacts DEF First
  <2>2. views.sysfs = none /\ views.kallsyms = none /\ views.second = none /\ views.piece = none
    BY <1>0, <1>0b, <2>1 DEF OrderInv
  <2>3. views'.first \in Readings(Modules)
    BY <1>0, <2>1 DEF Readings
  <2>4. ViewsTypeOK'
    BY <1>0, <2>1, <2>3 DEF ViewsTypeOK
  <2>5. OrderInv' /\ RootkitInv'
    BY <2>1, <2>2 DEF OrderInv, RootkitInv
  <2>6. HistoryInv'
    BY <1>0a, <1>0b, <1>0c, <2>1, <2>2 DEF HistoryInv, Told
  <2> QED BY <2>4, <2>5, <2>6 DEF ViewsInv
<1>3. CASE Sysfs
  <2>1. /\ UNCHANGED <<loaded, history>> /\ views.sysfs = none /\ DOMAIN views' = DOMAIN views
        /\ views'.sysfs \in {Names(Shown("sysfs")), Closed} /\ views.first \notin {none, Closed}
        /\ views'.first = views.first /\ views'.kallsyms = views.kallsyms
        /\ views'.second = views.second /\ views'.piece = views.piece
    BY <1>0, <1>3, TakeFacts DEF Sysfs
  <2>2. views.kallsyms = none /\ views.second = none /\ views.piece = none
    BY <1>0, <2>1 DEF OrderInv
  <2>3. views'.sysfs \in Readings(Modules \cup {rk})
    BY <1>0c, <2>1 DEF Readings
  <2>4. ViewsTypeOK'
    BY <1>0, <2>1, <2>3 DEF ViewsTypeOK
  <2>5. OrderInv'
    BY <1>0a, <1>0b, <1>0c, <2>1, <2>2 DEF OrderInv
  <2>6. RootkitInv'
    BY <1>0, <1>0a, <1>0b, <1>0c, <2>1, <2>2 DEF RootkitInv
  <2>7. views'.sysfs # none /\ Told(views'.sysfs) \cap Modules \subseteq loaded
    BY <1>0a, <1>0b, <1>0c, <2>1 DEF Told
  <2>8. HistoryInv'
    BY <1>0, <2>1, <2>2, <2>7 DEF HistoryInv, Told
  <2> QED BY <2>4, <2>5, <2>6, <2>8 DEF ViewsInv
<1>4. CASE Kallsyms
  <2>1. /\ UNCHANGED <<loaded, history>> /\ views.kallsyms = none /\ DOMAIN views' = DOMAIN views
        /\ views'.kallsyms \in {Names(Shown("kallsyms")), Closed, Names({})} /\ views.sysfs # none
        /\ views'.first = views.first /\ views'.sysfs = views.sysfs
        /\ views'.second = views.second /\ views'.piece = views.piece
    BY <1>0, <1>4, TakeFacts DEF Kallsyms
  <2>2. views.first \notin {none, Closed} /\ views.second = none /\ views.piece = none
    BY <1>0, <2>1 DEF OrderInv
  <2>3. views'.kallsyms \in Readings(Modules \cup {rk})
    BY <1>0c, <2>1 DEF Readings
  <2>4. ViewsTypeOK'
    BY <1>0, <2>1, <2>3 DEF ViewsTypeOK
  <2>5. OrderInv'
    BY <1>0, <2>1, <2>2 DEF OrderInv
  <2>6. RootkitInv'
    BY <1>0, <1>0a, <1>0b, <1>0c, <2>1, <2>2 DEF RootkitInv
  <2>7. views'.kallsyms # none /\ Told(views'.kallsyms) \cap Modules \subseteq loaded
    BY <1>0a, <1>0b, <1>0c, <2>1 DEF Told
  <2>8. HistoryInv'
    BY <1>0, <2>1, <2>2, <2>7 DEF HistoryInv, Told
  <2> QED BY <2>4, <2>5, <2>6, <2>8 DEF ViewsInv
<1>5. CASE Second
  <2>1. /\ UNCHANGED <<loaded, history>> /\ views.second = none /\ DOMAIN views' = DOMAIN views
        /\ views'.second \in {Names(loaded), Closed} /\ views.kallsyms # none
        /\ views'.first = views.first /\ views'.sysfs = views.sysfs
        /\ views'.kallsyms = views.kallsyms /\ views'.piece = views.piece
    BY <1>0, <1>5, TakeFacts DEF Second
  <2>2. views.first \notin {none, Closed} /\ views.sysfs # none /\ views.piece = none
    BY <1>0, <2>1 DEF OrderInv
  <2>3. views'.second \in Readings(Modules)
    BY <1>0, <2>1 DEF Readings
  <2>4. ViewsTypeOK'
    BY <1>0, <2>1, <2>3 DEF ViewsTypeOK
  <2>5. OrderInv' /\ RootkitInv'
    BY <1>0, <2>1, <2>2 DEF OrderInv, RootkitInv
  <2>6. views'.second = Closed \/ (views'.second # none /\ Told(views'.second) = loaded)
    BY <1>0a, <1>0c, <2>1 DEF Told
  <2>7. HistoryInv'
    BY <1>0, <1>0b, <2>1, <2>2, <2>6 DEF HistoryInv
  <2> QED BY <2>4, <2>5, <2>7 DEF ViewsInv
<1>6. CASE Reconcile
  <2>1. /\ UNCHANGED <<loaded, history>> /\ DOMAIN views' = DOMAIN views
        /\ views.first = Closed \/ views.second # none
        /\ views'.first = views.first /\ views'.sysfs = views.sysfs
        /\ views'.kallsyms = views.kallsyms /\ views'.second = views.second
        /\ views'.piece = Judged
    BY <1>0, <1>6 DEF Reconcile, ViewsTypeOK, Judged
  <2>2. Judged' = Judged
    BY <2>1 DEF Judged
  <2>3. ViewsTypeOK'
    BY <1>0, <2>1 DEF ViewsTypeOK
  <2>4. OrderInv'
    BY <1>0, <2>1, <2>2 DEF OrderInv
  <2>5. RootkitInv'
    BY <1>0, <2>1 DEF RootkitInv
  <2>6. HistoryInv'
    BY <1>0, <2>1 DEF HistoryInv
  <2> QED BY <2>3, <2>4, <2>5, <2>6 DEF ViewsInv
<1>7. ASSUME NEW x \in Modules, Load(x)
      PROVE  ViewsInv'
  <2>1. /\ views' = views /\ views.second = none /\ loaded' = loaded \cup {x}
        /\ history' = history \cup {<<x, "loaded">>}
    BY <1>7 DEF Load, Busy
  <2>2. ViewsTypeOK' /\ OrderInv' /\ RootkitInv'
    BY <1>0, <2>1 DEF ViewsTypeOK, OrderInv, RootkitInv, Judged
  <2>3. HistoryInv'
    BY <1>0, <2>1 DEF HistoryInv
  <2> QED BY <2>2, <2>3 DEF ViewsInv
<1>8. ASSUME NEW x \in Modules, Unload(x)
      PROVE  ViewsInv'
  <2>1. /\ views' = views /\ views.second = none /\ loaded' = loaded \ {x}
        /\ history' = history \cup {<<x, "unloaded">>}
    BY <1>8 DEF Unload, Busy
  <2>2. ViewsTypeOK' /\ OrderInv' /\ RootkitInv'
    BY <1>0, <2>1 DEF ViewsTypeOK, OrderInv, RootkitInv, Judged
  <2>3. HistoryInv'
    BY <1>0, <2>1 DEF HistoryInv
  <2> QED BY <2>2, <2>3 DEF ViewsInv
<1> QED BY <1>1, <1>2, <1>3, <1>4, <1>5, <1>6, <1>7, <1>8 DEF Next, vars, modVars

-------------------------------------------------------------------------------
LEMMA InventoryFacts ==
    ASSUME NEW first, NEW sysfs, NEW kallsyms, NEW second, first.err = "none"
    PROVE  LET known == names_in(first) \cup names_in(second)
               hidden == (names_in(sysfs) \cup (names_in(kallsyms) \ PSEUDO_MODULES)) \ known
               piece == inventory_of(first, sysfs, kallsyms, second)
           IN /\ \A f \in piece.found : \E m \in hidden : f = <<"hidden_candidates", m>>
              /\ piece.warns = {} => \A m \in hidden : <<"hidden_candidates", m>> \in piece.found
              /\ Notes("sys_module", sysfs, AnyError) \subseteq piece.warns
              /\ Notes("kallsyms", kallsyms, AnyError) \subseteq piece.warns
              /\ Notes("modules", second, AnyError) \subseteq piece.warns
              /\ kallsyms.err = "none" /\ kallsyms.lines = <<>> => piece.warns # {}
<1> DEFINE known == names_in(first) \cup names_in(second)
           hidden == (names_in(sysfs) \cup (names_in(kallsyms) \ PSEUDO_MODULES)) \ known
           blind == known = {} /\ hidden # {}
           found == Where(~blind, {<<"hidden_candidates", m>> : m \in hidden})
           warns == Notes("modules", first, {}) \cup Notes("sys_module", sysfs, AnyError)
                    \cup Notes("kallsyms", kallsyms, AnyError)
                    \cup Where(kallsyms.err = "none" /\ kallsyms.lines = <<>>,
                               {<<"kallsyms", "empty">>})
                    \cup Notes("modules", second, AnyError)
                    \cup Where(blind, {<<"modules", "suppressed">>})
           piece == inventory_of(first, sysfs, kallsyms, second)
<1>1. piece = Piece(found, warns)
  BY DEF inventory_of, reconcile
<1>2. piece.found = found /\ piece.warns = warns
  BY <1>1 DEF Piece, Asking
<1>3. blind => warns # {}
  BY DEF Where
<1>4. kallsyms.err = "none" /\ kallsyms.lines = <<>> => warns # {}
  BY DEF Where
<1>5. \A f \in found : \E m \in hidden : f = <<"hidden_candidates", m>>
  BY DEF Where
<1>6. ~blind => \A m \in hidden : <<"hidden_candidates", m>> \in found
  BY DEF Where
<1>7. /\ Notes("sys_module", sysfs, AnyError) \subseteq warns
      /\ Notes("kallsyms", kallsyms, AnyError) \subseteq warns
      /\ Notes("modules", second, AnyError) \subseteq warns
  OBVIOUS
<1> HIDE DEF found, warns, piece, hidden, blind
<1>8. /\ \A f \in piece.found : \E m \in hidden : f = <<"hidden_candidates", m>>
      /\ piece.warns = {} => \A m \in hidden : <<"hidden_candidates", m>> \in piece.found
      /\ Notes("sys_module", sysfs, AnyError) \subseteq piece.warns
      /\ Notes("kallsyms", kallsyms, AnyError) \subseteq piece.warns
      /\ Notes("modules", second, AnyError) \subseteq piece.warns
      /\ kallsyms.err = "none" /\ kallsyms.lines = <<>> => piece.warns # {}
  BY <1>2, <1>3, <1>4, <1>5, <1>6, <1>7
<1> QED BY <1>8 DEF hidden, piece

LEMMA ClosedIsNoted ==
    ASSUME NEW p
    PROVE  <<p, "PermissionDenied">> \in Notes(p, Closed, AnyError)
<1>1. Closed.err = "PermissionDenied"
  BY ClosedFacts
<1>2. "PermissionDenied" \in {Closed.err} \cap (AnyError \cup {"Blocked"})
  BY <1>1 DEF AnyError
<1> QED BY <1>2 DEF Notes

LEMMA JudgedFacts ==
    ASSUME machine \in Machines, ViewsInv, views.piece # none
    PROVE  ModulesAreJudged
<1>0. /\ ViewsTypeOK /\ OrderInv /\ RootkitInv /\ HistoryInv /\ rk \notin Modules
      /\ machine.rootkit_in \subseteq {"sysfs", "kallsyms"}
  BY ModulesAssumption DEF ViewsInv
<1>1. CASE views.first = Closed
  <2>1. views.piece = Piece({}, {<<"modules", Closed.err>>})
    BY <1>0, <1>1 DEF OrderInv, Judged
  <2>2a. views.piece.found = {} /\ views.piece.warns = {<<"modules", Closed.err>>}
    BY <2>1 DEF Piece, Asking
  <2>2. views.piece.found = {} /\ views.piece.warns # {}
    BY <2>2a
  <2>3. candidates = {}
    BY <2>2 DEF candidates
  <2> QED BY <2>2, <2>3 DEF ModulesAreJudged, HonestModulesAreSeen, HiddenModuleIsTold
<1>2. CASE views.first # Closed
  <2>1. /\ views.second # none /\ views.kallsyms # none /\ views.sysfs # none /\ views.first # none
        /\ views.piece = inventory_of(views.first, views.sysfs, views.kallsyms, views.second)
    BY <1>0, <1>2 DEF OrderInv, Judged
  <2>2. /\ views.first \in Readings(Modules) /\ views.second \in Readings(Modules)
        /\ views.sysfs \in Readings(Modules \cup {rk})
        /\ views.kallsyms \in Readings(Modules \cup {rk})
    BY <1>0, <2>1 DEF ViewsTypeOK
  <2>3. Modules \in SUBSET (Modules \cup {rk}) /\ Modules \cup {rk} \in SUBSET (Modules \cup {rk})
    OBVIOUS
  <2>4. /\ views.first.err = "none" /\ names_in(views.first) \subseteq Modules
        /\ names_in(views.second) \subseteq Modules
    BY <1>2, <2>2, <2>3, ReadingFacts
  <2> DEFINE hidden == (names_in(views.sysfs) \cup (names_in(views.kallsyms) \ PSEUDO_MODULES))
                       \ (names_in(views.first) \cup names_in(views.second))
             piece == views.piece
  <2>5. /\ \A f \in piece.found : \E m \in hidden : f = <<"hidden_candidates", m>>
        /\ piece.warns = {} => \A m \in hidden : <<"hidden_candidates", m>> \in piece.found
        /\ Notes("sys_module", views.sysfs, AnyError) \subseteq piece.warns
        /\ Notes("kallsyms", views.kallsyms, AnyError) \subseteq piece.warns
        /\ Notes("modules", views.second, AnyError) \subseteq piece.warns
        /\ views.kallsyms.err = "none" /\ views.kallsyms.lines = <<>> => piece.warns # {}
    BY <2>1, <2>4, InventoryFacts
  <2>6. \A m \in candidates : m \in hidden
    <3>1. ASSUME NEW m \in candidates
          PROVE  m \in hidden
      <4>1. PICK f \in piece.found : f[2] = m
        BY <2>1 DEF candidates
      <4>2. PICK k \in hidden : f = <<"hidden_candidates", k>>
        BY <2>5
      <4>3. f[2] = k
        BY <4>2
      <4> QED BY <4>1, <4>3
    <3> QED BY <3>1
  <2>7. \A m : <<"hidden_candidates", m>> \in piece.found => m \in candidates
    <3>1. ASSUME NEW m, <<"hidden_candidates", m>> \in piece.found
          PROVE  m \in candidates
      <4> DEFINE g == <<"hidden_candidates", m>>
      <4>1. g[1] = "hidden_candidates" /\ g[2] = m
        OBVIOUS
      <4> QED BY <3>1, <4>1, views.piece # none DEF candidates
    <3> QED BY <3>1
  <2>8. HonestModulesAreSeen
    <3> SUFFICES ASSUME NEW m \in candidates \cap Modules
                 PROVE  \/ {<<m, "loaded">>, <<m, "unloaded">>} \subseteq history
                        \/ <<"modules", "PermissionDenied">> \in views.piece.warns
      BY DEF HonestModulesAreSeen
    <3>1. /\ m \in Modules \ Told(views.first) /\ m \notin Told(views.second)
          /\ m \in Told(views.sysfs) \cup Told(views.kallsyms)
      BY <2>1, <2>6 DEF Told
    <3>2. /\ <<m, "loaded">> \in history
          /\ views.second = Closed \/ <<m, "unloaded">> \in history
      BY <1>0, <2>1, <3>1 DEF HistoryInv
    <3>3. views.second = Closed => <<"modules", "PermissionDenied">> \in piece.warns
      BY <2>5, ClosedIsNoted
    <3> QED BY <3>2, <3>3
  <2>9. HiddenModuleIsTold
    <3> SUFFICES ASSUME machine.rootkit_in # {}, piece.warns = {}
                 PROVE  rk \in candidates
      BY DEF HiddenModuleIsTold
    <3>1. rk \notin names_in(views.first) \cup names_in(views.second)
      BY <1>0, <2>4
    <3>2. views.sysfs # Closed /\ views.kallsyms # Closed
      BY <2>5, ClosedIsNoted
    <3>3. views.kallsyms # Names({})
      <4>1. Names({}).err = "none" /\ Names({}).lines = <<>>
        BY NamesFacts
      <4> QED BY <2>5, <4>1
    <3>4. rk \in names_in(views.sysfs) \cup names_in(views.kallsyms)
      BY <1>0, <2>1, <3>2, <3>3 DEF RootkitInv
    <3>5. rk \notin PSEUDO_MODULES
      BY DEF rk, PSEUDO_MODULES
    <3>6. rk \in hidden
      BY <3>1, <3>4, <3>5
    <3> QED BY <2>5, <2>7, <3>6
  <2> QED BY <2>8, <2>9 DEF ModulesAreJudged
<1> QED BY <1>1, <1>2

(* ModulesAreJudged: whatever is loaded and unloaded between the four reads, and whichever of
   them fail, gather_kernel_modules accuses an honest module only if it came and went meanwhile or
   the second snapshot failed, and passes over a hidden one only with a note. *)
THEOREM ModulesJudged == Spec => []ModulesAreJudged
<1>1. Init => ViewsInv
  BY ViewsInit
<1>2. HideInv /\ ViewsInv /\ [Next]_vars => ViewsInv'
  BY ViewsStep DEF HideInv, GhostTypeOK
<1>3. HideInv /\ ViewsInv => ModulesAreJudged
  <2> SUFFICES ASSUME HideInv, ViewsInv
               PROVE  ModulesAreJudged
    OBVIOUS
  <2>1. machine \in Machines
    BY DEF HideInv, GhostTypeOK
  <2>2. CASE views.piece = none
    BY <2>2 DEF ModulesAreJudged, HonestModulesAreSeen, HiddenModuleIsTold, candidates
  <2> QED BY <2>1, <2>2, JudgedFacts
<1> QED BY <1>1, <1>2, <1>3, HideInvariance, PTL DEF Spec
===============================================================================
