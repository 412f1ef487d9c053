---------------------------- MODULE LocalScanProofs ----------------------------
(***************************************************************************)
(* The local scan implements ScanContract, for any machines, any scanners, *)
(* any cap of the list of warnings and any interleaving of the tasks, of   *)
(* panics and of the runner.                                               *)
(*                                                                         *)
(* The contract speaks of what was met and what is told.  In between lies  *)
(* the list of warnings: what was said is in it, or the marker is, until   *)
(* it is drained (SinkInv); and once the runner has joined the tasks none  *)
(* of them takes another step (JoinInv).                                   *)
(***************************************************************************)
EXTENDS LocalScan, FiniteSetTheorems, SequenceTheorems, NaturalsInduction, WellFoundedInduction, TLAPS

(* A task has its fields, and what it holds is of the kind the scanners return. *)
TaskInv(t) ==
    /\ DOMAIN task[t] = {"at", "phase", "found", "pend", "ask", "batch"}
    /\ task[t].at \in Nat \ {0}
    /\ task[t].pend \subseteq Warning
    /\ Named(task[t].found)

JoinInv ==
    /\ DOMAIN runner = {"at", "found", "failed", "pend"}
    /\ runner.at \in {"join", "linked", "done"}
    /\ runner.pend \subseteq Warning
    /\ runner.at # "linked" => runner.pend = {}
    /\ runner.at # "join" =>
          /\ \A t \in Tasks : task[t].phase \in Ended
          /\ runner.failed = {t \in Tasks : task[t].phase = "panicked"}

SinkInv ==
    /\ said \subseteq Warning
    /\ sink \in Seq(Warning)
    /\ ToSet(sink) \subseteq said \cup {CapReached}
    /\ Len(sink) > MAX_ENTRIES => CapReached \in ToSet(sink)
    /\ runner.at # "done" => said \subseteq ToSet(sink) \/ CapReached \in ToSet(sink)

ScanInv ==
    /\ host \in Hosts
    /\ task = [t \in Tasks |-> task[t]]
    /\ \A t \in Tasks : TaskInv(t)
    /\ JoinInv
    /\ SinkInv

-------------------------------------------------------------------------------
(* A panic is named like a warning. *)
LEMMA TasksNamed == Tasks \subseteq Word /\ CapReached \in Warning
BY WordAssumption DEF CapReached, Warning

(* A warning recorded, the marker in its place, or nothing where the marker already is. *)
LEMMA RecordFacts ==
    ASSUME NEW s \in Seq(Warning), NEW w \in Warning
    PROVE  /\ record(s, w) \in Seq(Warning)
           /\ ToSet(s) \subseteq ToSet(record(s, w))
           /\ ToSet(record(s, w)) \subseteq ToSet(s) \cup {w, CapReached}
           /\ Len(s) < MAX_ENTRIES => w \in ToSet(record(s, w))
           /\ Len(s) = MAX_ENTRIES => CapReached \in ToSet(record(s, w))
           /\ Len(s) > MAX_ENTRIES => record(s, w) = s
           /\ Len(s) < MAX_ENTRIES => Len(record(s, w)) <= MAX_ENTRIES
<1>0. CapReached \in Warning /\ MAX_ENTRIES \in Nat
  BY TasksNamed, CapAssumption
<1>1. ASSUME NEW x \in Warning
      PROVE  /\ Append(s, x) \in Seq(Warning) /\ Len(Append(s, x)) = Len(s) + 1
             /\ ToSet(Append(s, x)) = ToSet(s) \cup {x}
  <2>1. /\ Append(s, x) \in Seq(Warning) /\ Len(Append(s, x)) = Len(s) + 1 /\ Len(s) \in Nat
        /\ DOMAIN Append(s, x) = 1 .. Len(s) + 1 /\ DOMAIN s = 1 .. Len(s)
        /\ \A i \in 1 .. Len(s) : Append(s, x)[i] = s[i]
        /\ Append(s, x)[Len(s) + 1] = x
    BY <1>1
  <2> QED BY <2>1 DEF ToSet
<1> HIDE DEF CapReached, Warning, ToSet
<1>2. CASE Len(s) < MAX_ENTRIES
  <2>1. record(s, w) = Append(s, w)
    BY <1>2 DEF record
  <2> QED BY <1>0, <1>1, <1>2, <2>1
<1>3. CASE Len(s) = MAX_ENTRIES
  <2>1. record(s, w) = Append(s, CapReached)
    BY <1>0, <1>3 DEF record
  <2> QED BY <1>0, <1>1, <1>3, <2>1
<1>4. CASE Len(s) > MAX_ENTRIES
  <2>1. record(s, w) = s
    BY <1>0, <1>4 DEF record
  <2> QED BY <1>0, <1>4, <2>1
<1>5. Len(s) \in Nat
  OBVIOUS
<1> QED BY <1>0, <1>2, <1>3, <1>4, <1>5

(* The list stays true to what was said when a warning is recorded. *)
LEMMA RecordKeepsSink ==
    ASSUME SinkInv, NEW w \in Warning, sink' = record(sink, w), said' = said \cup {w},
           runner.at # "done", runner'.at # "done"
    PROVE  SinkInv'
<1>1. /\ sink \in Seq(Warning) /\ said \subseteq Warning /\ Len(sink) \in Nat /\ MAX_ENTRIES \in Nat
      /\ ToSet(sink) \subseteq said \cup {CapReached}
      /\ Len(sink) > MAX_ENTRIES => CapReached \in ToSet(sink)
      /\ said \subseteq ToSet(sink) \/ CapReached \in ToSet(sink)
  BY CapAssumption DEF SinkInv
<1> HIDE DEF CapReached, Warning, ToSet
<1>0. /\ sink' \in Seq(Warning)
      /\ ToSet(sink) \subseteq ToSet(sink')
      /\ ToSet(sink') \subseteq ToSet(sink) \cup {w, CapReached}
      /\ Len(sink) < MAX_ENTRIES => w \in ToSet(sink') /\ Len(sink') <= MAX_ENTRIES
      /\ Len(sink) = MAX_ENTRIES => CapReached \in ToSet(sink')
      /\ Len(sink) > MAX_ENTRIES => sink' = sink
  BY <1>1, RecordFacts
<1>2. /\ sink' \in Seq(Warning) /\ said' \subseteq Warning
      /\ ToSet(sink') \subseteq said' \cup {CapReached}
  BY <1>0, <1>1
<1>5. Len(sink') \in Nat
  BY <1>0
<1>3. Len(sink') > MAX_ENTRIES => CapReached \in ToSet(sink')
  BY <1>0, <1>1, <1>5
<1>4. said' \subseteq ToSet(sink') \/ CapReached \in ToSet(sink')
  BY <1>0, <1>1
<1> QED BY <1>2, <1>3, <1>4 DEF SinkInv

(* The package databases are asked with warnings about provenance only. *)
LEMMA QueryWarns ==
    ASSUME NEW h, NEW candidates, NEW failing
    PROVE  resolve_batch_uncached(h, candidates, failing).warns \subseteq Warning
<1>0. {"provenance", "NotFound", "PermissionDenied", "InvalidData", "none", "truncated",
       "unavailable", "no rpmdb", "no rpm", "queries failed", "not owned"} \subseteq Word
  BY WordAssumption
<1>1. \A w \in Word : <<"provenance", w>> \in Warning
  BY <1>0 DEF Warning
<1>2. \A p : read_file_capped_regular(h, p).err \in Word
  BY <1>0 DEF read_file_capped_regular, read_procfs_capped, Result
<1>3. \A source, map, warns : Index(source, map, warns).warns = warns
  BY DEF Index
<1>4. \A b, D : Where(b, D) \subseteq D
  BY DEF Where
<1>5. ASSUME NEW D, D \subseteq Warning
      PROVE  unavailable(D).warns \subseteq Warning
  <2>1. unavailable(D).warns = D \cup {<<"provenance", "unavailable">>}
    BY <1>3 DEF unavailable
  <2>2. <<"provenance", "unavailable">> \in Warning
    BY <1>0, <1>1
  <2> QED BY <1>5, <2>1, <2>2
<1> HIDE DEF Warning, read_file_capped_regular, Index, Where, unavailable
<1>6. resolve_dpkg(h, candidates).warns \subseteq Warning
  <2> DEFINE lists == SetToSeq(dir_entries(h, "dpkg_info"))
             result(i) == read_file_capped_regular(h, lists[i])
             owner(n, p) == {i \in 1..n : <<"owns", p>> \in ToSet(result(i).lines)}
             done(n) == \A p \in candidates : owner(n, p) # {}
             last == Min({n \in 1..Len(lists) : done(n)} \cup {Len(lists)})
             read == {i \in 1..last : result(i).err = "none"}
             warns == {<<"provenance", e>> : e \in {result(i).err : i \in 1..last} \ {"none"}}
                      \cup Where(\E i \in read : result(i).truncated, {<<"provenance", "truncated">>})
  <2>1. warns \subseteq Warning
    <3> HIDE DEF lists, last, read
    <3> QED BY <1>0, <1>1, <1>2, <1>4
  <2>2. \/ resolve_dpkg(h, candidates) = Index("Dpkg", NoOwners, {})
        \/ resolve_dpkg(h, candidates) = unavailable(warns)
        \/ \E map : resolve_dpkg(h, candidates) = Index("Dpkg", map, warns)
    <3> HIDE DEF lists, last, read, owner, warns
    <3> USE DEF last, read, lists, owner, warns
    <3> QED BY Zenon DEF resolve_dpkg
  <2> HIDE DEF warns
  <2> QED BY <1>3, <1>5, <2>1, <2>2
<1>7. resolve_apk(h, candidates).warns \subseteq Warning
  <2> DEFINE r == read_file_capped_regular(h, "apk_installed")
             warns == Where(r.truncated, {<<"provenance", "truncated">>})
  <2>1. warns \subseteq Warning /\ {<<"provenance", r.err>>} \subseteq Warning
    BY <1>0, <1>1, <1>2, <1>4
  <2>2. \/ resolve_apk(h, candidates) = Index("Apk", NoOwners, {})
        \/ resolve_apk(h, candidates) = unavailable({<<"provenance", r.err>>})
        \/ \E source, map : resolve_apk(h, candidates) = Index(source, map, warns)
    BY Zenon DEF resolve_apk
  <2> HIDE DEF r, warns
  <2> QED BY <1>3, <1>5, <2>1, <2>2
<1>8. resolve_rpm(h, candidates, failing).warns \subseteq Warning
  <2> DEFINE failed == candidates \cap failing
             unowned == (candidates \ failed) \ DOMAIN h.rpm
             warns == Where(failed # {}, {<<"provenance", "queries failed">>})
                      \cup Where(unowned # {}, {<<"provenance", "not owned">>})
  <2>1. /\ warns \subseteq Warning /\ {<<"provenance", "no rpmdb">>} \subseteq Warning
        /\ {<<"provenance", "no rpm">>} \subseteq Warning
        /\ {<<"provenance", "queries failed">>} \subseteq Warning
    <3> HIDE DEF unowned, failed
    <3> QED BY <1>0, <1>1, <1>4
  <2>2. \/ resolve_rpm(h, candidates, failing) = Index("Rpm", NoOwners, {})
        \/ resolve_rpm(h, candidates, failing) = unavailable({<<"provenance", "no rpmdb">>})
        \/ resolve_rpm(h, candidates, failing) = unavailable({<<"provenance", "no rpm">>})
        \/ resolve_rpm(h, candidates, failing) = unavailable({<<"provenance", "queries failed">>})
        \/ \E map : resolve_rpm(h, candidates, failing) = Index("Rpm", map, warns)
    BY Zenon DEF resolve_rpm
  <2>3. /\ unavailable({<<"provenance", "no rpmdb">>}).warns \subseteq Warning
        /\ unavailable({<<"provenance", "no rpm">>}).warns \subseteq Warning
        /\ unavailable({<<"provenance", "queries failed">>}).warns \subseteq Warning
    BY <1>5, <2>1
  <2>4. Index("Rpm", NoOwners, {}).warns = {} /\ \A map : Index("Rpm", map, warns).warns = warns
    BY <1>3
  <2> HIDE DEF warns
  <2> QED BY <2>1, <2>2, <2>3, <2>4
<1> QED BY <1>6, <1>7, <1>8 DEF resolve_batch_uncached

(* What the links show are warnings: a namespace that several containers share has a name. *)
LEMMA LinkWarns ==
    ASSUME NEW found, Named(found)
    PROVE  LET of == {f \in found : f[1] = "containers"} IN
           /\ shared(of, 5) \subseteq Warning /\ shared(of, 6) \subseteq Warning
           /\ warn_evaluate_side_effects(found) \subseteq Warning
<1> DEFINE of == {f \in found : f[1] = "containers"}
<1>0. "shared" \in Word /\ "exec" \in Word /\ "unverified" \in Word
  BY WordAssumption
<1>1. \A f \in of : f[5] \in Word /\ f[6] \in Word
  BY DEF Named
<1> HIDE DEF of
<1>2. shared(of, 5) \subseteq Warning /\ shared(of, 6) \subseteq Warning
  <2>1. \A ns \in Word : <<ns, "shared">> \in Warning
    BY <1>0 DEF Warning
  <2> HIDE DEF Warning
  <2> QED BY <1>1, <2>1 DEF shared
<1>3. warn_evaluate_side_effects(found) \subseteq Warning
  BY <1>0 DEF warn_evaluate_side_effects, Where, Warning
<1> QED BY <1>2, <1>3 DEF of

-------------------------------------------------------------------------------
(* One task moves: the others stay as they are, and it holds what scanners return. *)
Moves(t, at, phase, found, pend) ==
    /\ task' = [u \in Tasks |-> task'[u]]
    /\ \A u \in Tasks \ {t} : task'[u] = task[u]
    /\ DOMAIN task'[t] = DOMAIN task[t]
    /\ task'[t].at = at /\ task'[t].phase = phase
    /\ task'[t].found = found /\ task'[t].pend = pend

(* The runner has joined nobody while a task moves. *)
LEMMA MoveKeepsInv ==
    ASSUME ScanInv, NEW t \in Tasks, task[t].phase \notin Ended,
           NEW at \in Nat \ {0}, NEW phase, NEW found, NEW pend,
           Moves(t, at, phase, found, pend), Named(found), pend \subseteq Warning,
           host' = host, runner' = runner, SinkInv'
    PROVE  ScanInv'
<1>1. runner.at = "join"
  BY DEF ScanInv, JoinInv
<1>2. ASSUME NEW u \in Tasks PROVE TaskInv(u)'
  <2>1. CASE u = t
    BY <2>1 DEF ScanInv, TaskInv, Moves
  <2>2. CASE u # t
    BY <2>2 DEF ScanInv, TaskInv, Moves
  <2> QED BY <2>1, <2>2
<1>3. JoinInv'
  BY <1>1 DEF ScanInv, JoinInv
<1>4. task' = [u \in Tasks |-> task'[u]] /\ host' \in Hosts
  BY DEF Moves, ScanInv
<1> QED BY <1>2, <1>3, <1>4 DEF ScanInv

(* The list of warnings is left alone. *)
LEMMA SinkUnchanged ==
    ASSUME SinkInv, sink' = sink, said' = said, runner' = runner
    PROVE  SinkInv'
BY DEF SinkInv

(* The scanner that a task is at is one of its program. *)
LEMMA ScannerFacts ==
    ASSUME ScanInv, NEW t \in Tasks, task[t].at <= Len(Program[t])
    PROVE  LET piece == Scanned[host][scanner_of(t)] IN
           piece.warns \subseteq Warning /\ Named(piece.found)
<1> DEFINE all == UNION {ToSet(Program[u]) : u \in Tasks}
<1>1. \A u \in Tasks : Len(Program[u]) \in Nat /\ DOMAIN Program[u] = 1 .. Len(Program[u])
  BY DEF Tasks, Program
<1>2. task[t].at \in DOMAIN Program[t]
  BY <1>1 DEF ScanInv, TaskInv
<1>3. scanner_of(t) \in ToSet(Program[t])
  BY <1>2 DEF scanner_of, ToSet
<1>4. scanner_of(t) \in all
  <2> HIDE DEF scanner_of, ToSet, Tasks
  <2> QED BY <1>3
<1>5. host \in Hosts /\ DOMAIN Scanned[host] = all
  BY DEF ScanInv, Scanned
<1> HIDE DEF all, scanner_of, Scanned
<1> QED BY <1>4, <1>5, ScannersAssumption

(* A scanner runs: what it found and noted is what scanners may return. *)
LEMMA ScanStep == ASSUME ScanInv, NEW t \in Tasks, Scan(t) PROVE ScanInv'
<1> DEFINE piece == Scanned[host][scanner_of(t)]
<1>1. /\ task[t].phase = "scan" /\ task[t].at <= Len(Program[t])
      /\ task' = [task EXCEPT ![t].found = @ \cup piece.found, ![t].ask = piece.ask,
                              ![t].pend = piece.warns, ![t].phase = "record"]
      /\ host' = host /\ sink' = sink /\ said' = said /\ runner' = runner
  BY DEF Scan
<1>2. piece.warns \subseteq Warning /\ Named(piece.found)
  BY <1>1, ScannerFacts
<1> HIDE DEF piece
<1>3. Moves(t, task[t].at, "record", task[t].found \cup piece.found, piece.warns)
  BY <1>1 DEF Moves, ScanInv, TaskInv
<1>4. Named(task[t].found \cup piece.found) /\ task[t].at \in Nat \ {0}
  BY <1>2 DEF Named, ScanInv, TaskInv
<1>5. SinkInv'
  BY <1>1, SinkUnchanged DEF ScanInv
<1> QED BY <1>1, <1>2, <1>3, <1>4, <1>5, MoveKeepsInv DEF Ended

(* A warning is listed while the runner still waits for the task (coverage::record). *)
LEMMA RecordStep == ASSUME ScanInv, NEW t \in Tasks, Record(t) PROVE ScanInv'
<1> DEFINE w == CHOOSE x \in task[t].pend : TRUE
<1>1. /\ task[t].phase \in {"record", "remember"} /\ task[t].pend # {}
      /\ task' = [task EXCEPT ![t].pend = @ \ {w}]
      /\ sink' = record(sink, w) /\ said' = said \cup {w}
      /\ host' = host /\ runner' = runner
  BY DEF Record
<1>2. w \in task[t].pend
  BY <1>1
<1> HIDE DEF w
<1>3. Moves(t, task[t].at, task[t].phase, task[t].found, task[t].pend \ {w})
  BY <1>1 DEF Moves, ScanInv, TaskInv
<1>4. /\ Named(task[t].found) /\ task[t].at \in Nat \ {0} /\ task[t].pend \subseteq Warning
      /\ w \in Warning
  BY <1>2 DEF ScanInv, TaskInv
<1>5. task[t].phase \notin Ended
  BY <1>1 DEF Ended
<1>6. runner.at = "join"
  BY <1>5 DEF ScanInv, JoinInv
<1>7. SinkInv'
  BY <1>1, <1>4, <1>6, RecordKeepsSink DEF ScanInv
<1> QED BY <1>1, <1>3, <1>4, <1>5, <1>7, MoveKeepsInv

(* A scanner whose warnings are recorded asks for packages or makes way for the next one. *)
LEMMA RecordedStep == ASSUME ScanInv, NEW t \in Tasks, Recorded(t) PROVE ScanInv'
<1> DEFINE at == IF asks(t) THEN task[t].at ELSE task[t].at + 1
           phase == IF asks(t) THEN "lookup" ELSE "scan"
<1>1. /\ task[t].phase = "record"
      /\ task' = [task EXCEPT ![t].phase = phase, ![t].at = IF asks(t) THEN @ ELSE @ + 1]
      /\ host' = host /\ sink' = sink /\ said' = said /\ runner' = runner
  BY DEF Recorded
<1>2. /\ Named(task[t].found) /\ task[t].at \in Nat \ {0} /\ task[t].pend \subseteq Warning
  BY DEF ScanInv, TaskInv
<1>3. Moves(t, at, phase, task[t].found, task[t].pend)
  <2> HIDE DEF phase, asks
  <2> QED BY <1>1 DEF Moves, ScanInv, TaskInv
<1>4. at \in Nat \ {0}
  BY <1>2
<1>5. SinkInv'
  BY <1>1, SinkUnchanged DEF ScanInv
<1> HIDE DEF at, phase
<1> QED BY <1>1, <1>2, <1>3, <1>4, <1>5, MoveKeepsInv DEF Ended

(* A batch that is resolved adds packages, not containers. *)
LEMMA ResolvedFacts ==
    ASSUME ScanInv, NEW t \in Tasks, NEW map, NEW source, task' = Resolved(t, map, source)
    PROVE  \E found : /\ Moves(t, task[t].at + 1, "scan", found, task[t].pend)
                      /\ Named(found)
<1> DEFINE A == Attributed(t, map)
           W == Where(scanner_of(t) = "inventory", {<<"provenance_source", source>>})
<1>1. task' = [task EXCEPT ![t].found = @ \cup A \cup W, ![t].phase = "scan", ![t].at = @ + 1,
                           ![t].batch = none]
  BY DEF Resolved
<1>2. Named(task[t].found)
  BY DEF ScanInv, TaskInv
<1>3. (\A f \in A : f[1] = "package") /\ (\A f \in W : f[1] = "provenance_source")
  BY DEF Attributed, Where
<1> HIDE DEF A, W
<1>4. Named(task[t].found \cup A \cup W)
  BY <1>2, <1>3 DEF Named
<1>5. Moves(t, task[t].at + 1, "scan", task[t].found \cup A \cup W, task[t].pend)
  <2>1. /\ task = [u \in Tasks |-> task[u]]
        /\ DOMAIN task[t] = {"at", "phase", "found", "pend", "ask", "batch"}
    BY DEF ScanInv, TaskInv
  <2>2. /\ task' = [u \in Tasks |-> task'[u]]
        /\ \A u \in Tasks \ {t} : task'[u] = task[u]
    BY <1>1, <2>1
  <2>3. DOMAIN task'[t] = DOMAIN task[t]
    BY <1>1, <2>1
  <2>4. task'[t].found = task[t].found \cup A \cup W
    BY <1>1, <2>1
  <2>5. task'[t].phase = "scan" /\ task'[t].pend = task[t].pend
    BY <1>1, <2>1
  <2>6. task'[t].at = task[t].at + 1
    BY <1>1, <2>1
  <2> QED BY <2>2, <2>3, <2>4, <2>5, <2>6 DEF Moves
<1> QED BY <1>4, <1>5

(* The memo answers, or a batch is left to ask (resolve_batch). *)
LEMMA LookUpStep == ASSUME ScanInv, NEW t \in Tasks, LookUp(t) PROVE ScanInv'
<1> DEFINE map == KnownOf(memo.known, task[t].ask)
           missing == task[t].ask \ DOMAIN memo.known
           batch == [map |-> map, missing |-> missing, cached |-> memo.source]
<1>1. /\ task[t].phase = "lookup"
      /\ \/ task' = Resolved(t, map, memo.source)
         \/ task' = [task EXCEPT ![t].phase = "query", ![t].batch = batch]
      /\ host' = host /\ sink' = sink /\ said' = said /\ runner' = runner
  BY DEF LookUp
<1> HIDE DEF map, batch
<1>2. /\ Named(task[t].found) /\ task[t].at \in Nat \ {0} /\ task[t].pend \subseteq Warning
  BY DEF ScanInv, TaskInv
<1>3. SinkInv' /\ task[t].phase \notin Ended
  BY <1>1, SinkUnchanged DEF ScanInv, Ended
<1>4. CASE task' = Resolved(t, map, memo.source)
  <2>1. task[t].at + 1 \in Nat \ {0}
    BY <1>2
  <2> QED BY <1>1, <1>2, <1>3, <1>4, <2>1, ResolvedFacts, MoveKeepsInv
<1>5. CASE task' = [task EXCEPT ![t].phase = "query", ![t].batch = batch]
  <2>1. Moves(t, task[t].at, "query", task[t].found, task[t].pend)
    BY <1>5 DEF Moves, ScanInv, TaskInv
  <2> QED BY <1>1, <1>2, <1>3, <2>1, MoveKeepsInv
<1> QED BY <1>1, <1>4, <1>5

(* The package database answers, with warnings of its own (resolve_batch_uncached). *)
LEMMA QueryStep == ASSUME ScanInv, NEW t \in Tasks, Query(t) PROVE ScanInv'
<1>1. PICK failing :
        LET fresh == resolve_batch_uncached(host, task[t].batch.missing, failing) IN
        task' = [task EXCEPT ![t].phase = "remember", ![t].pend = fresh.warns,
                             ![t].batch = [map |-> extended(@.map, fresh.map), missing |-> @.missing,
                                           cached |-> @.cached, fresh |-> fresh]]
  BY DEF Query
<1> DEFINE fresh == resolve_batch_uncached(host, task[t].batch.missing, failing)
           map == extended(task[t].batch.map, fresh.map)
           batch == [map |-> map, missing |-> task[t].batch.missing,
                     cached |-> task[t].batch.cached, fresh |-> fresh]
<1>2. /\ task[t].phase = "query"
      /\ host' = host /\ sink' = sink /\ said' = said /\ runner' = runner
  BY DEF Query
<1>3. fresh.warns \subseteq Warning
  BY QueryWarns
<1>4. task' = [task EXCEPT ![t].phase = "remember", ![t].pend = fresh.warns, ![t].batch = batch]
  BY <1>1 DEF ScanInv, TaskInv
<1> HIDE DEF fresh, batch
<1>5. Moves(t, task[t].at, "remember", task[t].found, fresh.warns)
  BY <1>4 DEF Moves, ScanInv, TaskInv
<1>6. Named(task[t].found) /\ task[t].at \in Nat \ {0}
  BY DEF ScanInv, TaskInv
<1>7. SinkInv' /\ task[t].phase \notin Ended
  BY <1>2, SinkUnchanged DEF ScanInv, Ended
<1> QED BY <1>2, <1>3, <1>5, <1>6, <1>7, MoveKeepsInv

(* The answers are remembered and the batch is resolved (resolve_batch). *)
LEMMA RememberStep == ASSUME ScanInv, NEW t \in Tasks, Remember(t) PROVE ScanInv'
<1>1. /\ task[t].phase = "remember"
      /\ \E map, source : task' = Resolved(t, map, source)
      /\ host' = host /\ sink' = sink /\ said' = said /\ runner' = runner
  BY DEF Remember
<1>2. PICK map, source : task' = Resolved(t, map, source)
  BY <1>1
<1>3. task[t].at + 1 \in Nat \ {0} /\ task[t].pend \subseteq Warning
  BY DEF ScanInv, TaskInv
<1>4. SinkInv' /\ task[t].phase \notin Ended
  BY <1>1, SinkUnchanged DEF ScanInv, Ended
<1> QED BY <1>1, <1>2, <1>3, <1>4, ResolvedFacts, MoveKeepsInv

(* A task returns what it holds. *)
LEMMA ReturnsStep == ASSUME ScanInv, NEW t \in Tasks, Returns(t) PROVE ScanInv'
<1>1. /\ task[t].phase = "scan" /\ task' = [task EXCEPT ![t].phase = "returned"]
      /\ host' = host /\ sink' = sink /\ said' = said /\ runner' = runner
  BY DEF Returns
<1>2. Moves(t, task[t].at, "returned", task[t].found, task[t].pend)
  BY <1>1 DEF Moves, ScanInv, TaskInv
<1>3. /\ Named(task[t].found) /\ task[t].at \in Nat \ {0} /\ task[t].pend \subseteq Warning
  BY DEF ScanInv, TaskInv
<1>4. SinkInv' /\ task[t].phase \notin Ended
  BY <1>1, SinkUnchanged DEF ScanInv, Ended
<1> QED BY <1>1, <1>2, <1>3, <1>4, MoveKeepsInv

(* A task that panics holds nothing any more (the JoinError of run_local_scan_async). *)
LEMMA PanicsStep == ASSUME ScanInv, NEW t \in Tasks, Panics(t) PROVE ScanInv'
<1>1. /\ task[t].phase \notin Ended
      /\ task' = [task EXCEPT ![t].phase = "panicked", ![t].found = {}, ![t].pend = {},
                              ![t].batch = none]
      /\ host' = host /\ sink' = sink /\ said' = said /\ runner' = runner
  BY DEF Panics
<1>2. Moves(t, task[t].at, "panicked", {}, {})
  BY <1>1 DEF Moves, ScanInv, TaskInv
<1>3. Named({}) /\ task[t].at \in Nat \ {0}
  BY DEF ScanInv, TaskInv, Named
<1>4. SinkInv'
  BY <1>1, SinkUnchanged DEF ScanInv
<1> QED BY <1>1, <1>2, <1>3, <1>4, MoveKeepsInv

(* The runner's steps leave the tasks alone. *)
LEMMA TasksUnchanged ==
    ASSUME ScanInv, host' = host, task' = task, JoinInv', SinkInv'
    PROVE  ScanInv'
BY DEF ScanInv, TaskInv

(* The runner joins tasks that have all ended, and holds the warnings of the links. *)
LEMMA JoinStep == ASSUME ScanInv, Join PROVE ScanInv'
<1> DEFINE found == UNION {task[t].found : t \in Tasks}
           of(list) == {f \in found : f[1] = list}
           net == link_foreign_netns_to_containers(found, of("containers"))
           mnt == link_mount_ns_to_containers(net.found, of("containers"))
           bypass == detect_firewall_bypass(of("containers"), <<"firewall_active", TRUE>> \in found)
           warns == net.warns \cup mnt.warns \cup warn_evaluate_side_effects(found)
<1>1. /\ \A t \in Tasks : task[t].phase \in Ended
      /\ runner.at = "join"
      /\ runner' = [at |-> "linked", found |-> mnt.found \cup bypass, pend |-> warns,
                    failed |-> {t \in Tasks : task[t].phase = "panicked"}]
      /\ host' = host /\ task' = task /\ sink' = sink /\ said' = said
  BY DEF Join
<1>2. Named(found)
  BY DEF ScanInv, TaskInv, Named
<1>3. net.warns = shared(of("containers"), 5) /\ mnt.warns = shared(of("containers"), 6)
  <2>1. \A D, E : Piece(D, E).warns = E
    BY DEF Piece, Asking
  <2> HIDE DEF found, Piece, shared, linked
  <2> QED BY <2>1 DEF link_foreign_netns_to_containers, link_mount_ns_to_containers
<1>4. warns \subseteq Warning
  <2> HIDE DEF found, net, mnt
  <2> QED BY <1>2, <1>3, LinkWarns
<1> HIDE DEF warns, mnt, bypass
<1>5. JoinInv'
  BY <1>1, <1>4 DEF JoinInv, ScanInv
<1>6. SinkInv'
  BY <1>1 DEF SinkInv, ScanInv
<1> QED BY <1>1, <1>5, <1>6, TasksUnchanged

(* A warning of the links goes to the list before it is drained. *)
LEMMA RecordLinksStep == ASSUME ScanInv, RecordLinks PROVE ScanInv'
<1> DEFINE w == CHOOSE x \in runner.pend : TRUE
<1>1. /\ runner.pend # {} /\ runner' = [runner EXCEPT !.pend = @ \ {w}]
      /\ sink' = record(sink, w) /\ said' = said \cup {w}
      /\ host' = host /\ task' = task
  BY DEF RecordLinks
<1>2. w \in runner.pend
  BY <1>1
<1> HIDE DEF w
<1>3. /\ DOMAIN runner = {"at", "found", "failed", "pend"} /\ runner.at = "linked"
      /\ runner.pend \subseteq Warning
  BY <1>1 DEF ScanInv, JoinInv
<1>4. /\ DOMAIN runner' = {"at", "found", "failed", "pend"} /\ runner'.at = "linked"
      /\ runner'.pend = runner.pend \ {w} /\ runner'.failed = runner.failed
  BY <1>1, <1>3
<1>5. JoinInv'
  BY <1>1, <1>3, <1>4 DEF JoinInv, ScanInv
<1>6. SinkInv'
  BY <1>1, <1>2, <1>3, <1>4, RecordKeepsSink DEF ScanInv
<1> QED BY <1>1, <1>5, <1>6, TasksUnchanged

(* The list is emptied into the report (drain_scoped). *)
LEMMA DrainStep == ASSUME ScanInv, Drain PROVE ScanInv'
<1>1. /\ runner.at = "linked" /\ runner.pend = {} /\ runner' = [runner EXCEPT !.at = "done"]
      /\ sink' = <<>> /\ said' = said /\ host' = host /\ task' = task
  BY DEF Drain
<1>2. DOMAIN runner = {"at", "found", "failed", "pend"}
  BY DEF ScanInv, JoinInv
<1>3. /\ DOMAIN runner' = {"at", "found", "failed", "pend"} /\ runner'.at = "done"
      /\ runner'.pend = {} /\ runner'.failed = runner.failed
  BY <1>1, <1>2
<1>4. JoinInv'
  BY <1>1, <1>3 DEF JoinInv, ScanInv
<1>5. sink' \in Seq(Warning) /\ ToSet(sink') = {} /\ Len(sink') = 0
  BY <1>1 DEF ToSet
<1>6. SinkInv'
  BY <1>1, <1>3, <1>5, CapAssumption DEF SinkInv, ScanInv
<1> QED BY <1>1, <1>4, <1>6, TasksUnchanged

(* The inductive invariant: what the tasks hold, what the runner knows of them, and what the
   list of warnings tells (run_local_scan_async, coverage::record). *)
THEOREM ScanInvariance == Spec => []ScanInv
<1>1. Init => ScanInv
  <2> SUFFICES ASSUME Init PROVE ScanInv
    OBVIOUS
  <2>1. /\ host \in Hosts
        /\ task = [t \in Tasks |-> IF t \in host.busy THEN Idle ELSE [Idle EXCEPT !.phase = "returned"]]
        /\ sink = <<>> /\ said = {}
        /\ runner = [at |-> "join", found |-> {}, failed |-> {}, pend |-> {}]
    BY DEF Init
  <2>2. task = [t \in Tasks |-> task[t]]
    BY <2>1
  <2>3. ASSUME NEW t \in Tasks PROVE TaskInv(t)
    BY <2>1 DEF TaskInv, Idle, Named
  <2>4. JoinInv
    BY <2>1 DEF JoinInv
  <2>5. sink \in Seq(Warning) /\ ToSet(sink) = {} /\ Len(sink) = 0
    BY <2>1 DEF ToSet
  <2>6. SinkInv
    BY <2>1, <2>5, CapAssumption DEF SinkInv
  <2> QED BY <2>1, <2>2, <2>3, <2>4, <2>6 DEF ScanInv
<1>2. ScanInv /\ [Next]_vars => ScanInv'
  <2> SUFFICES ASSUME ScanInv, [Next]_vars PROVE ScanInv'
    OBVIOUS
  <2>1. CASE UNCHANGED vars
    <3>1. /\ host' = host /\ task' = task /\ sink' = sink /\ said' = said /\ runner' = runner
      BY <2>1 DEF vars
    <3> QED BY <3>1 DEF ScanInv, TaskInv, JoinInv, SinkInv
  <2>2. ASSUME NEW t \in Tasks, Step(t) \/ Panics(t) PROVE ScanInv'
    BY <2>2, ScanStep, RecordStep, RecordedStep, LookUpStep, QueryStep, RememberStep, ReturnsStep,
       PanicsStep DEF Step
  <2> QED BY <2>1, <2>2, JoinStep, RecordLinksStep, DrainStep DEF Next
<1> QED BY <1>1, <1>2, PTL DEF Spec

-------------------------------------------------------------------------------
(* The refinement.  A panic is met when it happens, a warning when it is recorded. *)
Met == said \cup Panicked

(* What is met is warnings and names of tasks. *)
LEMMA MetIsWarning ==
    /\ ScanInv => Met \subseteq Warning
    /\ ScanInv' => Met' \subseteq Warning
<1>1. \A t \in Tasks : <<t, "panicked">> \in Warning
  BY WordAssumption DEF Warning
<1> QED BY <1>1 DEF Met, Panicked, ScanInv, SinkInv

(* A step of a task meets a gap or nothing. *)
LEMMA TaskMeets ==
    ASSUME ScanInv, ScanInv', NEW t \in Tasks, Step(t) \/ Panics(t)
    PROVE  Met \subseteq Met' /\ runner.at = "join" /\ runner' = runner
<1>1. task[t].phase \notin Ended /\ runner' = runner /\ said \subseteq said'
  BY DEF Step, Scan, Record, Recorded, LookUp, Query, Remember, Returns, Panics, Ended
<1>2. runner.at = "join"
  BY <1>1 DEF ScanInv, JoinInv
<1>3. ASSUME NEW u \in Tasks, u # t PROVE task'[u] = task[u]
  BY <1>3 DEF Step, Scan, Record, Recorded, LookUp, Query, Remember, Returns, Panics, Resolved,
              ScanInv
<1>4. Panicked \subseteq Panicked'
  <2>1. \A u \in Tasks : task[u].phase = "panicked" => task'[u].phase = "panicked"
    BY <1>1, <1>3 DEF Ended
  <2> QED BY <2>1 DEF Panicked
<1> QED BY <1>1, <1>2, <1>4 DEF Met

(* What the report tells: all that was met, or that there is more. *)
LEMMA DrainDelivers ==
    ASSUME ScanInv, Drain
    PROVE  /\ Told' \in [told : SUBSET Warning, more : BOOLEAN]
           /\ Told'.told \subseteq Met
           /\ Told'.told # Met => Told'.more
           /\ Met' = Met /\ runner.at # "done" /\ runner'.at = "done"
<1> DEFINE failed == {<<t, "panicked">> : t \in runner.failed}
           told == (ToSet(sink) \ {CapReached}) \cup failed
<1>1. /\ report' = [found |-> runner.found, failed_scanners |-> runner.failed,
                    coverage_warnings |-> ToSet(sink)]
      /\ said' = said /\ task' = task /\ runner.at = "linked"
      /\ runner' = [runner EXCEPT !.at = "done"]
  BY DEF Drain
<1>2. Told' = [told |-> told, more |-> CapReached \in ToSet(sink)]
  BY <1>1 DEF Told
<1>3. failed = Panicked
  BY <1>1 DEF Panicked, ScanInv, JoinInv
<1>4. /\ ToSet(sink) \subseteq said \cup {CapReached}
      /\ said \subseteq ToSet(sink) \/ CapReached \in ToSet(sink)
  BY <1>1 DEF ScanInv, SinkInv
<1> HIDE DEF failed
<1>5. told \subseteq Met /\ (told # Met => CapReached \in ToSet(sink))
  BY <1>3, <1>4 DEF Met
<1>6. Met \subseteq Warning
  BY MetIsWarning
<1>7. Met' = Met
  BY <1>1 DEF Met, Panicked
<1>8. runner.at # "done" /\ runner'.at = "done"
  BY <1>1 DEF ScanInv, JoinInv
<1> DEFINE more == CapReached \in ToSet(sink)
<1>9. more \in BOOLEAN /\ Told' = [told |-> told, more |-> more] /\ (told # Met => more)
  BY <1>2, <1>5
<1> HIDE DEF told, more
<1>10. Told' \in [told : SUBSET Warning, more : BOOLEAN] /\ Told'.told = told /\ Told'.more = more
  BY <1>5, <1>6, <1>9
<1> QED BY <1>5, <1>7, <1>8, <1>9, <1>10

(* The local scan implements what it promises about its gaps: every step of a task, of the
   runner or of a panic meets gaps before the report is delivered, delivers it, or changes
   neither (run_local_scan_async, coverage::record, drain_scoped). *)
THEOREM ScanRefinement == Spec => ImplementsContract
<1>1. Init => Contract!Init
  <2> SUFFICES ASSUME Init PROVE Contract!Init
    OBVIOUS
  <2>1. said = {} /\ runner.at = "join"
    BY DEF Init
  <2>2. \A t \in Tasks : task[t].phase # "panicked"
    BY DEF Init, Idle
  <2> QED BY <2>1, <2>2 DEF Contract!Init, Panicked
<1>2. ScanInv /\ ScanInv' /\ [Next]_vars => [Contract!Next]_(Contract!vars)
  <2> SUFFICES ASSUME ScanInv, ScanInv', [Next]_vars PROVE [Contract!Next]_(Contract!vars)
    OBVIOUS
  <2>1. Met \subseteq Warning /\ Met' \subseteq Warning
    BY MetIsWarning
  <2>2. CASE UNCHANGED vars
    BY <2>2 DEF vars, Contract!vars, Panicked, Told
  <2>3. ASSUME runner.at # "done", runner'.at # "done", Met \subseteq Met'
        PROVE  Contract!Meet
    BY <2>1, <2>3 DEF Contract!Meet, Met
  <2>4. ASSUME NEW t \in Tasks, Step(t) \/ Panics(t) PROVE Contract!Meet
    BY <2>3, <2>4, TaskMeets
  <2>5. CASE Join
    <3>1. runner.at = "join" /\ runner'.at = "linked" /\ said' = said /\ task' = task
      BY <2>5 DEF Join
    <3>2. Met' = Met
      BY <3>1 DEF Met, Panicked
    <3> QED BY <2>3, <3>1, <3>2 DEF Contract!Next
  <2>6. CASE RecordLinks
    <3>1. runner.pend # {} /\ said \subseteq said' /\ task' = task
      BY <2>6 DEF RecordLinks
    <3>2. runner.at = "linked" /\ runner'.at = runner.at
      BY <2>6, <3>1 DEF RecordLinks, ScanInv, JoinInv
    <3>3. Met \subseteq Met'
      BY <3>1 DEF Met, Panicked
    <3> QED BY <2>3, <3>2, <3>3 DEF Contract!Next
  <2>7. CASE Drain
    <3>1. Contract!Deliver
      BY <2>7, DrainDelivers DEF Contract!Deliver, Contract!Report, Met
    <3> QED BY <3>1 DEF Contract!Next
  <2> QED BY <2>2, <2>4, <2>5, <2>6, <2>7 DEF Next, Contract!Next
<1> QED BY <1>1, <1>2, ScanInvariance, PTL DEF Spec, ImplementsContract, Contract!Spec

-------------------------------------------------------------------------------
(* What the scanners may return, and what they count. *)

(* A least counterexample, for induction over the natural numbers. *)
LEMMA LeastNumber ==
    ASSUME NEW T \in SUBSET Nat, T # {}
    PROVE  \E n \in T : \A m \in T : n <= m
<1>1. \E n \in T : \A m \in T : ~(<<m, n>> \in OpToRel(<, Nat))
  BY NatLessThanWellFounded, WFMin
<1>2. PICK n \in T : \A m \in T : ~(<<m, n>> \in OpToRel(<, Nat))
  BY <1>1
<1>3. \A m \in T : ~(m < n)
  BY <1>2 DEF OpToRel
<1> QED BY <1>3

(* The elements of a finite set, in some order, each once. *)
LEMMA SetToSeqFacts ==
    ASSUME NEW S, IsFiniteSet(S)
    PROVE  /\ SetToSeq(S) \in Seq(S) /\ Len(SetToSeq(S)) = Cardinality(S)
           /\ DOMAIN SetToSeq(S) = 1 .. Cardinality(S) /\ Cardinality(S) \in Nat
           /\ ToSet(SetToSeq(S)) = S
<1> DEFINE n == Cardinality(S)
<1>1. n \in Nat /\ ExistsBijection(1 .. n, S)
  BY FS_CardinalityType, FS_CountingElements
<1>2. PICK g \in Bijection(1 .. n, S) : TRUE
  BY <1>1 DEF ExistsBijection
<1>3. g \in [1 .. n -> S] /\ IsInjective(g)
  BY <1>2 DEF Bijection, Injection, IsInjective
<1>4. SetToSeq(S) \in [1 .. n -> S] /\ IsInjective(SetToSeq(S))
  BY <1>3 DEF SetToSeq
<1> DEFINE f == SetToSeq(S)
<1> HIDE DEF f, n
<1>5. f \in Seq(S) /\ Len(f) = n /\ DOMAIN f = 1 .. n
  BY <1>1, <1>4 DEF f, n
<1>6. f \in Injection(1 .. n, S)
  BY <1>4 DEF Injection, IsInjective, f, n
<1>7. {f[i] : i \in 1 .. n} = S
  <2>1. Cardinality(1 .. n) = n
    BY <1>1, FS_Interval
  <2>2. f \in Surjection(1 .. n, S)
    BY <1>6, <2>1, FS_Injection DEF n
  <2> QED BY <1>4, <2>2 DEF Surjection, f, n
<1> QED BY <1>1, <1>5, <1>7 DEF ToSet, f, n

-------------------------------------------------------------------------------
(* What scanners return.  The lists that only one of them fills, or the runner looks into. *)
Special == {"package", "mapped_by_pids", "foreign_netns_listeners", "mount_namespace_anomalies", "root_login"}
Ordinary(F) == \A f \in F : f[1] \notin Special

(* Entries of no special list stay so under union, condition and restriction. *)
LEMMA OrdinaryUnion ==
    /\ \A F, G : Ordinary(F) /\ Ordinary(G) => Ordinary(F \cup G)
    /\ \A F, b : Ordinary(F) => Ordinary(Where(b, F))
    /\ \A FF : (\A F \in FF : Ordinary(F)) => Ordinary(UNION FF)
    /\ \A F, G : Ordinary(F) /\ G \subseteq F => Ordinary(G)
BY DEF Ordinary, Where

(* Where keeps all or nothing. *)
LEMMA WherePart == \A b, F : Where(b, F) \subseteq F
BY DEF Where

(* A piece is read back as it was made. *)
LEMMA PieceFields ==
    /\ \A F, W : Piece(F, W).found = F /\ Piece(F, W).warns = W /\ Piece(F, W).ask = {}
    /\ \A F, W, A : Asking(F, W, A).found = F /\ Asking(F, W, A).warns = W /\ Asking(F, W, A).ask = A
    /\ \A PP : /\ All(PP).found = UNION {p.found : p \in PP}
               /\ All(PP).warns = UNION {p.warns : p \in PP}
BY DEF Piece, Asking, All

(* A list at its cap is a part of what was met. *)
LEMMA CappedFacts ==
    ASSUME NEW F, NEW max, NEW name
    PROVE  /\ Capped(F, max, name).found \subseteq F
           /\ Capped(F, max, name).warns = {} => Capped(F, max, name).found = F
<1> DEFINE order == SetToSeq(F)
           more == Cardinality(F) > max
           first == {f \in F : \E i \in 1..max : order[i] = f}
<1>1. /\ Capped(F, max, name).found = IF more THEN first ELSE F
      /\ Capped(F, max, name).warns = Where(more, {<<name, "cap">>})
  BY PieceFields, Zenon DEF Capped
<1>2. first \subseteq F
  OBVIOUS
<1>3. more => Where(more, {<<name, "cap">>}) # {}
  BY DEF Where
<1> HIDE DEF first, more, Capped, Where
<1> QED BY <1>1, <1>2, <1>3

(* Only what is read of sshd says how root may log in. *)
LEMMA AccessHeads ==
    ASSUME NEW h, NEW f \in AccessScan(h).found, f[1] \in Special
    PROVE  f[1] = "root_login" /\ f \in scan_sshd(h).found
<1> USE DEF Ordinary, Special
<1>1. ASSUME NEW g \in scan_sshd(h).found PROVE g[1] \notin Special \/ g[1] = "root_login"
  <2>1. ASSUME NEW lines, NEW default, NEW x \in sshd_facts(h, lines, default)
        PROVE  x[1] \notin Special \/ x[1] = "root_login"
    <3>1. \A l : l \in {m \in ToSet(lines) : m[1] \in SSHD_SENSITIVE /\ ~neutral(m[1], m[2])} =>
             <<"sshd_directives", l[1], assess_writability(h, l[2])>>[1] \notin Special
      OBVIOUS
    <3> QED BY <2>1, <3>1 DEF sshd_facts, Where
  <2>2. CASE h.sshd
    <3>1. scan_sshd(h).found = sshd_T(h)
      BY <2>2, PieceFields DEF scan_sshd
    <3> QED BY <2>1, <3>1 DEF sshd_T
  <2>3. CASE ~h.sshd
    <3> DEFINE r == read_file_capped_regular(h, "sshd_config")
               lines == FlattenSeq([i \in DOMAIN r.lines |-> fallback_lines(h, r.lines[i])])
               facts == sshd_facts(h, before_match(lines), "yes")
               F == {x \in facts : x[1] # "root_login" \/ x[2] = "no"}
                     \cup Where(<<"root_login", "no">> \notin facts, {<<"root_login", "yes">>})
    <3>1. fallback_parse_main_config(h).found = F
      BY PieceFields, Zenon DEF fallback_parse_main_config
    <3>2. \A x \in facts : x[1] \notin Special \/ x[1] = "root_login"
      BY <2>1
    <3> HIDE DEF facts
    <3>3. \A x \in F : x[1] \notin Special \/ x[1] = "root_login"
      BY <3>2 DEF Where
    <3>4. scan_sshd(h).found = F
      BY <2>3, <3>1 DEF scan_sshd
    <3> QED BY <3>3, <3>4
  <2> QED BY <2>2, <2>3
<1>2. Ordinary(sudoers_nopasswd_all(h).found)
  <2>1. \E F, W : sudoers_nopasswd_all(h) = Piece({<<"sudoers_nopasswd_all", e[2]>> : e \in F}, W)
    BY Zenon DEF sudoers_nopasswd_all
  <2> QED BY <2>1, PieceFields
<1>3. Ordinary(gather_sudo_nopasswd(h).found)
  BY PieceFields DEF gather_sudo_nopasswd
<1>4. Ordinary(shell_users(h).found)
  BY PieceFields DEF shell_users
<1>5. Ordinary(gather_access_alignment(h).found)
  BY PieceFields DEF gather_access_alignment
<1>6. Ordinary(gather_sysctl_issues(h).found)
  BY PieceFields DEF gather_sysctl_issues
<1> DEFINE PP == {scan_sshd(h), sudoers_nopasswd_all(h), gather_sudo_nopasswd(h), shell_users(h),
                  gather_access_alignment(h), gather_sysctl_issues(h)}
<1>7. AccessScan(h) = All(PP)
  BY Zenon DEF AccessScan
<1>8. AccessScan(h).found = UNION {q.found : q \in PP}
  <2> HIDE DEF PP
  <2> QED BY <1>7, PieceFields
<1>9. PICK q \in PP : f \in q.found
  <2> HIDE DEF PP
  <2> QED BY <1>8
<1> QED BY <1>1, <1>2, <1>3, <1>4, <1>5, <1>6, <1>9

(* The persistence scanners. *)
LEMMA PersistenceHeads ==
    ASSUME NEW h
    PROVE  /\ Ordinary(gather_kernel_facts(h).found) /\ Ordinary(gather_one_way_switches(h).found)
           /\ Ordinary(scan_exec_provenance(h).found) /\ Ordinary(scan_ld_so_conf(h).found)
           /\ Ordinary(scan_generators(h).found) /\ Ordinary(scan_pam(h).found)
           /\ Ordinary(gather_cpu_vulnerabilities(h).found)
<1> USE DEF Ordinary, Special
<1>1. Ordinary(gather_kernel_facts(h).found)
  BY PieceFields DEF gather_kernel_facts
<1>2. Ordinary(gather_one_way_switches(h).found)
  <2>1. \E F, W : gather_one_way_switches(h) =
            Piece({<<"one_way_switches", p, number(read_procfs_capped(h, p))>> : p \in F}, W)
    BY Zenon DEF gather_one_way_switches
  <2> QED BY <2>1, PieceFields
<1>3. Ordinary(gather_cpu_vulnerabilities(h).found)
  <2>1. \E F, W : gather_cpu_vulnerabilities(h) =
            Piece({<<"cpu_vulnerabilities", p, read_procfs_capped(h, p).lines>> : p \in F}, W)
    BY Zenon DEF gather_cpu_vulnerabilities
  <2> QED BY <2>1, PieceFields
<1>4. Ordinary(scan_ld_so_conf(h).found)
  <2>1. \E F, W : scan_ld_so_conf(h) = Piece({<<"ld_so_conf_injections", d>> : d \in F}, W)
    BY Zenon DEF scan_ld_so_conf
  <2> QED BY <2>1, PieceFields
<1>5. Ordinary(scan_generators(h).found)
  <2> DEFINE dirs == DOMAIN GENERATOR_DIRS
             seen == All(UNION {{inspect_entry(h, p, GENERATOR_DIRS[d]) : p \in dir_entries(h, d)} :
                                 d \in dirs})
             F == seen.found \cup UNION {inspect_dir(h, d, GENERATOR_DIRS[d]) : d \in dirs}
  <2>0. \E W, A : scan_generators(h) = Asking(Capped(F, MAX_GENERATORS, "generators").found, W, A)
    BY Zenon DEF scan_generators
  <2>1. scan_generators(h).found = Capped(F, MAX_GENERATORS, "generators").found
    BY <2>0, PieceFields
  <2>2. \A p, o : Ordinary(inspect_entry(h, p, o).found) /\ Ordinary(inspect_dir(h, p, o))
    <3> TAKE p, o
    <3>1. \E b, x, y, W : inspect_entry(h, p, o) = Piece(Where(b, {<<"generators", p, o, x, y>>}), W)
      BY Zenon DEF inspect_entry
    <3>2. PICK b, x, y, W : inspect_entry(h, p, o) = Piece(Where(b, {<<"generators", p, o, x, y>>}), W)
      BY <3>1
    <3>3. inspect_entry(h, p, o).found \subseteq {<<"generators", p, o, x, y>>}
      BY <3>2, PieceFields, WherePart
    <3>4. inspect_dir(h, p, o) \subseteq {<<"generators", p, o, "search_dir", FALSE>>}
      BY WherePart DEF inspect_dir
    <3>5. Ordinary({<<"generators", p, o, x, y>>})
      OBVIOUS
    <3>6. Ordinary({<<"generators", p, o, "search_dir", FALSE>>})
      OBVIOUS
    <3>7. Ordinary(inspect_entry(h, p, o).found)
      BY <3>3, <3>5
    <3>8. Ordinary(inspect_dir(h, p, o))
      BY <3>4, <3>6
    <3> QED BY <3>7, <3>8
  <2>3. Ordinary(seen.found)
    <3> HIDE DEF Ordinary, dirs, inspect_entry
    <3>1. \A x \in UNION {{inspect_entry(h, p, GENERATOR_DIRS[d]) : p \in dir_entries(h, d)} :
                                 d \in dirs} : Ordinary(x.found)
      BY <2>2
    <3> QED BY <3>1, PieceFields DEF Ordinary
  <2>4. Ordinary(F)
    BY <2>2, <2>3
  <2> HIDE DEF F
  <2> QED BY <2>1, <2>4, CappedFacts
<1>6. Ordinary(scan_pam(h).found)
  <2> DEFINE services == {p \in dir_entries(h, "pam.d") : is_file(h, p)}
             read(p) == read_file_capped_regular(h, p)
             slots == UNION {pam_entry("Config", h, p) :
                            p \in {q \in services : assess_writability(h, q) # "RootOnly"}}
             lines == UNION {ToSet(read(p).lines) : p \in services}
             F == slots \cup UNION {pam_line(h, l) : l \in lines}
  <2>0. \/ \E W : scan_pam(h) = Piece({}, W)
        \/ \E W, A : scan_pam(h) = Asking(Capped(F, MAX_PAM_FINDINGS, "pam").found, W, A)
    BY Zenon DEF scan_pam
  <2>1. \/ scan_pam(h).found = {}
        \/ scan_pam(h).found = Capped(F, MAX_PAM_FINDINGS, "pam").found
    BY <2>0, PieceFields
  <2>2. \A kind, p : Ordinary(pam_entry(kind, h, p))
    BY DEF pam_entry
  <2>3. \A l : Ordinary(pam_line(h, l))
    BY <2>2 DEF pam_line, Where
  <2>4. Ordinary(F)
    <3> HIDE DEF services
    <3> QED BY <2>2, <2>3
  <2> HIDE DEF F
  <2> QED BY <2>1, <2>4, CappedFacts
<1>7. Ordinary(scan_exec_provenance(h).found)
  <2> DEFINE all == UNION {{scan_service_file(h, u, UNIT_DIRS[d]) : u \in units_of(h, d)} :
                                d \in DOMAIN UNIT_DIRS}
             F == All(all).found \cup scan_cron_files(h).found
  <2>0. \E W, A : scan_exec_provenance(h) = Asking(Capped(F, MAX_EXEC_FINDINGS, "exec").found, W, A)
    BY Zenon DEF scan_exec_provenance
  <2>1. scan_exec_provenance(h).found = Capped(F, MAX_EXEC_FINDINGS, "exec").found
    BY <2>0, PieceFields
  <2>2. \A p, u, b : exec_entry(h, p, u, b)[1] = "exec_start"
    BY DEF exec_entry
  <2>3. \A u, s : Ordinary(scan_service_file(h, u, s).found)
    BY <2>2, PieceFields DEF scan_service_file
  <2>4. Ordinary(scan_cron_files(h).found)
    BY <2>2, PieceFields DEF scan_cron_files
  <2>5. \A x \in all : Ordinary(x.found)
    <3> HIDE DEF Ordinary
    <3> QED BY <2>3
  <2>6. Ordinary(All(all).found)
    <3> HIDE DEF all
    <3> QED BY <2>5, PieceFields
  <2> HIDE DEF all
  <2>7. Ordinary(F)
    BY <2>4, <2>6
  <2> HIDE DEF F
  <2> QED BY <2>1, <2>7, CappedFacts
<1> QED BY <1>1, <1>2, <1>3, <1>4, <1>5, <1>6, <1>7

(* The inventories and the security task's other scanners. *)
LEMMA InventoryHeads ==
    ASSUME NEW h
    PROVE  /\ Ordinary(scan_mount_masking(h).found) /\ Ordinary(gather_binary_inventory(h).found)
           /\ Ordinary(scan_account_hygiene(h).found) /\ Ordinary(scan_systemd_hardening(h).found)
           /\ Ordinary(gather_kernel_taint(h).found) /\ Ordinary(gather_confinement(h).found)
           /\ Ordinary(gather_kernel_modules(h).found) /\ Ordinary(gather_ftrace_hooks(h).found)
           /\ Ordinary(scan_immutable_anchors(h).found)
<1> USE DEF Ordinary, Special
<1>1. Ordinary(scan_mount_masking(h).found)
  <2> DEFINE F == UNION {classify_line(l) : l \in ToSet(read_procfs_capped(h, "mountinfo").lines)}
  <2>1. scan_mount_masking(h).found = Capped(F, MAX_MOUNT_FINDINGS, "mountinfo").found
    BY PieceFields, Zenon DEF scan_mount_masking
  <2>2. \A l : Ordinary(classify_line(l))
    BY DEF classify_line, Where
  <2>3. Ordinary(F)
    BY <2>2
  <2> HIDE DEF F
  <2> QED BY <2>1, <2>3, CappedFacts
<1>2. Ordinary(gather_binary_inventory(h).found)
  <2> DEFINE w == walk_scannable_dirs(h)
             J(p) == {<<"file_capabilities", p, a[2]>> : a \in {b \in lines_in(h, {p}) : b[1] = "caps"}}
             F(S, T) == {<<"setuid_files", p>> : p \in S} \cup UNION {J(p) : p \in T}
  <2>1. \E S, W, A : gather_binary_inventory(h) = Asking(F(S, w.files), W, A)
    BY Zenon DEF gather_binary_inventory
  <2>2. \A p : Ordinary(J(p))
    OBVIOUS
  <2> HIDE DEF J, w
  <2>3. \A S : Ordinary(F(S, w.files))
    BY <2>2
  <2> HIDE DEF F
  <2>4. \A X, W, A : Asking(X, W, A).found = X
    BY PieceFields
  <2> QED BY <2>1, <2>3, <2>4
<1>3. Ordinary(scan_account_hygiene(h).found)
  <2>1. \/ \E W : scan_account_hygiene(h) = Piece({}, W)
        \/ \E A, B, C, D, E, W : scan_account_hygiene(h) =
              Piece({<<"duplicate_uid_zero", u[2]>> : u \in A}
                    \cup {<<"system_accounts_with_shell", u[2]>> : u \in B}
                    \cup {<<"empty_password_users", l[2]>> : l \in C}
                    \cup {<<"weak_password_hashes", l[2]>> : l \in D}
                    \cup {<<"file_permission_issues", p>> : p \in E}, W)
    BY Zenon DEF scan_account_hygiene
  <2>2. CASE \E W : scan_account_hygiene(h) = Piece({}, W)
    BY <2>2, PieceFields
  <2>3. ASSUME NEW A, NEW B, NEW C, NEW D, NEW E
        PROVE  Ordinary({<<"duplicate_uid_zero", u[2]>> : u \in A}
                    \cup {<<"system_accounts_with_shell", u[2]>> : u \in B}
                    \cup {<<"empty_password_users", l[2]>> : l \in C}
                    \cup {<<"weak_password_hashes", l[2]>> : l \in D}
                    \cup {<<"file_permission_issues", p>> : p \in E})
    OBVIOUS
  <2>4. CASE \E A, B, C, D, E, W : scan_account_hygiene(h) =
              Piece({<<"duplicate_uid_zero", u[2]>> : u \in A}
                    \cup {<<"system_accounts_with_shell", u[2]>> : u \in B}
                    \cup {<<"empty_password_users", l[2]>> : l \in C}
                    \cup {<<"weak_password_hashes", l[2]>> : l \in D}
                    \cup {<<"file_permission_issues", p>> : p \in E}, W)
    <3>1. PICK A, B, C, D, E, W : scan_account_hygiene(h) =
              Piece({<<"duplicate_uid_zero", u[2]>> : u \in A}
                    \cup {<<"system_accounts_with_shell", u[2]>> : u \in B}
                    \cup {<<"empty_password_users", l[2]>> : l \in C}
                    \cup {<<"weak_password_hashes", l[2]>> : l \in D}
                    \cup {<<"file_permission_issues", p>> : p \in E}, W)
      BY <2>4
    <3> DEFINE G == {<<"duplicate_uid_zero", u[2]>> : u \in A}
                    \cup {<<"system_accounts_with_shell", u[2]>> : u \in B}
                    \cup {<<"empty_password_users", l[2]>> : l \in C}
                    \cup {<<"weak_password_hashes", l[2]>> : l \in D}
                    \cup {<<"file_permission_issues", p>> : p \in E}
    <3>2. Ordinary(G)
      BY <2>3
    <3> HIDE DEF G
    <3>3. scan_account_hygiene(h).found = G
      BY <3>1, PieceFields DEF G
    <3> QED BY <3>2, <3>3
  <2> QED BY <2>1, <2>2, <2>4
<1>4. Ordinary(scan_systemd_hardening(h).found)
  BY PieceFields DEF scan_systemd_hardening, evaluate_unit, Where
<1>5. Ordinary(gather_kernel_taint(h).found)
  BY PieceFields DEF gather_kernel_taint, decode_taint
<1>6. Ordinary(gather_confinement(h).found)
  BY PieceFields DEF gather_confinement, Where
<1>7. Ordinary(gather_kernel_modules(h).found)
  <2>1. \A a, b, c, d : Ordinary(inventory_of(a, b, c, d).found)
    <3> TAKE a, b, c, d
    <3> DEFINE proc_modules == names_in(a) \cup names_in(d)
               hidden == reconcile(proc_modules, names_in(b), names_in(c) \ PSEUDO_MODULES)
               blind == proc_modules = {} /\ hidden # {}
               F == Where(~blind, {<<"hidden_candidates", m>> : m \in hidden})
    <3>1. \/ \E W : inventory_of(a, b, c, d) = Piece({}, W)
          \/ \E W : inventory_of(a, b, c, d) = Piece(F, W)
      BY Zenon DEF inventory_of
    <3>2. F \subseteq {<<"hidden_candidates", m>> : m \in hidden}
      BY WherePart
    <3> HIDE DEF F, hidden
    <3> QED BY <3>1, <3>2, PieceFields
  <2> QED BY <2>1 DEF gather_kernel_modules
<1>8. Ordinary(gather_ftrace_hooks(h).found)
  <2>1. \E P, F, b, W : \/ gather_ftrace_hooks(h) = Piece({}, W)
                        \/ gather_ftrace_hooks(h) =
                              Piece({<<"syscall_kprobes", l[2]>> : l \in P}
                                    \cup Where(b, {<<"ftrace_hooks", l[2], l[3]>> : l \in F}), W)
    BY Zenon DEF gather_ftrace_hooks
  <2> QED BY <2>1, PieceFields DEF Where
<1>9. Ordinary(scan_immutable_anchors(h).found)
  <2>1. \E F, W : scan_immutable_anchors(h) = Piece({<<"immutable_anchors", a>> : a \in F}, W)
    BY Zenon DEF scan_immutable_anchors
  <2> QED BY <2>1, PieceFields
<1> QED BY <1>1, <1>2, <1>3, <1>4, <1>5, <1>6, <1>7, <1>8, <1>9

(* Containers, sockets and namespaces: the lists the runner links are of triples. *)
Linked == {"foreign_netns_listeners", "mount_namespace_anomalies"}
Triple(f) == f = <<f[1], f[2], f[3]>>

(* Containers, sockets and namespaces: the lists that the runner links hold triples. *)
LEMMA NamespaceHeads ==
    ASSUME NEW h
    PROVE  /\ Ordinary(gather_runtime_topology(h).found)
           /\ \A f \in gather_network_info(h).found :
                 f[1] \notin Special \/ (f[1] = "foreign_netns_listeners" /\ Triple(f))
           /\ \A f \in scan_mount_namespace_anomalies(h).found :
                 f[1] = "mount_namespace_anomalies" /\ Triple(f)
<1> USE DEF Ordinary, Special
<1>1. Ordinary(gather_runtime_topology(h).found)
  <2>1. \A c : Ordinary(inspect_container(c))
    BY DEF inspect_container
  <2>2. \/ \E W : gather_runtime_topology(h) = Piece({}, W)
        \/ \E C, W : gather_runtime_topology(h) = Piece(UNION {inspect_container(c) : c \in C}, W)
    BY Zenon DEF gather_runtime_topology
  <2>3. CASE \E W : gather_runtime_topology(h) = Piece({}, W)
    BY <2>3, PieceFields
  <2>4. CASE \E C, W : gather_runtime_topology(h) = Piece(UNION {inspect_container(c) : c \in C}, W)
    BY <2>1, <2>4, PieceFields
  <2> QED BY <2>2, <2>3, <2>4
<1>2. ASSUME NEW f \in gather_network_info(h).found
      PROVE  f[1] \notin Special \/ (f[1] = "foreign_netns_listeners" /\ Triple(f))
  <2>2. \A x \in report_foreign_netns_listeners(h).found :
            x[1] = "foreign_netns_listeners" /\ Triple(x)
    <3>1. \/ \E W : report_foreign_netns_listeners(h) = Piece({}, W)
          \/ \E K, W : report_foreign_netns_listeners(h) =
                Piece(UNION {{<<"foreign_netns_listeners", ns, s[2]>> : s \in parse_proc_net(h, ns)} :
                            ns \in K}, W)
      BY Zenon DEF report_foreign_netns_listeners
    <3>2. CASE \E W : report_foreign_netns_listeners(h) = Piece({}, W)
      BY <3>2, PieceFields
    <3>3. CASE \E K, W : report_foreign_netns_listeners(h) =
                Piece(UNION {{<<"foreign_netns_listeners", ns, s[2]>> : s \in parse_proc_net(h, ns)} :
                            ns \in K}, W)
      BY <3>3, PieceFields DEF Triple
    <3> QED BY <3>1, <3>2, <3>3
  <2>3. Ordinary(firewall(h).found) 
    BY PieceFields DEF firewall
  <2>4. Ordinary(system_files(h).found)
    BY PieceFields DEF system_files
  <2>5. Ordinary(dns_upstreams(h).found)
    BY PieceFields, WherePart DEF dns_upstreams
  <2>6. Ordinary(certificates(h).found)
    BY PieceFields DEF certificates
  <2>7. Ordinary(listening_ports(h).found)
    <3> DEFINE sockets == IF h.proc_net THEN parse_proc_net(h, h.host_ns) ELSE {}
               owners == attribute_sockets(h, sockets)
               shown == {s \in sockets : \A t \in sockets : t[2] = s[2] => s[1] <= t[1]}
               owner(s) == IF owners[s] = {} THEN "unknown process" ELSE h.proc[Min(owners[s])].exe
    <3>1. \E W : listening_ports(h) = Piece({<<"listening_ports", s[2], owner(s)>> : s \in shown}, W)
      BY Zenon DEF listening_ports
    <3> HIDE DEF owner, shown
    <3> QED BY <3>1, PieceFields
  <2>8. \E x \in {listening_ports(h), report_foreign_netns_listeners(h), firewall(h), system_files(h),
                  dns_upstreams(h), certificates(h)} : f \in x.found
    BY PieceFields DEF gather_network_info
  <2> HIDE DEF Special
  <2> QED BY <2>2, <2>3, <2>4, <2>5, <2>6, <2>7, <2>8
<1>3. ASSUME NEW f \in scan_mount_namespace_anomalies(h).found
      PROVE  f[1] = "mount_namespace_anomalies" /\ Triple(f)
  <2>1. \/ \E W : scan_mount_namespace_anomalies(h) = Piece({}, W)
        \/ \E K, W : scan_mount_namespace_anomalies(h) =
              Piece({<<"mount_namespace_anomalies", p, h.proc[p].mnt_ns>> : p \in K}, W)
    BY Zenon DEF scan_mount_namespace_anomalies
  <2>2. CASE \E W : scan_mount_namespace_anomalies(h) = Piece({}, W)
    BY <2>2, PieceFields
  <2>3. CASE \E K, W : scan_mount_namespace_anomalies(h) =
              Piece({<<"mount_namespace_anomalies", p, h.proc[p].mnt_ns>> : p \in K}, W)
    BY <2>3, PieceFields DEF Triple
  <2> QED BY <2>1, <2>2, <2>3
<1> QED BY <1>1, <1>2, <1>3

(* A count of zero is an observation (count_mapped): every process was looked at. *)
Unmapped(h, path) == \A p \in DOMAIN h.proc : canonical(h, path) \notin h.proc[p].maps

(* A count of zero mappings is an observation: every process was looked at. *)
LEMMA PreloadHeads ==
    ASSUME NEW h, IsFiniteSet(DOMAIN h.proc)
    PROVE  \A f \in scan_ld_preload(h).found :
              \/ f[1] = "preload_injections"
              \/ f[1] = "mapped_by_pids" /\ (f[3] = 0 => Unmapped(h, f[2]))
<1> DEFINE r == read_file_capped_regular(h, "ld.so.preload")
           paths == {l[2] : l \in ToSet(r.lines)}
           counted == {p \in paths : ~hindered(h) \/ mapping(h, p) > 0}
           M == {<<"mapped_by_pids", p, mapping(h, p)>> : p \in counted}
           L == {<<"preload_injections", p, volatile(h, p)>> : p \in paths}
<1>1. /\ \E W, A : scan_ld_preload(h) = Asking(L \cup count_mapped(h, paths).found, W, A)
      /\ \E W : count_mapped(h, paths) = Piece(Where(readable_pids(h) # {}, M), W)
  BY Zenon DEF scan_ld_preload, count_mapped
<1>2. scan_ld_preload(h).found \subseteq L \cup M
  <2> HIDE DEF L, M, paths
  <2> QED BY <1>1, PieceFields, WherePart
<1>3. ASSUME NEW p \in counted, mapping(h, p) = 0 PROVE Unmapped(h, p)
  <2> DEFINE S == {q \in readable_pids(h) : canonical(h, p) \in h.proc[q].read}
  <2>1. ~hindered(h) /\ Cardinality(S) = 0
    <3> HIDE DEF paths
    <3> QED BY <1>3 DEF mapping
  <2>2. IsFiniteSet(S) /\ S \subseteq DOMAIN h.proc
    BY FS_Subset DEF readable_pids
  <2>3. S = {}
    BY <2>1, <2>2, FS_EmptySet
  <2>4. \A q \in DOMAIN h.proc : q \in readable_pids(h) /\ h.proc[q].read = h.proc[q].maps
    BY <2>1 DEF hindered, readable_pids
  <2> QED BY <2>3, <2>4 DEF Unmapped
<1> HIDE DEF paths, counted
<1> QED BY <1>2, <1>3

(* Every entry a scanner returns is of a kind that the runner may trust. *)
Honest(h, f) ==
    /\ f[1] # "package"
    /\ f[1] \in Linked => Triple(f)
    /\ f[1] = "mapped_by_pids" /\ f[3] = 0 => Unmapped(h, f[2])
    /\ f[1] = "root_login" => f \in scan_sshd(h).found
ScannerNames ==
    {"network", "docker", "mount_namespace", "access", "mounts", "inventory", "hygiene",
     "systemd_hardening", "taint", "cpu", "confinement", "kernel_modules", "ftrace", "immutable",
     "kernel_facts", "one_way", "preload", "exec", "ld_so_conf", "generators", "pam"}

(* Every scanner of a task has its piece in what the machine was scanned into. *)
LEMMA NamesOfScanners ==
    /\ \A t \in Tasks : /\ Len(Program[t]) \in Nat /\ DOMAIN Program[t] = 1 .. Len(Program[t])
                        /\ \A i \in DOMAIN Program[t] : Program[t][i] \in ScannerNames
    /\ \A h \in Hosts : /\ DOMAIN Scanned[h] \subseteq ScannerNames
                        /\ \A t \in Tasks : \A i \in DOMAIN Program[t] :
                              /\ Program[t][i] \in DOMAIN Scanned[h]
                              /\ Scanned[h][Program[t][i]] = scan(h, Program[t][i])
<1>1. \A t \in Tasks : /\ Len(Program[t]) \in Nat /\ DOMAIN Program[t] = 1 .. Len(Program[t])
                       /\ \A i \in DOMAIN Program[t] : Program[t][i] \in ScannerNames
  <2>1. Tasks = {"host", "databases", "storage", "packages", "network", "docker", "mount_namespace",
                 "security", "persistence"}
    BY DEF Tasks, Program
  <2>2. ASSUME NEW t \in Tasks
        PROVE  /\ Len(Program[t]) \in Nat /\ DOMAIN Program[t] = 1 .. Len(Program[t])
               /\ \A i \in DOMAIN Program[t] : Program[t][i] \in ScannerNames
    <3>1. CASE t \in {"host", "databases", "storage", "packages"}
      <4>1. Program[t] = <<>>
        BY <3>1 DEF Program
      <4> QED BY <4>1
    <3>2. CASE t \in {"network", "docker", "mount_namespace"}
      <4>1. Program[t] = <<t>>
        BY <3>2 DEF Program
      <4> QED BY <3>2, <4>1 DEF ScannerNames
    <3>3. CASE t = "security"
      <4>1. Program[t] = <<"access", "mounts", "inventory", "hygiene", "systemd_hardening", "taint",
                           "cpu", "confinement", "kernel_modules", "ftrace", "immutable">>
        BY <3>3 DEF Program
      <4> QED BY <4>1 DEF ScannerNames
    <3>4. CASE t = "persistence"
      <4>1. Program[t] = <<"kernel_facts", "one_way", "preload", "exec", "ld_so_conf", "generators",
                           "pam">>
        BY <3>4 DEF Program
      <4> QED BY <4>1 DEF ScannerNames
    <3> QED BY <2>1, <3>1, <3>2, <3>3, <3>4
  <2> QED BY <2>2
<1>2. ASSUME NEW h \in Hosts
      PROVE  /\ DOMAIN Scanned[h] = UNION {ToSet(Program[t]) : t \in Tasks}
             /\ \A s \in DOMAIN Scanned[h] : Scanned[h][s] = run(h, s)
  BY DEF Scanned
<1> HIDE DEF Scanned, ScannerNames, Tasks
<1>3. ASSUME NEW h \in Hosts PROVE DOMAIN Scanned[h] \subseteq ScannerNames
  BY <1>1, <1>2 DEF ToSet
<1>4. ASSUME NEW h \in Hosts, NEW t \in Tasks, NEW i \in DOMAIN Program[t]
      PROVE  Program[t][i] \in DOMAIN Scanned[h]
  BY <1>2 DEF ToSet
<1> QED BY <1>1, <1>2, <1>3, <1>4, ScannersOfTheProgram

(* No scanner fills another scanner's special list, and none counts without looking. *)
LEMMA ScannersHonest ==
    ASSUME NEW h \in Hosts, NEW s \in ScannerNames, NEW f \in scan(h, s).found
    PROVE  Honest(h, f)
<1>1. \A F : Ordinary(F) /\ f \in F => Honest(h, f)
  BY DEF Ordinary, Special, Honest, Linked
<1>2. IsFiniteSet(DOMAIN h.proc)
  BY MachineAssumption DEF Machine
<1>3. CASE s = "preload"
  <2>1. scan(h, s) = scan_ld_preload(h)
    BY <1>3 DEF scan
  <2> QED BY <1>2, <2>1, PreloadHeads DEF Honest, Linked
<1>4. CASE s = "network"
  <2>1. scan(h, s) = gather_network_info(h)
    BY <1>4 DEF scan
  <2> QED BY <2>1, NamespaceHeads DEF Honest, Linked, Special
<1>5. CASE s = "mount_namespace"
  <2>1. scan(h, s) = scan_mount_namespace_anomalies(h)
    BY <1>5 DEF scan
  <2> QED BY <2>1, NamespaceHeads DEF Honest, Linked
<1>7. CASE s = "access"
  <2>1. scan(h, s) = AccessScan(h)
    BY <1>7 DEF scan
  <2>2. f[1] \in Special => f[1] = "root_login" /\ f \in scan_sshd(h).found
    BY <2>1, AccessHeads
  <2> QED BY <2>2 DEF Honest, Linked, Special
<1>6. CASE s \notin {"preload", "network", "mount_namespace", "access"}
  <2>1. Ordinary(scan(h, s).found)
    <3> HIDE DEF Ordinary
    <3> QED BY <1>6, PersistenceHeads, InventoryHeads, NamespaceHeads DEF scan, ScannerNames
  <2> QED BY <1>1, <2>1
<1> QED BY <1>3, <1>4, <1>5, <1>6, <1>7

-------------------------------------------------------------------------------
(* Bounded reads and the package databases: what is missing from an answer that no warning hinders. *)

(* Least and greatest numbers. *)
LEMMA MinFacts ==
    ASSUME NEW S \in SUBSET Nat, S # {}
    PROVE  Min(S) \in S /\ \A y \in S : Min(S) <= y
BY LeastNumber DEF Min

(* The greatest of finitely many numbers that have a bound. *)
LEMMA MaxFacts ==
    ASSUME NEW n \in Nat, NEW S \in SUBSET (1 .. n), S # {}
    PROVE  Max(S) \in S /\ \A y \in S : y <= Max(S)
<1> DEFINE T == {k \in Nat : n - k \in S}
<1>1. T \in SUBSET Nat /\ T # {}
  <2>1. PICK x \in S : TRUE
    OBVIOUS
  <2>2. n - x \in T
    OBVIOUS
  <2> QED BY <2>2
<1>2. PICK k \in T : \A m \in T : k <= m
  BY <1>1, LeastNumber
<1>3. n - k \in S /\ \A y \in S : n - k >= y
  <2>1. ASSUME NEW y \in S PROVE n - k >= y
    <3>1. n - y \in T
      OBVIOUS
    <3>2. k <= n - y
      BY <1>2, <3>1
    <3> QED BY <3>2
  <2> QED BY <2>1
<1>4. \E x \in S : \A y \in S : x >= y
  BY <1>3
<1>5. Max(S) \in S /\ \A y \in S : Max(S) >= y
  BY <1>4 DEF Max
<1> QED BY <1>5

(* What is read is a beginning of the file, all of it unless it is said to be cut. *)
LEMMA ReadProcfs ==
    ASSUME NEW h, Machine(h), NEW p
    PROVE  LET r == read_procfs_capped(h, p) IN
           /\ r.err \in {"none", "NotFound", "PermissionDenied"} /\ r.truncated \in BOOLEAN
           /\ r.err # "none" => r.lines = <<>> /\ ~r.truncated
           /\ r.err = "none" =>
                 /\ p \in DOMAIN h.file /\ h.file[p].open
                 /\ r.lines \in Seq(ToSet(h.file[p].lines)) /\ Len(r.lines) <= Len(h.file[p].lines)
                 /\ ToSet(r.lines) \subseteq ToSet(h.file[p].lines)
                 /\ ~r.truncated => r.lines = h.file[p].lines
           /\ ToSet(r.lines) \subseteq lines_in(h, {p})
<1> DEFINE r == read_procfs_capped(h, p)
           lines == h.file[p].lines
           n == h.cap[p]
           k == Min({n, Len(lines)})
<1>1. CASE p \notin DOMAIN h.file
  <2>1. r = Result("NotFound", <<>>, FALSE)
    BY <1>1 DEF read_procfs_capped, exists
  <2>2. ToSet(<<>>) = {}
    BY DEF ToSet
  <2> HIDE DEF r
  <2>3. r.err = "NotFound" /\ r.lines = <<>> /\ r.truncated = FALSE
    BY <2>1 DEF Result
  <2> QED BY <2>2, <2>3 DEF r
<1>2. CASE p \in DOMAIN h.file /\ ~h.file[p].open
  <2>1. r = Result("PermissionDenied", <<>>, FALSE)
    BY <1>2 DEF read_procfs_capped, exists
  <2>2. ToSet(<<>>) = {}
    BY DEF ToSet
  <2> HIDE DEF r
  <2>3. r.err = "PermissionDenied" /\ r.lines = <<>> /\ r.truncated = FALSE
    BY <2>1 DEF Result
  <2> QED BY <2>2, <2>3 DEF r
<1>3. CASE p \in DOMAIN h.file /\ h.file[p].open
  <2>1. r = Result("none", SubSeq(lines, 1, k), Len(lines) > n)
    BY <1>3 DEF read_procfs_capped, exists
  <2>2. n \in Nat /\ lines \in Seq(ToSet(lines)) /\ Len(lines) \in Nat
    <3>1. h.cap \in [DOMAIN h.file -> Nat] /\ File(h.file[p])
      BY <1>3 DEF Machine
    <3>2. lines \in Seq(ToSet(lines))
      BY <3>1 DEF File
    <3> HIDE DEF lines
    <3> QED BY <1>3, <3>1, <3>2
  <2> HIDE DEF lines, n
  <2>3. k \in {n, Len(lines)} /\ k <= n /\ k <= Len(lines)
    BY <2>2, MinFacts
  <2> HIDE DEF k
  <2>4. /\ SubSeq(lines, 1, k) \in Seq(ToSet(lines)) /\ Len(SubSeq(lines, 1, k)) <= Len(lines)
        /\ ~(Len(lines) > n) => SubSeq(lines, 1, k) = lines
    BY <2>2, <2>3
  <2> HIDE DEF r
  <2>5. r.err = "none" /\ r.lines = SubSeq(lines, 1, k) /\ r.truncated = (Len(lines) > n)
    BY <2>1 DEF Result
  <2>6. ToSet(r.lines) \subseteq ToSet(lines)
    BY <2>4, <2>5 DEF ToSet
  <2>7. lines_in(h, {p}) = ToSet(lines)
    BY <1>3 DEF lines_in, lines
  <2>8. r.truncated \in BOOLEAN
    BY <2>5
  <2> QED BY <1>3, <2>4, <2>5, <2>6, <2>7, <2>8 DEF r, lines
<1> QED BY <1>1, <1>2, <1>3

(* A regular file is read like any other, and what is no regular file is an error. *)
LEMMA ReadRegular ==
    ASSUME NEW h, Machine(h), NEW p
    PROVE  LET r == read_file_capped_regular(h, p) IN
           /\ r.err \in {"none", "NotFound", "PermissionDenied", "InvalidData"}
           /\ r.truncated \in BOOLEAN
           /\ r.err # "none" => r.lines = <<>> /\ ~r.truncated
           /\ r.err = "none" =>
                 /\ p \in DOMAIN h.file /\ h.file[p].open /\ is_file(h, p)
                 /\ r.lines \in Seq(ToSet(h.file[p].lines)) /\ Len(r.lines) <= Len(h.file[p].lines)
                 /\ ToSet(r.lines) \subseteq ToSet(h.file[p].lines)
                 /\ ~r.truncated => r.lines = h.file[p].lines
           /\ ToSet(r.lines) \subseteq lines_in(h, {p})
<1> DEFINE r == read_file_capped_regular(h, p)
           q == read_procfs_capped(h, p)
<1>1. CASE q.err = "none" /\ ~is_file(h, p)
  <2>1. r = Result("InvalidData", <<>>, FALSE)
    BY <1>1 DEF read_file_capped_regular
  <2>2. ToSet(<<>>) = {}
    BY DEF ToSet
  <2> HIDE DEF r
  <2>3. r.err = "InvalidData" /\ r.lines = <<>> /\ r.truncated = FALSE
    BY <2>1 DEF Result
  <2> QED BY <2>2, <2>3 DEF r
<1>2. CASE ~(q.err = "none" /\ ~is_file(h, p))
  <2>1. r = q
    BY <1>2 DEF read_file_capped_regular
  <2>2. /\ q.err \in {"none", "NotFound", "PermissionDenied"} /\ q.truncated \in BOOLEAN
        /\ q.err # "none" => q.lines = <<>> /\ ~q.truncated
        /\ q.err = "none" =>
              /\ p \in DOMAIN h.file /\ h.file[p].open
              /\ q.lines \in Seq(ToSet(h.file[p].lines)) /\ Len(q.lines) <= Len(h.file[p].lines)
              /\ ToSet(q.lines) \subseteq ToSet(h.file[p].lines)
              /\ ~q.truncated => q.lines = h.file[p].lines
        /\ ToSet(q.lines) \subseteq lines_in(h, {p})
    BY ReadProcfs
  <2> HIDE DEF q
  <2> QED BY <1>2, <2>1, <2>2
<1> QED BY <1>1, <1>2

(* The empty and the unavailable index of a package database. *)
LEMMA IndexFields ==
    /\ \A a, b, c : Index(a, b, c).source = a /\ Index(a, b, c).map = b /\ Index(a, b, c).warns = c
    /\ \A c : unavailable(c).warns = c \cup {<<"provenance", "unavailable">>}
    /\ \A c : unavailable(c).map = NoOwners /\ unavailable(c).source = "Unavailable"
    /\ DOMAIN NoOwners = {}
<1>1. \A a, b, c : Index(a, b, c).source = a /\ Index(a, b, c).map = b /\ Index(a, b, c).warns = c
  BY DEF Index
<1>2. DOMAIN NoOwners = {}
  BY DEF NoOwners
<1> QED BY <1>1, <1>2 DEF unavailable

(* A set of entries of a directory, listed. *)
LEMMA EntriesFacts ==
    ASSUME NEW h, Machine(h), NEW d
    PROVE  /\ IsFiniteSet(children(h, d)) /\ IsFiniteSet(dir_entries(h, d))
           /\ dir_entries(h, d) \subseteq children(h, d)
           /\ ToSet(SetToSeq(dir_entries(h, d))) = dir_entries(h, d)
<1>1. IsFiniteSet(children(h, d))
  <2>1. CASE is_dir(h, d)
    <3>1. d \in DOMAIN h.file
      BY <2>1 DEF is_dir, exists
    <3>2. File(h.file[d])
      BY <3>1 DEF Machine
    <3> QED BY <2>1, <3>2 DEF children, File
  <2>2. CASE ~is_dir(h, d)
    BY <2>2, FS_EmptySet DEF children
  <2> QED BY <2>1, <2>2
<1>2. dir_entries(h, d) \subseteq children(h, d)
  BY DEF dir_entries
<1>3. IsFiniteSet(dir_entries(h, d))
  BY <1>1, <1>2, FS_Subset
<1> QED BY <1>1, <1>2, <1>3, SetToSeqFacts

(* A dpkg list without a word: every list was read, or every candidate has an owner. *)
LEMMA DpkgTrue ==
    ASSUME NEW h \in Hosts, NEW C, is_dir(h, "dpkg_info")
    PROVE  LET x == resolve_dpkg(h, C) IN
           /\ \A w \in x.warns : w[1] = "provenance"
           /\ \A p \in DOMAIN x.map : x.map[p] # "none"
           /\ x.warns = {} => \A p \in C \ DOMAIN x.map : ~owned(h, p)
<1> DEFINE x == resolve_dpkg(h, C)
           lists == SetToSeq(dir_entries(h, "dpkg_info"))
           result(i) == read_file_capped_regular(h, lists[i])
           owner(n, p) == {i \in 1..n : <<"owns", p>> \in ToSet(result(i).lines)}
           done(n) == \A p \in C : owner(n, p) # {}
           last == Min({n \in 1..Len(lists) : done(n)} \cup {Len(lists)})
           read == {i \in 1..last : result(i).err = "none"}
           warns == {<<"provenance", e>> : e \in {result(i).err : i \in 1..last} \ {"none"}}
                    \cup Where(\E i \in read : result(i).truncated, {<<"provenance", "truncated">>})
           O == {q \in C : owner(last, q) # {}}
           map == [p \in O |-> lists[Max(owner(last, p))]]
<1>0. Machine(h)
  BY MachineAssumption
<1>1. /\ lists \in Seq(dir_entries(h, "dpkg_info")) /\ Len(lists) \in Nat
      /\ ToSet(lists) = dir_entries(h, "dpkg_info") /\ DOMAIN lists = 1 .. Len(lists)
  BY <1>0, EntriesFacts, SetToSeqFacts
<1>2. IF C = {} THEN x = Index("Dpkg", NoOwners, {})
      ELSE IF read = {} THEN x = unavailable(warns) ELSE x = Index("Dpkg", map, warns)
  BY Zenon DEF resolve_dpkg
<1> HIDE DEF x, lists
<1>3. /\ last \in 0 .. Len(lists)
      /\ last < Len(lists) => \A p \in C : owner(last, p) # {}
  <2> DEFINE T == {n \in 1..Len(lists) : done(n)} \cup {Len(lists)}
  <2>1. T \in SUBSET Nat /\ T # {}
    BY <1>1
  <2>2. last \in T /\ \A y \in T : last <= y
    BY <2>1, MinFacts
  <2> HIDE DEF last
  <2>3. last = Len(lists) \/ (last \in 1..Len(lists) /\ \A p \in C : owner(last, p) # {})
    <3> HIDE DEF owner
    <3> QED BY <2>2
  <2>4. last \in 0..Len(lists)
    BY <1>1, <2>3
  <2>5. last < Len(lists) => last # Len(lists)
    <3>1. Len(lists) \in Nat
      BY <1>1
    <3> QED BY <3>1
  <2> HIDE DEF owner
  <2> QED BY <2>3, <2>4, <2>5
<1> HIDE DEF last
<1>4. \A w \in warns : w[1] = "provenance"
  <2>1. ASSUME NEW w \in Where(\E i \in read : result(i).truncated, {<<"provenance", "truncated">>})
        PROVE  w[1] = "provenance"
    <3>1. w \in {<<"provenance", "truncated">>}
      BY <2>1, WherePart
    <3> QED BY <3>1
  <2>2. ASSUME NEW w \in {<<"provenance", e>> : e \in {result(i).err : i \in 1..last} \ {"none"}}
        PROVE  w[1] = "provenance"
    <3> HIDE DEF result
    <3> QED BY <2>2
  <2> HIDE DEF result, read
  <2> QED BY <2>1, <2>2
<1>5. ASSUME NEW p \in O PROVE lists[Max(owner(last, p))] # "none"
  <2> DEFINE W == owner(last, p)
             m == Max(W)
  <2>0. W \in SUBSET (1 .. last) /\ W # {}
    BY <1>5
  <2>1. m \in W
    <3>1. last \in Nat
      BY <1>1, <1>3
    <3> HIDE DEF W
    <3> QED BY <2>0, <3>1, MaxFacts
  <2> HIDE DEF m
  <2>2. m \in 1 .. Len(lists)
    <3> HIDE DEF W
    <3> QED BY <1>1, <1>3, <2>0, <2>1
  <2>3. lists[m] \in dir_entries(h, "dpkg_info")
    BY <1>1, <2>2
  <2>4. lists[m] \in children(h, "dpkg_info")
    BY <1>0, <2>3, EntriesFacts
  <2>5. "none" \notin children(h, "dpkg_info")
    BY <1>0 DEF Machine
  <2> QED BY <2>4, <2>5 DEF m
<1>6. ASSUME warns = {}, read # {}, NEW p \in C, p \notin O PROVE ~owned(h, p)
  <2>1. \A i \in 1 .. last : result(i).err = "none" /\ ~result(i).truncated
    <3> HIDE DEF result
    <3>1. ASSUME NEW i \in 1 .. last PROVE result(i).err = "none"
      <4>1. result(i).err # "none" => <<"provenance", result(i).err>> \in warns
        OBVIOUS
      <4> QED BY <1>6, <4>1
    <3>2. (\E i \in read : result(i).truncated) =>
             Where(\E i \in read : result(i).truncated, {<<"provenance", "truncated">>}) # {}
      BY DEF Where
    <3>3. ~ \E i \in read : result(i).truncated
      BY <1>6, <3>2
    <3> QED BY <3>1, <3>3
  <2>2. last = Len(lists)
    <3>1. owner(last, p) = {}
      BY <1>6
    <3>2. ~(last < Len(lists))
      <4> HIDE DEF owner
      <4> QED BY <1>3, <3>1
    <3>3. last \in 0..Len(lists)
      BY <1>3
    <3>4. Len(lists) \in Nat
      BY <1>1
    <3> QED BY <3>2, <3>3, <3>4
  <2>3. ASSUME NEW i \in 1 .. Len(lists) PROVE ToSet(result(i).lines) = ToSet(h.file[lists[i]].lines)
    <3>1. result(i).err = "none" /\ ~result(i).truncated
      BY <2>1, <2>2
    <3>2. result(i).lines = h.file[lists[i]].lines
      BY <1>0, <3>1, ReadRegular
    <3> QED BY <3>2
  <2>4. dir_entries(h, "dpkg_info") = children(h, "dpkg_info")
    <3> HIDE DEF result
    <3>1. Len(lists) # 0
      BY <1>1, <1>6, <2>2
    <3>2. lists[1] \in dir_entries(h, "dpkg_info")
      BY <1>1, <3>1
    <3> QED BY <3>2 DEF dir_entries
  <2>5. ASSUME NEW q \in children(h, "dpkg_info") PROVE <<"owns", p>> \notin ToSet(h.file[q].lines)
    <3>1. PICK i \in 1 .. Len(lists) : lists[i] = q
      BY <1>1, <2>4, <2>5 DEF ToSet
    <3>2. <<"owns", p>> \notin ToSet(result(i).lines)
      <4> HIDE DEF result
      <4> QED BY <1>6, <2>2
    <3> HIDE DEF result
    <3> QED BY <2>3, <3>1, <3>2
  <2> QED BY <2>5, OneDatabase DEF owned
<1>7. \/ C = {} /\ x = Index("Dpkg", NoOwners, {})
      \/ x = unavailable(warns)
      \/ read # {} /\ x = Index("Dpkg", map, warns)
  <2> HIDE DEF read, map, warns
  <2> QED BY <1>2
<1>8. DOMAIN map = O
  BY Zenon
<1> HIDE DEF warns, read, map
<1>9. CASE C = {} /\ x = Index("Dpkg", NoOwners, {})
  <2>1. x.warns = {} /\ DOMAIN x.map = {}
    BY <1>9, IndexFields
  <2> QED BY <1>9, <2>1 DEF x
<1>10. CASE x = unavailable(warns)
  <2>1. x.warns = warns \cup {<<"provenance", "unavailable">>} /\ DOMAIN x.map = {}
    BY <1>10, IndexFields
  <2>2. <<"provenance", "unavailable">>[1] = "provenance"
    OBVIOUS
  <2> QED BY <1>4, <2>1, <2>2 DEF x
<1>11. CASE read # {} /\ x = Index("Dpkg", map, warns)
  <2>1. x.warns = warns /\ x.map = map
    BY <1>11, IndexFields
  <2>2. \A p \in O : map[p] # "none"
    <3>1. \A p \in O : map[p] = lists[Max(owner(last, p))]
      BY Zenon DEF map
    <3> HIDE DEF O, owner
    <3> QED BY <1>5, <3>1
  <2> HIDE DEF O
  <2> QED BY <1>4, <1>6, <1>8, <1>11, <2>1, <2>2 DEF x
<1> QED BY <1>7, <1>9, <1>10, <1>11

(* An apk database read to its end. *)
LEMMA ApkTrue ==
    ASSUME NEW h \in Hosts, NEW C, ~is_dir(h, "dpkg_info"), is_file(h, "apk_installed")
    PROVE  LET x == resolve_apk(h, C) IN
           /\ \A w \in x.warns : w[1] = "provenance"
           /\ \A p \in DOMAIN x.map : x.map[p] # "none"
           /\ x.warns = {} => \A p \in C \ DOMAIN x.map : ~owned(h, p)
<1> DEFINE x == resolve_apk(h, C)
           r == read_file_capped_regular(h, "apk_installed")
           of == {l \in ToSet(r.lines) : l[2] \in C}
           O == {l[2] : l \in of}
           map == [p \in O |-> (CHOOSE l \in of : l[2] = p)[3]]
           warns == Where(r.truncated, {<<"provenance", "truncated">>})
           source == IF r.truncated THEN "PartialApk" ELSE "Apk"
<1>0. Machine(h)
  BY MachineAssumption
<1>1. IF C = {} THEN x = Index("Apk", NoOwners, {})
      ELSE IF r.err # "none" THEN x = unavailable({<<"provenance", r.err>>})
      ELSE x = Index(source, map, warns)
  BY Zenon DEF resolve_apk
<1>2. DOMAIN map = O
  BY Zenon
<1>3. \A p \in O : map[p] # "none"
  <2>1. ASSUME NEW p \in O PROVE (CHOOSE l \in of : l[2] = p)[3] # "none"
    <3> HIDE DEF r
    <3>1. PICK l \in of : l[2] = p
      BY <2>1
    <3>2. (CHOOSE m \in of : m[2] = p) \in of
      BY <3>1
    <3>3. of \subseteq lines_in(h, {"apk_installed"})
      BY <1>0, ReadRegular DEF r
    <3>4. \A m \in lines_in(h, {"apk_installed"}) : m[3] # "none"
      BY <1>0 DEF Machine
    <3> QED BY <3>2, <3>3, <3>4
  <2>2. \A p \in O : map[p] = (CHOOSE l \in of : l[2] = p)[3]
    BY Zenon
  <2> HIDE DEF O, map, of
  <2> QED BY <2>1, <2>2
<1>4. ASSUME r.err = "none", warns = {}, NEW p \in C, p \notin O PROVE ~owned(h, p)
  <2>1. ~r.truncated
    <3> HIDE DEF r
    <3> QED BY <1>4 DEF Where
  <2>2. r.lines = h.file["apk_installed"].lines
    BY <1>0, <1>4, <2>1, ReadRegular
  <2>3. \A l \in ToSet(h.file["apk_installed"].lines) : l[2] # p
    <3>1. ASSUME NEW l \in ToSet(r.lines), l[2] = p PROVE FALSE
      <4> HIDE DEF r
      <4> QED BY <1>4, <3>1
    <3> HIDE DEF r
    <3> QED BY <2>2, <3>1
  <2> QED BY <2>3, OneDatabase DEF owned
<1> HIDE DEF x, r, O, map, warns, source
<1>5. CASE C = {}
  <2>1. x.warns = {} /\ DOMAIN x.map = {}
    BY <1>1, <1>5, IndexFields
  <2> QED BY <1>5, <2>1 DEF x
<1>6. CASE C # {} /\ r.err # "none"
  <2>1. x.warns = {<<"provenance", r.err>>} \cup {<<"provenance", "unavailable">>} /\ DOMAIN x.map = {}
    BY <1>1, <1>6, IndexFields
  <2>2. \A e : <<"provenance", e>>[1] = "provenance"
    OBVIOUS
  <2> QED BY <2>1, <2>2 DEF x
<1>7. CASE C # {} /\ r.err = "none"
  <2>1. x.warns = warns /\ x.map = map
    BY <1>1, <1>7, IndexFields
  <2>2. \A w \in warns : w[1] = "provenance"
    <3>1. warns \subseteq {<<"provenance", "truncated">>}
      BY WherePart DEF warns
    <3> QED BY <3>1
  <2> QED BY <1>2, <1>3, <1>4, <1>7, <2>1, <2>2 DEF x
<1> QED BY <1>5, <1>6, <1>7

(* The rpm tool, asked for every file. *)
LEMMA RpmTrue ==
    ASSUME NEW h \in Hosts, NEW C, NEW failing, ~is_dir(h, "dpkg_info"), ~is_file(h, "apk_installed")
    PROVE  LET x == resolve_rpm(h, C, failing) IN
           /\ \A w \in x.warns : w[1] = "provenance"
           /\ \A p \in DOMAIN x.map : x.map[p] # "none"
           /\ x.warns = {} => \A p \in C \ DOMAIN x.map : ~owned(h, p)
<1> DEFINE x == resolve_rpm(h, C, failing)
           failed == C \cap failing
           of == (C \ failed) \cap DOMAIN h.rpm
           unowned == (C \ failed) \ DOMAIN h.rpm
           map == [p \in of |-> h.rpm[p]]
           warns == Where(failed # {}, {<<"provenance", "queries failed">>})
                    \cup Where(unowned # {}, {<<"provenance", "not owned">>})
<1>0. Machine(h)
  BY MachineAssumption
<1>1. \/ C = {} /\ x = Index("Rpm", NoOwners, {})
      \/ \E e : x = unavailable({<<"provenance", e>>})
      \/ x = Index("Rpm", map, warns)
  <2>1. IF C = {} THEN x = Index("Rpm", NoOwners, {})
        ELSE IF ~is_dir(h, "rpmdb") THEN x = unavailable({<<"provenance", "no rpmdb">>})
        ELSE IF ~h.rpm_tool THEN x = unavailable({<<"provenance", "no rpm">>})
        ELSE IF failed = C THEN x = unavailable({<<"provenance", "queries failed">>})
        ELSE x = Index("Rpm", map, warns)
    BY Zenon DEF resolve_rpm
  <2> HIDE DEF x, map, warns
  <2> QED BY <2>1
<1>2. DOMAIN map = of /\ \A p \in of : map[p] = h.rpm[p]
  BY Zenon
<1>3. \A p \in of : map[p] # "none"
  <2>1. \A p \in DOMAIN h.rpm : h.rpm[p] # "none"
    BY <1>0 DEF Machine
  <2> HIDE DEF map
  <2> QED BY <1>2, <2>1
<1>4. ASSUME warns = {} PROVE C \ of = {}
  BY <1>4 DEF Where
<1>5. \A w \in warns : w[1] = "provenance"
  <2>1. warns \subseteq {<<"provenance", "queries failed">>, <<"provenance", "not owned">>}
    BY WherePart
  <2>2. \A d : <<"provenance", d>>[1] = "provenance"
    OBVIOUS
  <2> HIDE DEF warns
  <2> QED BY <2>1, <2>2
<1> HIDE DEF x, of, map, warns
<1>6. CASE C = {} /\ x = Index("Rpm", NoOwners, {})
  <2>1. x.warns = {} /\ DOMAIN x.map = {}
    BY <1>6, IndexFields
  <2> QED BY <1>6, <2>1 DEF x
<1>7. ASSUME NEW e, x = unavailable({<<"provenance", e>>})
      PROVE  (\A w \in x.warns : w[1] = "provenance") /\ DOMAIN x.map = {} /\ x.warns # {}
  <2>1. x.warns = {<<"provenance", e>>} \cup {<<"provenance", "unavailable">>} /\ DOMAIN x.map = {}
    BY <1>7, IndexFields
  <2>2. \A d : <<"provenance", d>>[1] = "provenance"
    OBVIOUS
  <2> HIDE DEF x
  <2> QED BY <2>1, <2>2
<1>8. CASE x = Index("Rpm", map, warns)
  <2>1. x.warns = warns /\ x.map = map
    BY <1>8, IndexFields
  <2> QED BY <1>2, <1>3, <1>4, <1>5, <2>1 DEF x
<1> QED BY <1>1, <1>6, <1>7, <1>8 DEF x

(* A batch answered without a word: what is not in the answer has no owner. *)
LEMMA ResolveTrue ==
    ASSUME NEW h \in Hosts, NEW C, NEW failing
    PROVE  LET x == resolve_batch_uncached(h, C, failing) IN
           /\ \A w \in x.warns : w[1] = "provenance"
           /\ \A p \in DOMAIN x.map : x.map[p] # "none"
           /\ x.warns = {} => \A p \in C \ DOMAIN x.map : ~owned(h, p)
BY DpkgTrue, ApkTrue, RpmTrue DEF resolve_batch_uncached

-------------------------------------------------------------------------------
(* What a report holds was observed. *)

(* What the tasks hold.  A scanner that a task is past has given it all it found, and its warnings
   are said or about to be; what is held may be trusted, unless a warning about packages excuses
   it. *)
PieceOf(t, i) == Scanned[host][Program[t][i]]
Past(t, i) == i < task[t].at \/ (i = task[t].at /\ task[t].phase # "scan")
Gathered(t) ==
    t \in host.busy /\ task[t].phase # "panicked" =>
        /\ task[t].phase = "returned" => task[t].at > Len(Program[t])
        /\ \A i \in 1 .. Len(Program[t]) : Past(t, i) =>
              /\ PieceOf(t, i).found \subseteq task[t].found
              /\ PieceOf(t, i).warns \subseteq
                    said \cup (IF i = task[t].at /\ task[t].phase = "record" THEN task[t].pend ELSE {})

Excused == \E w \in said : w[1] = "provenance"
Trusted(f) ==
    /\ f[1] \in Linked => Triple(f)
    /\ f[1] = "mapped_by_pids" /\ f[3] = 0 => Unmapped(host, f[2])
    /\ f[1] = "package" /\ f[3] = "none" => ~owned(host, f[2]) \/ Excused
    /\ f[1] = "root_login" => f \in scan_sshd(host).found
MemoTrusted ==
    Excused \/ \A p \in DOMAIN memo.known : memo.known[p] = "none" => ~owned(host, p)

(* A batch in flight: what it leaves without an owner has none, or there is a doubt about it. *)
Doubted(t) == \E w \in said \cup task[t].pend : w[1] = "provenance"
Sound(paths, map) ==
    /\ \A p \in DOMAIN map : map[p] # "none"
    /\ \A p \in paths \ DOMAIN map : ~owned(host, p)
Batched(t) ==
    /\ task[t].phase = "query" =>
          /\ DOMAIN task[t].batch = {"map", "missing", "cached"}
          /\ \A p \in DOMAIN task[t].batch.map : task[t].batch.map[p] # "none"
          /\ Excused \/ Sound(task[t].ask \ task[t].batch.missing, task[t].batch.map)
    /\ task[t].phase = "remember" =>
          /\ \A p \in DOMAIN task[t].batch.map : task[t].batch.map[p] # "none"
          /\ \A p \in DOMAIN task[t].batch.fresh.map : task[t].batch.fresh.map[p] # "none"
          /\ \/ Doubted(t)
             \/ /\ Sound(task[t].ask, task[t].batch.map)
                /\ Sound(task[t].batch.missing, task[t].batch.fresh.map)

TaskHeld(t) == Gathered(t) /\ Batched(t) /\ \A f \in task[t].found : Trusted(f)

Joined == UNION {task[t].found : t \in Tasks}
Bypass == "firewall_bypass_findings"
LinkHeld ==
    runner.at # "join" =>
        /\ Keys(Joined) \subseteq Keys(runner.found)
        /\ \A f \in Joined : f[1] \notin Linked => f \in runner.found
        /\ \A f \in runner.found : f[1] \notin Linked \cup {Bypass} => f \in Joined
ReportHeld ==
    report # none =>
        /\ runner.at = "done"
        /\ report.found = runner.found /\ report.failed_scanners = runner.failed
        /\ said \subseteq report.coverage_warnings \/ CapReached \in report.coverage_warnings
HeldInv == (\A t \in Tasks : TaskHeld(t)) /\ MemoTrusted /\ LinkHeld /\ ReportHeld

(* A warning said is never taken back. *)
LEMMA HeldStays ==
    ASSUME NEW t, TaskHeld(t), task'[t] = task[t], host' = host, said \subseteq said'
    PROVE  TaskHeld(t)'
<1>1. Excused => Excused'
  BY DEF Excused
<1>2. Doubted(t) => Doubted(t)'
  BY DEF Doubted
<1>3. \A f : Trusted(f) => Trusted(f)'
  BY <1>1 DEF Trusted
<1>4. \A P, m : Sound(P, m) => Sound(P, m)'
  BY DEF Sound
<1>5. Gathered(t)'
  BY DEF TaskHeld, Gathered, PieceOf, Past
<1>6. Batched(t)'
  BY <1>1, <1>2, <1>4 DEF TaskHeld, Batched
<1> QED BY <1>3, <1>5, <1>6 DEF TaskHeld

(* The memo stays trusted when it is left alone and no warning is taken back. *)
LEMMA MemoStays ==
    ASSUME MemoTrusted, memo' = memo, host' = host, said \subseteq said'
    PROVE  MemoTrusted'
BY DEF MemoTrusted, Excused

(* A step of a task comes before the join. *)
LEMMA StepHeld ==
    ASSUME ScanInv, HeldInv, NEW t \in Tasks, task[t].phase \notin Ended,
           task' = [u \in Tasks |-> task'[u]], \A u \in Tasks \ {t} : task'[u] = task[u],
           host' = host, said \subseteq said', runner' = runner, report' = report,
           MemoTrusted', TaskHeld(t)'
    PROVE  HeldInv'
<1>1. runner.at = "join"
  BY DEF ScanInv, JoinInv
<1>2. \A u \in Tasks : TaskHeld(u)'
  <2>1. ASSUME NEW u \in Tasks, u # t PROVE TaskHeld(u)'
    BY <2>1, HeldStays DEF HeldInv
  <2> QED BY <2>1
<1>3. LinkHeld' /\ ReportHeld'
  BY <1>1 DEF HeldInv, LinkHeld, ReportHeld
<1> QED BY <1>2, <1>3 DEF HeldInv

(* The scanner that a task is at. *)
LEMMA HereFacts ==
    ASSUME ScanInv, NEW t \in Tasks
    PROVE  /\ host \in Hosts /\ task[t].at \in Nat \ {0} /\ Len(Program[t]) \in Nat
           /\ task[t].at <= Len(Program[t]) => task[t].at \in 1 .. Len(Program[t])
           /\ scanner_of(t) = Program[t][task[t].at]
           /\ \A i \in 1 .. Len(Program[t]) : \A f \in PieceOf(t, i).found : Honest(host, f)
<1>1. host \in Hosts /\ task[t].at \in Nat \ {0} /\ Len(Program[t]) \in Nat
  BY NamesOfScanners DEF ScanInv, TaskInv
<1>2. task[t].at <= Len(Program[t]) => task[t].at \in 1 .. Len(Program[t])
  BY <1>1
<1>3. ASSUME NEW i \in 1 .. Len(Program[t]), NEW f \in PieceOf(t, i).found PROVE Honest(host, f)
  <2>1. i \in DOMAIN Program[t] /\ Program[t][i] \in ScannerNames
    BY NamesOfScanners
  <2>2. PieceOf(t, i) = scan(host, Program[t][i])
    BY <1>1, <2>1, NamesOfScanners DEF PieceOf
  <2> QED BY <1>1, <1>3, <2>1, <2>2, ScannersHonest
<1> QED BY <1>1, <1>2, <1>3 DEF scanner_of

(* A scanner runs: its entries and its warnings are at hand. *)
LEMMA ScanHeld == ASSUME ScanInv, HeldInv, NEW t \in Tasks, Scan(t) PROVE HeldInv'
<1> DEFINE piece == Scanned[host][scanner_of(t)]
<1>1. /\ task[t].phase = "scan" /\ task[t].at <= Len(Program[t])
      /\ task' = [task EXCEPT ![t].found = @ \cup piece.found, ![t].ask = piece.ask,
                              ![t].pend = piece.warns, ![t].phase = "record"]
      /\ host' = host /\ memo' = memo /\ sink' = sink /\ said' = said /\ runner' = runner
      /\ report' = report
  BY DEF Scan
<1>2. piece = PieceOf(t, task[t].at) /\ task[t].at \in 1 .. Len(Program[t])
  BY <1>1, HereFacts DEF PieceOf
<1> HIDE DEF piece
<1>3. /\ task' = [u \in Tasks |-> task'[u]] /\ \A u \in Tasks \ {t} : task'[u] = task[u]
      /\ task'[t].at = task[t].at /\ task'[t].phase = "record" /\ task'[t].pend = piece.warns
      /\ task'[t].found = task[t].found \cup piece.found
  BY <1>1 DEF ScanInv, TaskInv
<1>4. \A i : PieceOf(t, i)' = PieceOf(t, i)
  BY <1>1 DEF PieceOf
<1>5. Gathered(t)'
  <2> SUFFICES ASSUME t \in host.busy, NEW i \in 1 .. Len(Program[t]), Past(t, i)'
               PROVE  /\ PieceOf(t, i).found \subseteq task'[t].found
                      /\ PieceOf(t, i).warns \subseteq
                            said \cup (IF i = task'[t].at THEN task'[t].pend ELSE {})
    BY <1>1, <1>3, <1>4 DEF Gathered
  <2>1. CASE i = task[t].at
    BY <1>2, <1>3, <2>1
  <2>2. CASE i # task[t].at
    <3>1. Past(t, i)
      BY <1>3, <2>2 DEF Past
    <3>2. PieceOf(t, i).found \subseteq task[t].found /\ PieceOf(t, i).warns \subseteq said
      BY <1>1, <2>2, <3>1 DEF HeldInv, TaskHeld, Gathered
    <3> QED BY <1>3, <3>2
  <2> QED BY <2>1, <2>2
<1>6. \A f \in task'[t].found : Trusted(f)'
  <2>1. ASSUME NEW f \in piece.found PROVE Trusted(f)'
    <3>1. Honest(host, f)
      BY <1>2, HereFacts
    <3> QED BY <1>1, <3>1 DEF Honest, Trusted
  <2>2. ASSUME NEW f \in task[t].found PROVE Trusted(f)'
    <3>1. Trusted(f)
      BY DEF HeldInv, TaskHeld
    <3> QED BY <1>1, <3>1 DEF Trusted, Excused
  <2> QED BY <1>3, <2>1, <2>2
<1>7. Batched(t)'
  BY <1>3 DEF Batched
<1>8. TaskHeld(t)' /\ MemoTrusted'
  BY <1>1, <1>5, <1>6, <1>7, MemoStays DEF TaskHeld, HeldInv
<1> QED BY <1>1, <1>3, <1>8, StepHeld DEF Ended

(* One warning is said to the sink. *)
LEMMA RecordHeld == ASSUME ScanInv, HeldInv, NEW t \in Tasks, Record(t) PROVE HeldInv'
<1> DEFINE w == CHOOSE x \in task[t].pend : TRUE
<1>1. /\ task[t].phase \in {"record", "remember"} /\ task[t].pend # {}
      /\ task' = [task EXCEPT ![t].pend = @ \ {w}] /\ said' = said \cup {w}
      /\ host' = host /\ memo' = memo /\ runner' = runner /\ report' = report
  BY DEF Record
<1> HIDE DEF w
<1>2. /\ task' = [u \in Tasks |-> task'[u]] /\ \A u \in Tasks \ {t} : task'[u] = task[u]
      /\ task'[t].at = task[t].at /\ task'[t].phase = task[t].phase
      /\ task'[t].pend = task[t].pend \ {w} /\ task'[t].found = task[t].found
      /\ task'[t].ask = task[t].ask /\ task'[t].batch = task[t].batch
  BY <1>1 DEF ScanInv, TaskInv
<1>3. (Excused => Excused') /\ (Doubted(t) => Doubted(t)')
  BY <1>1, <1>2 DEF Excused, Doubted
<1>4. Gathered(t)'
  <2>1. \A i : PieceOf(t, i)' = PieceOf(t, i)
    BY <1>1 DEF PieceOf
  <2>2. \A i : Past(t, i)' = Past(t, i)
    BY <1>2 DEF Past
  <2>3. Gathered(t)
    BY DEF HeldInv, TaskHeld
  <2> SUFFICES ASSUME t \in host.busy, NEW i \in 1 .. Len(Program[t]), Past(t, i)
               PROVE  /\ PieceOf(t, i).found \subseteq task[t].found
                      /\ PieceOf(t, i).warns \subseteq said'
                            \cup (IF i = task[t].at /\ task[t].phase = "record" THEN task'[t].pend ELSE {})
    BY <1>1, <1>2, <2>1, <2>2 DEF Gathered
  <2>4. /\ PieceOf(t, i).found \subseteq task[t].found
        /\ PieceOf(t, i).warns \subseteq
              said \cup (IF i = task[t].at /\ task[t].phase = "record" THEN task[t].pend ELSE {})
    BY <1>1, <2>3 DEF Gathered
  <2> QED BY <1>1, <1>2, <2>4
<1>5. Batched(t)'
  <2>1. \A P, m : Sound(P, m) => Sound(P, m)'
    BY <1>1 DEF Sound
  <2>2. Batched(t)
    BY DEF HeldInv, TaskHeld
  <2> QED BY <1>1, <1>2, <1>3, <2>1, <2>2 DEF Batched
<1>6. \A f \in task'[t].found : Trusted(f)'
  BY <1>1, <1>2, <1>3 DEF HeldInv, TaskHeld, Trusted
<1>7. TaskHeld(t)' /\ MemoTrusted'
  BY <1>1, <1>4, <1>5, <1>6, MemoStays DEF TaskHeld, HeldInv
<1> QED BY <1>1, <1>2, <1>7, StepHeld DEF Ended

(* A task goes on once its scanner's warnings are said. *)
LEMMA GoesOn ==
    ASSUME ScanInv, NEW t \in Tasks, Gathered(t), host' = host, said' = said,
           task[t].phase \in {"record", "lookup", "query", "remember"},
           task[t].phase = "record" => task[t].pend = {},
           task[t].found \subseteq task'[t].found,
           \/ task'[t].at = task[t].at /\ task'[t].phase \in {"lookup", "query", "remember"}
           \/ task'[t].at = task[t].at + 1 /\ task'[t].phase = "scan"
    PROVE  Gathered(t)'
<1>1. \A i : PieceOf(t, i)' = PieceOf(t, i)
  BY DEF PieceOf
<1>2. ASSUME NEW i \in 1 .. Len(Program[t]), Past(t, i)' PROVE Past(t, i)
  <2>1. i \in Nat /\ task[t].at \in Nat
    BY HereFacts
  <2> QED BY <1>2, <2>1 DEF Past
<1> SUFFICES ASSUME t \in host.busy, NEW i \in 1 .. Len(Program[t]), Past(t, i)
             PROVE  /\ PieceOf(t, i).found \subseteq task'[t].found
                    /\ PieceOf(t, i).warns \subseteq said
  BY <1>1, <1>2 DEF Gathered
<1>3. /\ PieceOf(t, i).found \subseteq task[t].found
      /\ PieceOf(t, i).warns \subseteq
            said \cup (IF i = task[t].at /\ task[t].phase = "record" THEN task[t].pend ELSE {})
  BY DEF Gathered
<1> QED BY <1>3

(* The scanner's warnings are all said; the task goes on to its next scanner or asks. *)
LEMMA RecordedHeld == ASSUME ScanInv, HeldInv, NEW t \in Tasks, Recorded(t) PROVE HeldInv'
<1> DEFINE at == IF asks(t) THEN task[t].at ELSE task[t].at + 1
           phase == IF asks(t) THEN "lookup" ELSE "scan"
<1>1. /\ task[t].phase = "record" /\ task[t].pend = {}
      /\ task' = [task EXCEPT ![t].phase = phase, ![t].at = IF asks(t) THEN @ ELSE @ + 1]
      /\ host' = host /\ memo' = memo /\ said' = said /\ runner' = runner /\ report' = report
  BY DEF Recorded
<1>2. /\ task' = [u \in Tasks |-> task'[u]] /\ \A u \in Tasks \ {t} : task'[u] = task[u]
      /\ task'[t].at = at /\ task'[t].phase = phase /\ task'[t].found = task[t].found
  <2> HIDE DEF phase, asks
  <2> QED BY <1>1 DEF ScanInv, TaskInv
<1>3. \/ task'[t].at = task[t].at /\ task'[t].phase = "lookup"
      \/ task'[t].at = task[t].at + 1 /\ task'[t].phase = "scan"
  BY <1>2
<1> HIDE DEF at, phase
<1>4. Gathered(t)'
  BY <1>1, <1>2, <1>3, GoesOn DEF HeldInv, TaskHeld
<1>5. Batched(t)'
  BY <1>3 DEF Batched
<1>6. \A f \in task'[t].found : Trusted(f)'
  BY <1>1, <1>2 DEF HeldInv, TaskHeld, Trusted, Excused
<1>7. TaskHeld(t)' /\ MemoTrusted'
  BY <1>1, <1>4, <1>5, <1>6, MemoStays DEF TaskHeld, HeldInv
<1> QED BY <1>1, <1>2, <1>7, StepHeld DEF Ended

(* A batch that is resolved soundly, or with a word said about it, may be trusted. *)
LEMMA ResolvedHeld ==
    ASSUME ScanInv, HeldInv, NEW t \in Tasks, NEW map, NEW source, task' = Resolved(t, map, source),
           task[t].phase \in {"lookup", "query", "remember"},
           \A p \in DOMAIN map : map[p] # "none",
           Excused \/ Sound(task[t].ask, map),
           host' = host, said' = said, runner' = runner, report' = report, MemoTrusted'
    PROVE  HeldInv'
<1> DEFINE A == Attributed(t, map)
           W == Where(scanner_of(t) = "inventory", {<<"provenance_source", source>>})
<1>1. task' = [task EXCEPT ![t].found = @ \cup A \cup W, ![t].phase = "scan", ![t].at = @ + 1,
                           ![t].batch = none]
  BY DEF Resolved
<1>2. ASSUME NEW f \in A PROVE Trusted(f)'
  <2>1. PICK p \in task[t].ask : f = <<"package", p, IF p \in DOMAIN map THEN map[p] ELSE "none">>
    BY <1>2 DEF Attributed
  <2>2. f[1] = "package" /\ f[2] = p /\ f[3] = IF p \in DOMAIN map THEN map[p] ELSE "none"
    BY <2>1
  <2>3. f[3] = "none" => ~owned(host, p) \/ Excused
    BY <2>2 DEF Sound
  <2> QED BY <2>2, <2>3 DEF Trusted, Linked, Excused
<1>3. ASSUME NEW f \in W PROVE Trusted(f)'
  <2>1. f \in {<<"provenance_source", source>>}
    BY <1>3, WherePart
  <2>2. f[1] = "provenance_source"
    BY <2>1
  <2> QED BY <2>2 DEF Trusted, Linked
<1>4. ASSUME NEW f \in task[t].found PROVE Trusted(f)'
  <2>1. Trusted(f)
    BY DEF HeldInv, TaskHeld
  <2> QED BY <2>1 DEF Trusted, Excused
<1> HIDE DEF A, W
<1>5. /\ task' = [u \in Tasks |-> task'[u]] /\ \A u \in Tasks \ {t} : task'[u] = task[u]
      /\ task'[t].at = task[t].at + 1 /\ task'[t].phase = "scan"
      /\ task'[t].found = task[t].found \cup A \cup W
  <2>1. /\ task = [u \in Tasks |-> task[u]]
        /\ DOMAIN task[t] = {"at", "phase", "found", "pend", "ask", "batch"}
    BY DEF ScanInv, TaskInv
  <2>2. /\ task' = [u \in Tasks |-> task'[u]]
        /\ \A u \in Tasks \ {t} : task'[u] = task[u]
    BY <1>1, <2>1
  <2>3. task'[t].found = task[t].found \cup A \cup W
    BY <1>1, <2>1
  <2>4. task'[t].phase = "scan"
    BY <1>1, <2>1
  <2>5. task'[t].at = task[t].at + 1
    BY <1>1, <2>1
  <2> QED BY <2>2, <2>3, <2>4, <2>5
<1>6. Gathered(t)'
  BY <1>5, GoesOn DEF HeldInv, TaskHeld
<1>7. Batched(t)'
  BY <1>5 DEF Batched
<1>8. TaskHeld(t)'
  BY <1>2, <1>3, <1>4, <1>5, <1>6, <1>7 DEF TaskHeld
<1> QED BY <1>5, <1>8, StepHeld DEF Ended

(* The memo answers a batch, or leaves a part of it open. *)
LEMMA LookUpHeld == ASSUME ScanInv, HeldInv, NEW t \in Tasks, LookUp(t) PROVE HeldInv'
<1> DEFINE map == KnownOf(memo.known, task[t].ask)
           missing == task[t].ask \ DOMAIN memo.known
           batch == [map |-> map, missing |-> missing, cached |-> memo.source]
<1>1. /\ task[t].phase = "lookup"
      /\ \/ missing = {} /\ task' = Resolved(t, map, memo.source)
         \/ task' = [task EXCEPT ![t].phase = "query", ![t].batch = batch]
      /\ host' = host /\ memo' = memo /\ said' = said /\ runner' = runner /\ report' = report
  BY DEF LookUp
<1>2. /\ \A p \in DOMAIN map : map[p] # "none"
      /\ Excused \/ Sound(task[t].ask \ missing, map)
  <2> DEFINE hit == {q \in DOMAIN memo.known \cap task[t].ask : memo.known[q] # "none"}
  <2>1. DOMAIN map = hit /\ \A p \in hit : map[p] = memo.known[p]
    BY Zenon DEF KnownOf
  <2> HIDE DEF map
  <2> QED BY <2>1 DEF HeldInv, MemoTrusted, Sound
<1>3. MemoTrusted'
  BY <1>1, MemoStays DEF HeldInv
<1>4. CASE missing = {} /\ task' = Resolved(t, map, memo.source)
  <2>1. task[t].ask \ missing = task[t].ask
    BY <1>4
  <2> HIDE DEF map, missing
  <2> QED BY <1>1, <1>2, <1>3, <1>4, <2>1, ResolvedHeld
<1>5. CASE task' = [task EXCEPT ![t].phase = "query", ![t].batch = batch]
  <2>0. DOMAIN batch = {"map", "missing", "cached"} /\ batch.map = map /\ batch.missing = missing
    <3> HIDE DEF map, missing
    <3> QED OBVIOUS
  <2> HIDE DEF batch, map, missing
  <2>1. /\ task' = [u \in Tasks |-> task'[u]] /\ \A u \in Tasks \ {t} : task'[u] = task[u]
        /\ task'[t].at = task[t].at /\ task'[t].phase = "query" /\ task'[t].found = task[t].found
        /\ task'[t].ask = task[t].ask /\ task'[t].batch = batch
    BY <1>5 DEF ScanInv, TaskInv
  <2>2. Gathered(t)'
    BY <1>1, <2>1, GoesOn DEF HeldInv, TaskHeld
  <2>3. Batched(t)'
    BY <1>1, <1>2, <2>0, <2>1 DEF Batched, Sound, Excused
  <2>4. \A f \in task'[t].found : Trusted(f)'
    BY <1>1, <2>1 DEF HeldInv, TaskHeld, Trusted, Excused
  <2> QED BY <1>1, <1>3, <2>1, <2>2, <2>3, <2>4, StepHeld DEF Ended, TaskHeld
<1> QED BY <1>1, <1>4, <1>5

(* A function laid over another. *)
LEMMA Overlaid ==
    \A f, g : /\ DOMAIN extended(g, f) = DOMAIN f \cup DOMAIN g
              /\ \A x \in DOMAIN f \cup DOMAIN g :
                    extended(g, f)[x] = IF x \in DOMAIN f THEN f[x] ELSE g[x]
BY DEF extended

(* The package database answers what the memo could not. *)
LEMMA QueryHeld == ASSUME ScanInv, HeldInv, NEW t \in Tasks, Query(t) PROVE HeldInv'
<1>1. PICK failing :
        LET fresh == resolve_batch_uncached(host, task[t].batch.missing, failing) IN
        task' = [task EXCEPT ![t].phase = "remember", ![t].pend = fresh.warns,
                             ![t].batch = [map |-> extended(@.map, fresh.map), missing |-> @.missing,
                                           cached |-> @.cached, fresh |-> fresh]]
  BY DEF Query
<1> DEFINE fresh == resolve_batch_uncached(host, task[t].batch.missing, failing)
           map == extended(task[t].batch.map, fresh.map)
           batch == [map |-> map, missing |-> task[t].batch.missing,
                     cached |-> task[t].batch.cached, fresh |-> fresh]
<1>2. /\ task[t].phase = "query" /\ host' = host /\ memo' = memo /\ said' = said
      /\ runner' = runner /\ report' = report
  BY DEF Query
<1>3. /\ \A w \in fresh.warns : w[1] = "provenance"
      /\ \A p \in DOMAIN fresh.map : fresh.map[p] # "none"
      /\ fresh.warns = {} => Sound(task[t].batch.missing, fresh.map)
  <2>1. host \in Hosts
    BY DEF ScanInv
  <2> QED BY <2>1, ResolveTrue DEF Sound
<1>4. task' = [task EXCEPT ![t].phase = "remember", ![t].pend = fresh.warns,
                           ![t].batch = batch]
  BY <1>1 DEF ScanInv, TaskInv
<1> HIDE DEF fresh
<1>5. /\ DOMAIN task[t].batch = {"map", "missing", "cached"}
      /\ \A p \in DOMAIN task[t].batch.map : task[t].batch.map[p] # "none"
      /\ Excused \/ Sound(task[t].ask \ task[t].batch.missing, task[t].batch.map)
  BY <1>2 DEF HeldInv, TaskHeld, Batched
<1>6. batch.map = map /\ batch.missing = task[t].batch.missing /\ batch.fresh = fresh
  <2> HIDE DEF map
  <2> QED OBVIOUS
<1> HIDE DEF batch
<1>7. /\ task' = [u \in Tasks |-> task'[u]] /\ \A u \in Tasks \ {t} : task'[u] = task[u]
      /\ task'[t].at = task[t].at /\ task'[t].phase = "remember" /\ task'[t].found = task[t].found
      /\ task'[t].ask = task[t].ask /\ task'[t].batch = batch /\ task'[t].pend = fresh.warns
  BY <1>4 DEF ScanInv, TaskInv
<1>8. \A p \in DOMAIN map : map[p] # "none"
  <2> DEFINE m == task[t].batch.map
  <2> HIDE DEF m
  <2>1. \A p \in DOMAIN m : m[p] # "none"
    BY <1>5 DEF m
  <2>2. \A p \in DOMAIN extended(m, fresh.map) : extended(m, fresh.map)[p] # "none"
    <3>1. DOMAIN extended(m, fresh.map) = DOMAIN fresh.map \cup DOMAIN m
      BY Overlaid
    <3>2. \A p \in DOMAIN fresh.map \cup DOMAIN m :
             extended(m, fresh.map)[p] = IF p \in DOMAIN fresh.map THEN fresh.map[p] ELSE m[p]
      BY Overlaid
    <3> QED BY <1>3, <2>1, <3>1, <3>2
  <2> QED BY <2>2 DEF m
<1>9. fresh.warns # {} => Doubted(t)'
  BY <1>3, <1>7 DEF Doubted
<1>10. Excused => Doubted(t)'
  BY <1>2 DEF Doubted, Excused
<1>11. ASSUME fresh.warns = {}, ~Excused
       PROVE  Sound(task[t].ask, map) /\ Sound(task[t].batch.missing, fresh.map)
  <2>1. DOMAIN map = DOMAIN fresh.map \cup DOMAIN task[t].batch.map
    BY Overlaid
  <2> HIDE DEF map
  <2> QED BY <1>3, <1>5, <1>8, <1>11, <2>1 DEF Sound
<1> HIDE DEF map
<1>12. Batched(t)'
  <2>1. \A P, m : Sound(P, m)' = Sound(P, m)
    BY <1>2 DEF Sound
  <2> QED BY <1>3, <1>6, <1>7, <1>8, <1>9, <1>10, <1>11, <2>1 DEF Batched
<1>13. Gathered(t)'
  BY <1>2, <1>7, GoesOn DEF HeldInv, TaskHeld
<1>14. \A f \in task'[t].found : Trusted(f)'
  BY <1>2, <1>7 DEF HeldInv, TaskHeld, Trusted, Excused
<1>15. MemoTrusted'
  BY <1>2, MemoStays DEF HeldInv
<1> QED BY <1>2, <1>7, <1>12, <1>13, <1>14, <1>15, StepHeld DEF Ended, TaskHeld

(* What the database answered soundly is put into the memo. *)
LEMMA RememberHeld == ASSUME ScanInv, HeldInv, NEW t \in Tasks, Remember(t) PROVE HeldInv'
<1> DEFINE b == task[t].batch
           learned == [p \in b.missing |-> IF p \in DOMAIN b.fresh.map THEN b.fresh.map[p] ELSE "none"]
<1>1. /\ task[t].phase = "remember" /\ task[t].pend = {}
      /\ \/ memo' = memo
         \/ memo' = [source |-> b.fresh.source, known |-> extended(memo.known, learned)]
      /\ \E source : task' = Resolved(t, b.map, source)
      /\ host' = host /\ said' = said /\ runner' = runner /\ report' = report
  BY DEF Remember
<1>2. /\ \A p \in DOMAIN b.map : b.map[p] # "none"
      /\ \A p \in DOMAIN b.fresh.map : b.fresh.map[p] # "none"
      /\ Doubted(t) \/ (Sound(task[t].ask, b.map) /\ Sound(b.missing, b.fresh.map))
  BY <1>1 DEF HeldInv, TaskHeld, Batched
<1>3. Doubted(t) => Excused
  BY <1>1 DEF Doubted, Excused
<1> HIDE DEF b
<1>4. MemoTrusted'
  <2>1. CASE memo' = memo
    BY <1>1, <2>1, MemoStays DEF HeldInv
  <2>2. CASE memo' = [source |-> b.fresh.source, known |-> extended(memo.known, learned)]
    <3>1. memo'.known = extended(memo.known, learned)
      BY <2>2
    <3>2. DOMAIN learned = b.missing
      BY Zenon
    <3>3. Sound(b.missing, b.fresh.map) =>
            \A p \in b.missing : learned[p] = "none" => ~owned(host, p)
      BY DEF Sound
    <3> HIDE DEF learned
    <3>4. DOMAIN memo'.known = b.missing \cup DOMAIN memo.known
      <4>1. DOMAIN extended(memo.known, learned) = DOMAIN learned \cup DOMAIN memo.known
        BY Overlaid
      <4> QED BY <3>1, <3>2, <4>1
    <3>5. \A p \in DOMAIN memo'.known :
             memo'.known[p] = IF p \in b.missing THEN learned[p] ELSE memo.known[p]
      <4>1. \A p \in DOMAIN learned \cup DOMAIN memo.known : extended(memo.known, learned)[p] =
                IF p \in DOMAIN learned THEN learned[p] ELSE memo.known[p]
        BY Overlaid
      <4> QED BY <3>1, <3>2, <3>4, <4>1
    <3> QED BY <1>1, <1>2, <1>3, <3>3, <3>4, <3>5 DEF HeldInv, MemoTrusted, Excused
  <2> QED BY <1>1, <2>1, <2>2
<1>5. PICK source : task' = Resolved(t, b.map, source)
  BY <1>1
<1>6. Excused \/ Sound(task[t].ask, b.map)
  BY <1>2, <1>3
<1> QED BY <1>1, <1>2, <1>4, <1>5, <1>6, ResolvedHeld

(* A task ends with all its scanners gathered. *)
LEMMA ReturnsHeld == ASSUME ScanInv, HeldInv, NEW t \in Tasks, Returns(t) PROVE HeldInv'
<1>1. /\ task[t].phase = "scan" /\ task[t].at > Len(Program[t])
      /\ task' = [task EXCEPT ![t].phase = "returned"]
      /\ host' = host /\ memo' = memo /\ said' = said /\ runner' = runner /\ report' = report
  BY DEF Returns
<1>2. /\ task' = [u \in Tasks |-> task'[u]] /\ \A u \in Tasks \ {t} : task'[u] = task[u]
      /\ task'[t].at = task[t].at /\ task'[t].phase = "returned" /\ task'[t].found = task[t].found
  BY <1>1 DEF ScanInv, TaskInv
<1>3. Gathered(t)'
  <2>1. \A i : PieceOf(t, i)' = PieceOf(t, i)
    BY <1>1 DEF PieceOf
  <2>2. ASSUME NEW i \in 1 .. Len(Program[t]) PROVE Past(t, i)
    BY <1>1, HereFacts DEF Past
  <2>3. Gathered(t)
    BY DEF HeldInv, TaskHeld
  <2> QED BY <1>1, <1>2, <2>1, <2>2, <2>3 DEF Gathered
<1>4. Batched(t)'
  BY <1>2 DEF Batched
<1>5. \A f \in task'[t].found : Trusted(f)'
  BY <1>1, <1>2 DEF HeldInv, TaskHeld, Trusted, Excused
<1>6. MemoTrusted'
  BY <1>1, MemoStays DEF HeldInv
<1> QED BY <1>1, <1>2, <1>3, <1>4, <1>5, <1>6, StepHeld DEF Ended, TaskHeld

(* A task that panics leaves nothing behind but its error. *)
LEMMA PanicsHeld == ASSUME ScanInv, HeldInv, NEW t \in Tasks, Panics(t) PROVE HeldInv'
<1>1. /\ task[t].phase \notin Ended
      /\ task' = [task EXCEPT ![t].phase = "panicked", ![t].found = {}, ![t].pend = {},
                              ![t].batch = none]
      /\ host' = host /\ memo' = memo /\ said' = said /\ runner' = runner /\ report' = report
  BY DEF Panics
<1>2. /\ task' = [u \in Tasks |-> task'[u]] /\ \A u \in Tasks \ {t} : task'[u] = task[u]
      /\ task'[t].phase = "panicked" /\ task'[t].found = {}
  BY <1>1 DEF ScanInv, TaskInv
<1>3. TaskHeld(t)'
  BY <1>2 DEF TaskHeld, Gathered, Batched
<1>4. MemoTrusted'
  BY <1>1, MemoStays DEF HeldInv
<1> QED BY <1>1, <1>2, <1>3, <1>4, StepHeld

(* Linking a list of triples appends to its entries and leaves the others alone. *)
KeyOf(f) == <<f[1], IF Len(f) > 1 THEN f[2] ELSE "">>

(* Linking a list of triples appends to its entries and leaves the others alone. *)
LEMMA LinkedFacts ==
    ASSUME NEW F, NEW C, NEW field, NEW list, NEW at, \A f \in F : f[1] = list => Triple(f)
    PROVE  LET L == linked(F, C, field, list, at) IN
           /\ \A f \in F : \E g \in L : g[1] = f[1] /\ KeyOf(g) = KeyOf(f) /\ (f[1] # list => g = f)
           /\ \A g \in L : g[1] # list => g \in F
<1> DEFINE of(f) == owners_of(C, field, f[at])
           to(f) == IF f[1] = list /\ of(f) # {} THEN Append(f, Min(of(f))) ELSE f
           L == linked(F, C, field, list, at)
<1>1. L = {to(f) : f \in F}
  BY Zenon DEF linked
<1>2. ASSUME NEW f \in F PROVE to(f)[1] = f[1] /\ KeyOf(to(f)) = KeyOf(f) /\ (f[1] # list => to(f) = f)
  <2>1. CASE to(f) = f
    BY <2>1
  <2>2. CASE f[1] = list /\ to(f) = Append(f, Min(of(f)))
    <3>1. f = <<f[1], f[2], f[3]>>
      BY <2>2 DEF Triple
    <3> DEFINE a == f[1]
               b == f[2]
               c == f[3]
               d == Min(of(f))
    <3> HIDE DEF a, b, c, d
    <3>2. /\ Append(<<a, b, c>>, d)[1] = a /\ Append(<<a, b, c>>, d)[2] = b
          /\ Len(Append(<<a, b, c>>, d)) = 4 /\ Len(<<a, b, c>>) = 3
      OBVIOUS
    <3>3. f = <<a, b, c>>
      BY <3>1 DEF a, b, c
    <3>4. to(f) = Append(<<a, b, c>>, d)
      BY <2>2, <3>3 DEF d
    <3> HIDE DEF to
    <3>5. to(f)[1] = a /\ to(f)[2] = b /\ Len(to(f)) = 4 /\ Len(f) = 3 /\ f[1] = a /\ f[2] = b
      BY <3>2, <3>3, <3>4
    <3> QED BY <2>2, <3>5 DEF KeyOf
  <2> QED BY <2>1, <2>2
<1> HIDE DEF to, L
<1> QED BY <1>1, <1>2 DEF L

(* The runner joins the tasks, sorts the report and links what it lists. *)
LEMMA JoinHeld == ASSUME ScanInv, HeldInv, Join PROVE HeldInv'
<1> DEFINE found == UNION {task[t].found : t \in Tasks}
           C == {f \in found : f[1] = "containers"}
           net == linked(found, C, 5, "foreign_netns_listeners", 2)
           mnt == linked(net, C, 6, "mount_namespace_anomalies", 3)
           bypass == detect_firewall_bypass(C, <<"firewall_active", TRUE>> \in found)
<1>1. /\ runner.at = "join" /\ \E W, U : runner' = [at |-> "linked", found |-> mnt \cup bypass,
                                                    pend |-> W, failed |-> U]
      /\ host' = host /\ task' = task /\ memo' = memo /\ said' = said /\ report' = report
  <2>1. /\ link_foreign_netns_to_containers(found, C).found = net
        /\ link_mount_ns_to_containers(net, C).found = mnt
    BY PieceFields DEF link_foreign_netns_to_containers, link_mount_ns_to_containers
  <2> HIDE DEF net, mnt, bypass
  <2> QED BY <2>1, Zenon DEF Join, bypass
<1>2. found = Joined /\ Joined' = Joined
  BY <1>1 DEF Joined
<1>3. \A f \in found : Trusted(f)
  BY DEF HeldInv, TaskHeld
<1> HIDE DEF found
<1>4. /\ \A f \in found : \E g \in net : /\ g[1] = f[1] /\ KeyOf(g) = KeyOf(f)
                                         /\ f[1] # "foreign_netns_listeners" => g = f
      /\ \A g \in net : g[1] # "foreign_netns_listeners" => g \in found
  <2>1. \A f \in found : f[1] = "foreign_netns_listeners" => Triple(f)
    BY <1>3 DEF Trusted, Linked
  <2> HIDE DEF C
  <2> QED BY <2>1, LinkedFacts
<1>5. /\ \A f \in net : \E g \in mnt : /\ g[1] = f[1] /\ KeyOf(g) = KeyOf(f)
                                       /\ f[1] # "mount_namespace_anomalies" => g = f
      /\ \A g \in mnt : g[1] # "mount_namespace_anomalies" => g \in net
  <2>1. \A f \in net : f[1] = "mount_namespace_anomalies" => Triple(f)
    BY <1>3, <1>4 DEF Trusted, Linked
  <2> HIDE DEF C, net
  <2> QED BY <2>1, LinkedFacts
<1>6. \A f \in bypass : f[1] = Bypass
  BY DEF detect_firewall_bypass, Bypass
<1>7. runner'.found = mnt \cup bypass /\ runner'.at = "linked"
  <2> HIDE DEF mnt, bypass
  <2> QED BY <1>1
<1> HIDE DEF net, mnt, bypass
<1>8. LinkHeld'
  <2>1. ASSUME NEW f \in found
        PROVE  \E g \in mnt : g[1] = f[1] /\ KeyOf(g) = KeyOf(f) /\ (f[1] \notin Linked => g = f)
    <3>1. PICK e \in net : /\ e[1] = f[1] /\ KeyOf(e) = KeyOf(f)
                           /\ f[1] # "foreign_netns_listeners" => e = f
      BY <1>4
    <3>2. PICK g \in mnt : /\ g[1] = e[1] /\ KeyOf(g) = KeyOf(e)
                           /\ e[1] # "mount_namespace_anomalies" => g = e
      BY <1>5
    <3> QED BY <3>1, <3>2 DEF Linked
  <2>2. \A X, Y : (\A f \in X : \E g \in Y : KeyOf(g) = KeyOf(f)) => Keys(X) \subseteq Keys(Y)
    BY DEF Keys, KeyOf
  <2>3. Keys(found) \subseteq Keys(mnt \cup bypass)
    BY <2>1, <2>2
  <2>4. \A f \in found : f[1] \notin Linked => f \in mnt
    BY <2>1
  <2>5. \A f \in mnt \cup bypass : f[1] \notin Linked \cup {Bypass} => f \in found
    BY <1>4, <1>5, <1>6 DEF Linked
  <2> QED BY <1>2, <1>7, <2>3, <2>4, <2>5 DEF LinkHeld
<1>9. report = none
  BY <1>1 DEF HeldInv, ReportHeld
<1>10. \A t \in Tasks : TaskHeld(t)'
  BY <1>1, HeldStays DEF HeldInv
<1>11. MemoTrusted'
  BY <1>1, MemoStays DEF HeldInv
<1> QED BY <1>1, <1>8, <1>9, <1>10, <1>11 DEF HeldInv, ReportHeld

(* The runner's other steps. *)
LEMMA RunnerHeld == ASSUME ScanInv, HeldInv, RecordLinks \/ Drain PROVE HeldInv'
<1>1. /\ host' = host /\ task' = task /\ memo' = memo /\ said \subseteq said'
  BY DEF RecordLinks, Drain
<1>2. (\A t \in Tasks : TaskHeld(t)') /\ MemoTrusted'
  BY <1>1, HeldStays, MemoStays DEF HeldInv
<1>3. DOMAIN runner = {"at", "found", "failed", "pend"}
  BY DEF ScanInv, JoinInv
<1>4. runner.at = "linked"
  BY DEF RecordLinks, Drain, ScanInv, JoinInv
<1>5. runner'.found = runner.found /\ runner'.failed = runner.failed /\ Joined' = Joined
  BY <1>1, <1>3 DEF RecordLinks, Drain, Joined
<1>6. LinkHeld'
  BY <1>4, <1>5 DEF HeldInv, LinkHeld
<1>7. ReportHeld'
  <2>1. CASE RecordLinks
    BY <1>4, <2>1 DEF RecordLinks, HeldInv, ReportHeld
  <2>2. CASE Drain
    <3>1. /\ report' = [found |-> runner.found, failed_scanners |-> runner.failed,
                        coverage_warnings |-> ToSet(sink)]
          /\ runner' = [runner EXCEPT !.at = "done"] /\ said' = said
      BY <2>2 DEF Drain
    <3>2. /\ report'.found = runner.found /\ report'.failed_scanners = runner.failed
          /\ report'.coverage_warnings = ToSet(sink) /\ runner'.at = "done"
      BY <1>3, <3>1
    <3>3. said \subseteq ToSet(sink) \/ CapReached \in ToSet(sink)
      BY <1>4 DEF ScanInv, SinkInv
    <3> QED BY <1>5, <3>1, <3>2, <3>3 DEF ReportHeld
  <2> QED BY <2>1, <2>2
<1> QED BY <1>2, <1>6, <1>7 DEF HeldInv

(* What every report holds was observed, and every warning that was owed is said. *)
THEOREM HeldInvariance == Spec => [](ScanInv /\ HeldInv)
<1>1. Init => HeldInv
  <2> SUFFICES ASSUME Init PROVE HeldInv
    OBVIOUS
  <2>1. /\ task = [t \in Tasks |-> IF t \in host.busy THEN Idle ELSE [Idle EXCEPT !.phase = "returned"]]
        /\ memo = [source |-> none, known |-> NoOwners]
        /\ runner = [at |-> "join", found |-> {}, failed |-> {}, pend |-> {}] /\ report = none
    BY DEF Init
  <2>2. ASSUME NEW t \in Tasks PROVE TaskHeld(t)
    <3>1. /\ task[t].found = {} /\ task[t].at = 1 /\ task[t].phase \in {"scan", "returned"}
          /\ t \in host.busy => task[t].phase = "scan"
      BY <2>1 DEF Idle
    <3>2. ASSUME NEW i \in 1 .. Len(Program[t]), Past(t, i) PROVE t \notin host.busy
      BY <3>1, <3>2, NamesOfScanners DEF Past
    <3> QED BY <3>1, <3>2 DEF TaskHeld, Gathered, Batched
  <2>3. MemoTrusted
    BY <2>1 DEF MemoTrusted, NoOwners
  <2>4. LinkHeld /\ ReportHeld
    BY <2>1 DEF LinkHeld, ReportHeld
  <2> QED BY <2>2, <2>3, <2>4 DEF HeldInv
<1>2. ScanInv /\ HeldInv /\ [Next]_vars => HeldInv'
  <2> SUFFICES ASSUME ScanInv, HeldInv, [Next]_vars PROVE HeldInv'
    OBVIOUS
  <2>1. CASE UNCHANGED vars
    <3>1. /\ host' = host /\ task' = task /\ memo' = memo /\ said' = said /\ runner' = runner
          /\ report' = report
      BY <2>1 DEF vars
    <3>2. (\A t \in Tasks : TaskHeld(t)') /\ MemoTrusted'
      BY <3>1, HeldStays, MemoStays DEF HeldInv
    <3> QED BY <3>1, <3>2 DEF HeldInv, LinkHeld, ReportHeld, Joined
  <2>2. ASSUME NEW t \in Tasks, Step(t) \/ Panics(t) PROVE HeldInv'
    BY <2>2, ScanHeld, RecordHeld, RecordedHeld, LookUpHeld, QueryHeld, RememberHeld, ReturnsHeld,
       PanicsHeld DEF Step
  <2> QED BY <2>1, <2>2, JoinHeld, RunnerHeld DEF Next
<1> QED BY <1>1, <1>2, ScanInvariance, PTL DEF Spec

(* What a report says is not there was looked for. *)
LEMMA AbsenceHolds == ASSUME ScanInv, HeldInv PROVE AbsenceIsObserved
<1> SUFFICES ASSUME report # none PROVE ZeroIsZero /\ UnpackagedIsTrue
  BY DEF AbsenceIsObserved, ZeroIsZero, UnpackagedIsTrue
<1>1. /\ runner.at = "done" /\ report.found = runner.found
      /\ said \subseteq report.coverage_warnings \/ CapReached \in report.coverage_warnings
  BY DEF HeldInv, ReportHeld
<1>2. ASSUME NEW f \in report.found, f[1] \in {"package", "mapped_by_pids"} PROVE Trusted(f)
  <2>1. f \in Joined
    BY <1>1, <1>2 DEF HeldInv, LinkHeld, Linked, Bypass
  <2> QED BY <2>1 DEF HeldInv, TaskHeld, Joined
<1>3. ZeroIsZero
  BY <1>2 DEF ZeroIsZero, Trusted, Unmapped
<1>4. UnpackagedIsTrue
  <2>1. CASE Excused
    <3>1. \E w \in report.coverage_warnings : w[1] = "provenance" \/ w = CapReached
      BY <1>1, <2>1 DEF Excused
    <3> QED BY <3>1 DEF UnpackagedIsTrue
  <2>2. CASE ~Excused
    BY <1>2, <2>2 DEF UnpackagedIsTrue, Trusted
  <2> QED BY <2>1, <2>2
<1> QED BY <1>3, <1>4

(* An entry that says a file has no owner or is mapped by no process rests on a look
   at everything that could say otherwise (AbsenceIsObserved), on every machine. *)
THEOREM AbsenceInvariance == Spec => []AbsenceIsObserved
BY HeldInvariance, AbsenceHolds, PTL

-------------------------------------------------------------------------------
(* Sudoers: no root rule is missed where nothing is said. *)

(* Sequences laid end to end. *)
LEMMA FlattenDef ==
    ASSUME NEW ss, Len(ss) \in Nat
    PROVE  \E flat : /\ flat = [i \in 1 .. Len(ss) |-> IF i = 1 THEN ss[i] ELSE flat[i - 1] \o ss[i]]
                     /\ FlattenSeq(ss) = IF Len(ss) = 0 THEN ss ELSE flat[Len(ss)]
<1> DEFINE P(flat, n) == flat = [i \in 1 .. n |-> IF i = 1 THEN ss[i] ELSE flat[i - 1] \o ss[i]]
<1>1. \A n \in Nat : \E flat : P(flat, n)
  <2> DEFINE T == {n \in Nat : ~ \E flat : P(flat, n)}
  <2> SUFFICES ASSUME T # {} PROVE FALSE
    OBVIOUS
  <2>1. PICK n \in T : \A m \in T : n <= m
    BY LeastNumber
  <2>2. n # 0
    <3>1. P([i \in 1 .. 0 |-> 0], 0)
      OBVIOUS
    <3> QED BY <2>1, <3>1
  <2>3. PICK f : P(f, n - 1)
    <3> HIDE DEF P
    <3>1. n - 1 \in Nat /\ ~(n <= n - 1)
      BY <2>1, <2>2
    <3>2. n - 1 \notin T
      BY <2>1, <3>1
    <3> QED BY <3>1, <3>2
  <2> DEFINE g == [i \in 1 .. n |-> IF i = 1 THEN ss[i] ELSE f[i - 1] \o ss[i]]
  <2>4. \A i \in 1 .. (n - 1) : g[i] = f[i]
    <3> SUFFICES ASSUME NEW i \in 1 .. (n - 1) PROVE g[i] = f[i]
      OBVIOUS
    <3>1. f[i] = IF i = 1 THEN ss[i] ELSE f[i - 1] \o ss[i]
      BY <2>3
    <3>2. i \in 1 .. n
      BY <2>1
    <3> QED BY <3>1, <3>2
  <2>5. P(g, n)
    <3>1. ASSUME NEW i \in 1 .. n
          PROVE  g[i] = IF i = 1 THEN ss[i] ELSE g[i - 1] \o ss[i]
      <4>1. i # 1 => i - 1 \in 1 .. (n - 1)
        BY <2>1
      <4>2. i # 1 => g[i - 1] = f[i - 1]
        BY <2>4, <4>1
      <4>3. g[i] = IF i = 1 THEN ss[i] ELSE f[i - 1] \o ss[i]
        OBVIOUS
      <4> HIDE DEF g
      <4> QED BY <4>2, <4>3
    <3>2. g = [i \in 1 .. n |-> g[i]]
      OBVIOUS
    <3> HIDE DEF g
    <3> QED BY <3>1, <3>2
  <2> QED BY <2>1, <2>5
<1>2. PICK e : P(e, Len(ss))
  BY <1>1
<1> DEFINE F == CHOOSE flat : P(flat, Len(ss))
<1>3. P(F, Len(ss))
  BY <1>2
<1>4. FlattenSeq(ss) = IF Len(ss) = 0 THEN ss ELSE F[Len(ss)]
  BY Zenon DEF FlattenSeq
<1> HIDE DEF F
<1> QED BY <1>3, <1>4

(* The elements of a sequence, of a concatenation and of a tail. *)
LEMMA ToSetFacts ==
    ASSUME NEW S, NEW s \in Seq(S), NEW u \in Seq(S)
    PROVE  /\ ToSet(s \o u) = ToSet(s) \cup ToSet(u) /\ ToSet(s) \subseteq S
           /\ s \in Seq(ToSet(s)) /\ DOMAIN s = 1 .. Len(s) /\ Len(s) \in Nat
           /\ \A x \in ToSet(s) : \E i \in 1 .. Len(s) : s[i] = x
           /\ \A i \in 1 .. Len(s) : s[i] \in ToSet(s)
<1>1. /\ Len(s) \in Nat /\ Len(u) \in Nat /\ DOMAIN s = 1 .. Len(s) /\ DOMAIN u = 1 .. Len(u)
      /\ s \o u \in Seq(S) /\ Len(s \o u) = Len(s) + Len(u) /\ DOMAIN (s \o u) = 1 .. Len(s) + Len(u)
  OBVIOUS
<1>2. \A i \in 1 .. Len(s) + Len(u) : (s \o u)[i] = IF i <= Len(s) THEN s[i] ELSE u[i - Len(s)]
  OBVIOUS
<1>3. ToSet(s \o u) \subseteq ToSet(s) \cup ToSet(u)
  <2> SUFFICES ASSUME NEW i \in 1 .. Len(s) + Len(u) PROVE (s \o u)[i] \in ToSet(s) \cup ToSet(u)
    BY <1>1 DEF ToSet
  <2>1. CASE i <= Len(s)
    BY <1>1, <1>2, <2>1 DEF ToSet
  <2>2. CASE ~(i <= Len(s))
    <3>1. i - Len(s) \in 1 .. Len(u)
      BY <1>1, <2>2
    <3> QED BY <1>1, <1>2, <2>2, <3>1 DEF ToSet
  <2> QED BY <2>1, <2>2
<1>4. ToSet(s) \cup ToSet(u) \subseteq ToSet(s \o u)
  <2>1. ASSUME NEW i \in 1 .. Len(s) PROVE s[i] \in ToSet(s \o u)
    <3>1. i \in 1 .. Len(s) + Len(u) /\ (s \o u)[i] = s[i]
      BY <1>1, <1>2
    <3> QED BY <1>1, <3>1 DEF ToSet
  <2>2. ASSUME NEW i \in 1 .. Len(u) PROVE u[i] \in ToSet(s \o u)
    <3>1. i + Len(s) \in 1 .. Len(s) + Len(u) /\ (s \o u)[i + Len(s)] = u[i]
      BY <1>1, <1>2
    <3> QED BY <1>1, <3>1 DEF ToSet
  <2> QED BY <1>1, <2>1, <2>2 DEF ToSet
<1>5. ToSet(s) \subseteq S /\ s \in Seq(ToSet(s))
  BY <1>1 DEF ToSet
<1>6. (\A x \in ToSet(s) : \E i \in 1 .. Len(s) : s[i] = x) /\ \A i \in 1 .. Len(s) : s[i] \in ToSet(s)
  BY <1>1 DEF ToSet
<1> QED BY <1>1, <1>3, <1>4, <1>5, <1>6

(* What is in sequences laid end to end is in one of them. *)
LEMMA FlattenFacts ==
    ASSUME NEW S, NEW ss \in Seq(Seq(S)), NEW K \in Nat, \A i \in 1 .. Len(ss) : Len(ss[i]) <= K
    PROVE  /\ FlattenSeq(ss) \in Seq(S) /\ Len(FlattenSeq(ss)) <= Len(ss) * K
           /\ ToSet(FlattenSeq(ss)) = UNION {ToSet(ss[i]) : i \in 1 .. Len(ss)}
<1> DEFINE N == Len(ss)
<1>0. N \in Nat /\ \A i \in 1 .. N : ss[i] \in Seq(S)
  OBVIOUS
<1>1. PICK flat : /\ flat = [i \in 1 .. N |-> IF i = 1 THEN ss[i] ELSE flat[i - 1] \o ss[i]]
                  /\ FlattenSeq(ss) = IF N = 0 THEN ss ELSE flat[N]
  BY <1>0, FlattenDef
<1> HIDE DEF N
<1>2. \A i \in 1 .. N : flat[i] = IF i = 1 THEN ss[i] ELSE flat[i - 1] \o ss[i]
  BY <1>1
<1> DEFINE Q(i) == /\ flat[i] \in Seq(S) /\ Len(flat[i]) <= i * K
                   /\ ToSet(flat[i]) = UNION {ToSet(ss[j]) : j \in 1 .. i}
<1>3. \A i \in 1 .. N : Q(i)
  <2> DEFINE T == {i \in 1 .. N : ~Q(i)}
  <2> SUFFICES ASSUME T # {} PROVE FALSE
    OBVIOUS
  <2>1. PICK i \in T : \A m \in T : i <= m
    <3> HIDE DEF Q
    <3>1. T \in SUBSET Nat
      BY <1>0
    <3> HIDE DEF T
    <3> QED BY <3>1, LeastNumber
  <2>2. i \in 1 .. N /\ ~Q(i)
    BY <2>1
  <2>3. CASE i = 1
    <3>1. flat[i] = ss[i] /\ 1 * K = K /\ 1 .. 1 = {1}
      BY <1>2, <2>2, <2>3
    <3>2. UNION {ToSet(ss[j]) : j \in 1 .. i} = ToSet(ss[i])
      BY <2>3, <3>1
    <3>3. Len(ss[i]) <= K
      BY <2>2 DEF N
    <3> QED BY <1>0, <2>2, <2>3, <3>1, <3>2, <3>3
  <2>4. CASE i # 1
    <3>1. i - 1 \in 1 .. N /\ ~(i <= i - 1)
      BY <1>0, <2>2, <2>4
    <3>2. Q(i - 1)
      <4> HIDE DEF Q
      <4> QED BY <2>1, <3>1
    <3>3. flat[i] = flat[i - 1] \o ss[i] /\ ss[i] \in Seq(S) /\ Len(ss[i]) <= K
      BY <1>0, <1>2, <2>2, <2>4 DEF N
    <3>4. flat[i] \in Seq(S) /\ Len(flat[i]) = Len(flat[i - 1]) + Len(ss[i])
      BY <3>2, <3>3
    <3>5. (i - 1) * K + K = i * K
      BY <2>2, <1>0
    <3>6. Len(flat[i]) <= i * K
      <4> DEFINE a == Len(flat[i - 1])
                 b == Len(ss[i])
                 x == (i - 1) * K
      <4>0. a \in Nat /\ b \in Nat
        BY <3>2, <3>3
      <4>1. x \in Int /\ a <= x /\ b <= K
        <5>1. \A m \in Int : m * K \in Int
          OBVIOUS
        <5>2. i - 1 \in Int
          BY <1>0, <2>2
        <5> QED BY <3>2, <3>3, <5>1, <5>2
      <4>2. Len(flat[i]) = a + b /\ i * K = x + K
        BY <3>4, <3>5
      <4> HIDE DEF a, b, x
      <4> QED BY <4>0, <4>1, <4>2
    <3>7. ToSet(flat[i]) = ToSet(flat[i - 1]) \cup ToSet(ss[i])
      <4>1. flat[i - 1] \in Seq(S)
        BY <3>2
      <4>2. \A s, u \in Seq(S) : ToSet(s \o u) = ToSet(s) \cup ToSet(u)
        BY ToSetFacts
      <4>3. ToSet(flat[i - 1] \o ss[i]) = ToSet(flat[i - 1]) \cup ToSet(ss[i])
        BY <3>3, <4>1, <4>2, Zenon
      <4> QED BY <3>3, <4>3, Zenon
    <3>8. 1 .. i = (1 .. (i - 1)) \cup {i}
      BY <2>2
    <3>9. UNION {ToSet(ss[j]) : j \in 1 .. i} = (UNION {ToSet(ss[j]) : j \in 1 .. (i - 1)}) \cup ToSet(ss[i])
      BY <3>8
    <3> QED BY <2>2, <3>2, <3>4, <3>6, <3>7, <3>9
  <2> QED BY <2>3, <2>4
<1>4. CASE N = 0
  <2>1. ss = <<>> /\ FlattenSeq(ss) = <<>> /\ 0 * K = 0
    BY <1>1, <1>4 DEF N
  <2>2. ToSet(<<>>) = {} /\ {ToSet(ss[i]) : i \in 1 .. Len(ss)} = {}
    BY <2>1 DEF ToSet
  <2>3. Len(<<>>) = 0 /\ <<>> \in Seq(S) /\ Len(ss) = 0
    BY <2>1
  <2>4. Len(ss) * K = 0
    BY <2>1, <2>3
  <2>5. ToSet(FlattenSeq(ss)) = UNION {ToSet(ss[i]) : i \in 1 .. Len(ss)}
    BY <2>1, <2>2
  <2>6. FlattenSeq(ss) \in Seq(S) /\ Len(FlattenSeq(ss)) = 0
    BY <2>1, <2>3
  <2> QED BY <2>4, <2>5, <2>6
<1>5. CASE N # 0
  <2>1. N \in 1 .. N
    BY <1>0, <1>5
  <2>2. Q(N) /\ FlattenSeq(ss) = flat[N]
    <3> HIDE DEF Q
    <3> QED BY <1>1, <1>3, <1>5, <2>1
  <2> QED BY <2>2 DEF N
<1> QED BY <1>4, <1>5

(* The greatest of finitely many numbers. *)
LEMMA Bounded ==
    ASSUME NEW S \in SUBSET Nat, IsFiniteSet(S)
    PROVE  \E b \in Nat : \A y \in S : y <= b
<1> DEFINE B(U) == \E b \in Nat : \A y \in U : y <= b
           T == {n \in Nat : \E U \in SUBSET Nat : IsFiniteSet(U) /\ Cardinality(U) = n /\ ~B(U)}
<1>1. T = {}
  <2> SUFFICES ASSUME T # {} PROVE FALSE
    OBVIOUS
  <2>1. PICK n \in T : \A m \in T : n <= m
    <3>1. T \in SUBSET Nat
      OBVIOUS
    <3> HIDE DEF T
    <3> QED BY <3>1, LeastNumber
  <2>2. PICK U \in SUBSET Nat : IsFiniteSet(U) /\ Cardinality(U) = n /\ ~B(U)
    <3> HIDE DEF B
    <3> QED BY <2>1
  <2>3. U # {}
    BY <2>2
  <2>4. PICK x \in U : TRUE
    BY <2>3
  <2> DEFINE V == U \ {x}
  <2>5. IsFiniteSet(V) /\ Cardinality(V) = n - 1 /\ V \in SUBSET Nat
    BY <2>2, <2>4, FS_RemoveElement
  <2>6. n - 1 \in Nat /\ ~(n <= n - 1)
    BY <2>1, <2>5, FS_CardinalityType
  <2>7. B(V)
    <3> HIDE DEF B, V
    <3> QED BY <2>1, <2>5, <2>6
  <2>8. PICK b \in Nat : \A y \in V : y <= b
    BY <2>7
  <2>9. \A y \in U : y <= b + x
    BY <2>4, <2>8
  <2>10. b + x \in Nat
    BY <2>4
  <2> QED BY <2>2, <2>9, <2>10
<1>2. Cardinality(S) \in Nat
  BY FS_CardinalityType
<1>3. B(S)
  <2> HIDE DEF B
  <2> QED BY <1>1, <1>2
<1> QED BY <1>3

(* A finite set of numbers that is not empty has a greatest. *)
LEMMA FiniteMax ==
    ASSUME NEW S \in SUBSET Nat, IsFiniteSet(S), S # {}
    PROVE  Max(S) \in Nat /\ \A y \in S : y <= Max(S)
<1>1. PICK b \in Nat : \A y \in S : y <= b
  BY Bounded
<1> DEFINE T == {k \in Nat : b - k \in S}
<1>2. T \in SUBSET Nat /\ T # {}
  <2>1. PICK x \in S : TRUE
    OBVIOUS
  <2>2. b - x \in T
    BY <1>1
  <2> QED BY <2>2
<1>3. PICK k \in T : \A m \in T : k <= m
  BY <1>2, LeastNumber
<1>4. ASSUME NEW y \in S PROVE b - k >= y
  <2>1. b - y \in T
    BY <1>1
  <2>2. k <= b - y
    BY <1>3, <2>1
  <2> QED BY <2>2
<1>5. b - k \in S
  BY <1>3
<1>6. \E x \in S : \A y \in S : x >= y
  BY <1>4, <1>5
<1>7. Max(S) \in S /\ \A y \in S : Max(S) >= y
  BY <1>6 DEF Max
<1> QED BY <1>7

(* The numbers that a function gives to a finite set are finitely many. *)
LEMMA FiniteImage ==
    ASSUME NEW D, IsFiniteSet(D), NEW f, f = [p \in D |-> f[p]]
    PROVE  IsFiniteSet({f[p] : p \in D})
<1>1. f \in Surjection(D, {f[p] : p \in D})
  BY DEF Surjection
<1> QED BY <1>1, FS_Surjection

-------------------------------------------------------------------------------
(* The sudoers files.  The names that may be queued, and how many a file may add. *)
Names(h) == {"sudoers", "sudoers.d"} \cup {l[2] : l \in lines_in(h, DOMAIN h.file)}
            \cup UNION {children(h, p) : p \in DOMAIN h.file}
Longest(h) == Max({Len(h.file[p].lines) : p \in DOMAIN h.file} \cup {0})
Broadest(h) == Max({Cardinality(h.file[p].children) : p \in DOMAIN h.file} \cup {0})
Width(h) == (Longest(h) + 1) * (Broadest(h) + 1)

(* How many names a line of a file of this machine can lead to. *)
LEMMA WidthFacts ==
    ASSUME NEW h, Machine(h)
    PROVE  /\ Longest(h) \in Nat /\ Broadest(h) \in Nat
           /\ \A p \in DOMAIN h.file : /\ Len(h.file[p].lines) <= Longest(h)
                                       /\ Cardinality(h.file[p].children) <= Broadest(h)
<1>1. IsFiniteSet(DOMAIN h.file) /\ \A p \in DOMAIN h.file : File(h.file[p])
  BY DEF Machine
<1>2. \A p \in DOMAIN h.file : Len(h.file[p].lines) \in Nat /\ Cardinality(h.file[p].children) \in Nat
  <2> SUFFICES ASSUME NEW p \in DOMAIN h.file
               PROVE Len(h.file[p].lines) \in Nat /\ Cardinality(h.file[p].children) \in Nat
    OBVIOUS
  <2>1. h.file[p].lines \in Seq(ToSet(h.file[p].lines)) /\ IsFiniteSet(h.file[p].children)
    BY <1>1 DEF File
  <2> QED BY <2>1, FS_CardinalityType
<1> DEFINE D == DOMAIN h.file
           f == [p \in D |-> Len(h.file[p].lines)]
           g == [p \in D |-> Cardinality(h.file[p].children)]
           A == {f[p] : p \in D}
           B == {g[p] : p \in D}
<1>3. IsFiniteSet(A) /\ IsFiniteSet(B)
  BY <1>1, FiniteImage
<1>4. IsFiniteSet(A \cup {0}) /\ IsFiniteSet(B \cup {0})
  <2> HIDE DEF A, B
  <2> QED BY <1>3, FS_AddElement
<1>5. A \cup {0} \in SUBSET Nat /\ B \cup {0} \in SUBSET Nat
  <2>1. \A p \in D : f[p] \in Nat /\ g[p] \in Nat
    BY <1>2
  <2> HIDE DEF f, g, D
  <2> QED BY <2>1
<1>6. Longest(h) = Max(A \cup {0}) /\ Broadest(h) = Max(B \cup {0})
  <2>1. A = {Len(h.file[p].lines) : p \in D} /\ B = {Cardinality(h.file[p].children) : p \in D}
    OBVIOUS
  <2> HIDE DEF A, B
  <2> QED BY <2>1 DEF Longest, Broadest
<1>7. \A p \in D : Len(h.file[p].lines) \in A /\ Cardinality(h.file[p].children) \in B
  OBVIOUS
<1> HIDE DEF A, B
<1>8. /\ Max(A \cup {0}) \in Nat /\ \A y \in A \cup {0} : y <= Max(A \cup {0})
      /\ Max(B \cup {0}) \in Nat /\ \A y \in B \cup {0} : y <= Max(B \cup {0})
  BY <1>4, <1>5, FiniteMax
<1> QED BY <1>6, <1>7, <1>8

(* The regular files among the entries of a directory, listed. *)
LEMMA ListedFacts ==
    ASSUME NEW h, Machine(h), NEW d
    PROVE  LET S == regular(h, dir_entries(h, d)) IN
           /\ SetToSeq(S) \in Seq(Names(h)) /\ ToSet(SetToSeq(S)) = S
           /\ Len(SetToSeq(S)) \in Nat /\ Len(SetToSeq(S)) <= Broadest(h)
<1> DEFINE S == regular(h, dir_entries(h, d))
<1>1. S \subseteq dir_entries(h, d) /\ IsFiniteSet(dir_entries(h, d))
  BY EntriesFacts DEF regular
<1>2. IsFiniteSet(S) /\ Cardinality(S) <= Cardinality(dir_entries(h, d))
  BY <1>1, FS_Subset
<1>3. SetToSeq(S) \in Seq(S) /\ Len(SetToSeq(S)) = Cardinality(S) /\ ToSet(SetToSeq(S)) = S
      /\ Cardinality(S) \in Nat
  BY <1>2, SetToSeqFacts
<1>4. S \subseteq Names(h) /\ Cardinality(S) <= Broadest(h)
  <2>1. CASE listable(h, d)
    <3>1. d \in DOMAIN h.file /\ dir_entries(h, d) = h.file[d].children
          /\ children(h, d) = h.file[d].children
      BY <2>1 DEF listable, is_dir, exists, dir_entries, children
    <3>2. S \subseteq Names(h)
      BY <1>1, <3>1 DEF Names
    <3>3. Cardinality(dir_entries(h, d)) <= Broadest(h) /\ Cardinality(dir_entries(h, d)) \in Nat
          /\ Broadest(h) \in Nat
      BY <1>1, <3>1, WidthFacts, FS_CardinalityType
    <3> HIDE DEF S
    <3> QED BY <1>2, <1>3, <3>2, <3>3
  <2>2. CASE ~listable(h, d)
    <3>1. S = {}
      BY <1>1, <2>2 DEF dir_entries
    <3>2. Cardinality(S) = 0 /\ Broadest(h) \in Nat
      BY <3>1, FS_EmptySet, WidthFacts
    <3> HIDE DEF S
    <3> QED BY <3>1, <3>2
  <2> QED BY <2>1, <2>2
<1> HIDE DEF S
<1>5. SetToSeq(S) \in Seq(Names(h))
  BY <1>3, <1>4
<1> QED BY <1>3, <1>4, <1>5 DEF S

(* The files that an include line names are finitely many. *)
LEMMA TargetsFacts ==
    ASSUME NEW h, Machine(h), NEW l \in lines_in(h, DOMAIN h.file)
    PROVE  /\ targets(h, l) \in Seq(Names(h)) /\ Len(targets(h, l)) <= Broadest(h) + 1
           /\ ToSet(targets(h, l)) = IF l[1] = "include" THEN {l[2]}
                                     ELSE IF l[1] = "includedir" THEN regular(h, dir_entries(h, l[2]))
                                     ELSE {}
<1>0. Broadest(h) \in Nat
  BY WidthFacts
<1>1. CASE l[1] = "include"
  <2>1. targets(h, l) = <<l[2]>> /\ l[2] \in Names(h)
    BY <1>1 DEF targets, Names
  <2>2. ToSet(<<l[2]>>) = {l[2]} /\ Len(<<l[2]>>) = 1 /\ <<l[2]>> \in Seq(Names(h))
    BY <2>1 DEF ToSet
  <2> QED BY <1>0, <1>1, <2>1, <2>2
<1>2. CASE l[1] = "includedir"
  <2>1. targets(h, l) = SetToSeq(regular(h, dir_entries(h, l[2])))
    BY <1>2 DEF targets
  <2> DEFINE S == regular(h, dir_entries(h, l[2]))
  <2>2. /\ SetToSeq(S) \in Seq(Names(h)) /\ ToSet(SetToSeq(S)) = S
        /\ Len(SetToSeq(S)) \in Nat /\ Len(SetToSeq(S)) <= Broadest(h)
    BY ListedFacts
  <2> HIDE DEF S
  <2> QED BY <1>0, <1>2, <2>1, <2>2 DEF S
<1>3. CASE l[1] # "include" /\ l[1] # "includedir"
  <2>1. targets(h, l) = <<>>
    BY <1>3 DEF targets
  <2>2. ToSet(<<>>) = {} /\ Len(<<>>) = 0 /\ <<>> \in Seq(Names(h))
    BY DEF ToSet
  <2> QED BY <1>0, <1>3, <2>1, <2>2
<1> QED BY <1>1, <1>2, <1>3

(* The includes of a file lead to its includes' files, one depth further. *)
LEMMA LeadsFacts ==
    ASSUME NEW h, Machine(h), NEW f
    PROVE  LET r == read_file_capped_regular(h, f) IN
           /\ leads_to(h, f) \in Seq(Names(h)) /\ Len(leads_to(h, f)) <= Width(h)
           /\ ToSet(leads_to(h, f)) = IF is_dir(h, f) THEN regular(h, dir_entries(h, f))
                                      ELSE UNION {ToSet(targets(h, l)) : l \in ToSet(r.lines)}
           /\ Width(h) \in Nat
<1> DEFINE r == read_file_capped_regular(h, f)
           lines == r.lines
           a == Longest(h)
           b == Broadest(h)
<1>0. a \in Nat /\ b \in Nat
  BY WidthFacts
<1>1. /\ (a + 1) * (b + 1) \in Nat /\ b <= (a + 1) * (b + 1) /\ Width(h) = (a + 1) * (b + 1)
      /\ \A n \in Nat : n <= a => n * (b + 1) <= (a + 1) * (b + 1)
  <2> HIDE DEF a, b
  <2>1. \A x, y \in Nat : /\ (x + 1) * (y + 1) \in Nat
                          /\ (x + 1) * (y + 1) = x * (y + 1) + (y + 1) /\ x * (y + 1) \in Nat
    OBVIOUS
  <2>2. ASSUME NEW n \in Nat, n <= a PROVE n * (b + 1) <= (a + 1) * (b + 1)
    <3>1. PICK k \in Nat : a + 1 = n + k
      <4>1. a + 1 - n \in Nat /\ a + 1 = n + (a + 1 - n)
        BY <1>0, <2>2
      <4> QED BY <4>1
    <3>2. (n + k) * (b + 1) = n * (b + 1) + k * (b + 1)
      BY <1>0
    <3>3. k * (b + 1) \in Nat /\ n * (b + 1) \in Nat
      BY <1>0
    <3> HIDE DEF a, b
    <3> QED BY <3>1, <3>2, <3>3
  <2>3. Width(h) = (a + 1) * (b + 1)
    BY DEF Width, a, b
  <2> QED BY <1>0, <2>1, <2>2, <2>3
<1>2. CASE is_dir(h, f)
  <2>1. leads_to(h, f) = SetToSeq(regular(h, dir_entries(h, f)))
    BY <1>2 DEF leads_to
  <2> DEFINE S == regular(h, dir_entries(h, f))
  <2>2. /\ SetToSeq(S) \in Seq(Names(h)) /\ ToSet(SetToSeq(S)) = S
        /\ Len(SetToSeq(S)) \in Nat /\ Len(SetToSeq(S)) <= b
    BY ListedFacts
  <2> HIDE DEF S, a, b
  <2> QED BY <1>0, <1>1, <1>2, <2>1, <2>2 DEF S
<1>3. CASE ~is_dir(h, f)
  <2> DEFINE ss == [i \in DOMAIN lines |-> targets(h, lines[i])]
  <2>1. leads_to(h, f) = FlattenSeq(ss)
    BY <1>3, Zenon DEF leads_to
  <2>2. lines \in Seq(ToSet(lines)) /\ ToSet(lines) \subseteq lines_in(h, DOMAIN h.file)
        /\ Len(lines) <= a /\ Len(lines) \in Nat
    <3>1. CASE r.err = "none"
      <4>1. /\ f \in DOMAIN h.file
            /\ lines \in Seq(ToSet(h.file[f].lines)) /\ Len(lines) <= Len(h.file[f].lines)
            /\ ToSet(lines) \subseteq ToSet(h.file[f].lines)
        BY <3>1, ReadRegular
      <4>2. Len(h.file[f].lines) <= a /\ Len(h.file[f].lines) \in Nat
        <5>1. File(h.file[f])
          BY <4>1 DEF Machine
        <5>2. h.file[f].lines \in Seq(ToSet(h.file[f].lines))
          BY <5>1 DEF File
        <5> QED BY <4>1, <5>2, WidthFacts
      <4> HIDE DEF lines, a
      <4>3. lines \in Seq(ToSet(lines)) /\ Len(lines) \in Nat
        BY <4>1, ToSetFacts
      <4>4. ToSet(lines) \subseteq lines_in(h, DOMAIN h.file)
        BY <4>1 DEF lines_in
      <4> QED BY <1>0, <4>1, <4>2, <4>3, <4>4
    <3>2. CASE r.err # "none"
      <4>1. lines = <<>>
        BY <3>2, ReadRegular
      <4> HIDE DEF lines, a
      <4>2. ToSet(lines) = {} /\ Len(lines) = 0 /\ lines \in Seq(ToSet(lines))
        BY <4>1 DEF ToSet
      <4> QED BY <1>0, <4>2
    <3> QED BY <3>1, <3>2
  <2> HIDE DEF lines, a, b
  <2>3. \A i \in 1 .. Len(lines) : lines[i] \in ToSet(lines)
    BY <2>2 DEF ToSet
  <2>4. \A i \in 1 .. Len(lines) : /\ targets(h, lines[i]) \in Seq(Names(h))
                                   /\ Len(targets(h, lines[i])) <= b + 1
    BY <2>2, <2>3, TargetsFacts DEF b
  <2>5. DOMAIN lines = 1 .. Len(lines)
    BY <2>2
  <2>6. ss \in Seq(Seq(Names(h))) /\ Len(ss) = Len(lines)
        /\ \A i \in 1 .. Len(lines) : ss[i] = targets(h, lines[i])
    BY <2>2, <2>4, <2>5
  <2> HIDE DEF ss
  <2>7. \A i \in 1 .. Len(ss) : Len(ss[i]) <= b + 1
    BY <2>4, <2>6
  <2>8. b + 1 \in Nat
    BY <1>0
  <2>9. /\ FlattenSeq(ss) \in Seq(Names(h)) /\ Len(FlattenSeq(ss)) <= Len(ss) * (b + 1)
        /\ ToSet(FlattenSeq(ss)) = UNION {ToSet(ss[i]) : i \in 1 .. Len(ss)}
    BY <2>6, <2>7, <2>8, FlattenFacts
  <2>10. Len(FlattenSeq(ss)) <= (a + 1) * (b + 1)
    <3>1. Len(ss) * (b + 1) <= (a + 1) * (b + 1)
      BY <1>1, <2>2, <2>6
    <3>2. Len(FlattenSeq(ss)) \in Nat /\ Len(ss) * (b + 1) \in Int /\ (a + 1) * (b + 1) \in Int
      BY <1>0, <1>1, <2>2, <2>6, <2>9
    <3> DEFINE x == Len(FlattenSeq(ss))
               y == Len(ss) * (b + 1)
               z == (a + 1) * (b + 1)
    <3>3. x <= y /\ y <= z /\ x \in Int /\ y \in Int /\ z \in Int
      BY <2>9, <3>1, <3>2
    <3> HIDE DEF x, y, z
    <3>4. x <= z
      BY <3>3
    <3> QED BY <3>4 DEF x, z
  <2>11. UNION {ToSet(ss[i]) : i \in 1 .. Len(ss)} = UNION {ToSet(targets(h, l)) : l \in ToSet(lines)}
    <3>1. {ToSet(ss[i]) : i \in 1 .. Len(ss)} = {ToSet(targets(h, l)) : l \in ToSet(lines)}
      <4>1. \A i \in 1 .. Len(ss) : ToSet(ss[i]) = ToSet(targets(h, lines[i]))
        BY <2>6
      <4>2. \A l \in ToSet(lines) : \E i \in 1 .. Len(ss) : lines[i] = l
        BY <2>2, <2>6, ToSetFacts
      <4> QED BY <2>3, <2>6, <4>1, <4>2
    <3> QED BY <3>1
  <2> QED BY <1>1, <1>3, <2>1, <2>9, <2>10, <2>11 DEF lines
<1> QED BY <1>2, <1>3

(* One turn of the loop over the sudoers files. *)
Item(h) == [file : Names(h), depth : Nat]
QFiles(q) == {x.file : x \in ToSet(q)}
Shaped(h, s) ==
    /\ s.queue \in Seq(Item(h))
    /\ IsFiniteSet(s.visited) /\ Cardinality(s.visited) <= MAX_SUDOERS_FILES
Reads(h, v, s) ==
    LET r == read_file_capped_regular(h, v)
    IN is_dir(h, v) \/ (Notes(v, r, AnyError) = {} /\ ToSet(r.lines) \subseteq s.entries)
Covered(h, roots, s) ==
    s.warns = {} =>
        /\ roots \subseteq s.visited \cup QFiles(s.queue)
        /\ \A v \in s.visited : ToSet(leads_to(h, v)) \subseteq s.visited \cup QFiles(s.queue)
        /\ \A v \in s.visited : Reads(h, v, s)

(* Files are queued with their depth, in the order they are named. *)
LEMMA QueuedFacts ==
    ASSUME NEW h, NEW files \in Seq(Names(h)), NEW d \in Nat
    PROVE  /\ queued(files, d) \in Seq(Item(h)) /\ Len(queued(files, d)) = Len(files)
           /\ QFiles(queued(files, d)) = ToSet(files)
<1>1. DOMAIN files = 1 .. Len(files) /\ Len(files) \in Nat /\ \A i \in 1 .. Len(files) : files[i] \in Names(h)
  OBVIOUS
<1> DEFINE q == queued(files, d)
<1>2. q = [i \in 1 .. Len(files) |-> [file |-> files[i], depth |-> d]]
  BY <1>1 DEF queued
<1>3. q \in Seq(Item(h)) /\ Len(q) = Len(files) /\ DOMAIN q = 1 .. Len(files)
      /\ \A i \in 1 .. Len(files) : q[i].file = files[i]
  BY <1>1, <1>2 DEF Item
<1> HIDE DEF q
<1>4. QFiles(q) = {q[i].file : i \in 1 .. Len(files)}
  BY <1>3 DEF QFiles, ToSet
<1>5. ToSet(files) = {files[i] : i \in 1 .. Len(files)}
  BY <1>1 DEF ToSet
<1>6. {q[i].file : i \in 1 .. Len(files)} = {files[i] : i \in 1 .. Len(files)}
  BY <1>3
<1> QED BY <1>3, <1>4, <1>5, <1>6 DEF q

(* The last of a queue, and what is before it. *)
LEMMA FrontFacts ==
    ASSUME NEW S, NEW q \in Seq(S), q # <<>>
    PROVE  /\ Front(q) \in Seq(S) /\ Len(Front(q)) = Len(q) - 1 /\ Last(q) \in S /\ Len(q) \in Nat \ {0}
           /\ ToSet(q) = ToSet(Front(q)) \cup {Last(q)}
<1>1. Len(q) \in Nat /\ Len(q) # 0 /\ DOMAIN q = 1 .. Len(q) /\ \A i \in 1 .. Len(q) : q[i] \in S
  OBVIOUS
<1>2. /\ Front(q) \in Seq(S) /\ Len(Front(q)) = Len(q) - 1
      /\ \A i \in 1 .. (Len(q) - 1) : Front(q)[i] = q[i]
  BY <1>1 DEF Front
<1>3. Last(q) = q[Len(q)] /\ Len(q) \in 1 .. Len(q)
  BY <1>1 DEF Last
<1>4. DOMAIN Front(q) = 1 .. (Len(q) - 1)
  BY <1>1, <1>2
<1>5. 1 .. Len(q) = (1 .. (Len(q) - 1)) \cup {Len(q)}
  BY <1>1
<1>6. ToSet(q) = {q[i] : i \in 1 .. Len(q)} /\ ToSet(Front(q)) = {Front(q)[i] : i \in 1 .. (Len(q) - 1)}
  BY <1>1, <1>4 DEF ToSet
<1>7. {Front(q)[i] : i \in 1 .. (Len(q) - 1)} = {q[i] : i \in 1 .. (Len(q) - 1)}
  BY <1>2
<1>8. {q[i] : i \in 1 .. Len(q)} = {q[i] : i \in 1 .. (Len(q) - 1)} \cup {q[Len(q)]}
  BY <1>5
<1>9. ToSet(q) = ToSet(Front(q)) \cup {Last(q)}
  BY <1>3, <1>6, <1>7, <1>8
<1>10. Last(q) \in S
  BY <1>1, <1>3
<1> QED BY <1>1, <1>2, <1>9, <1>10

(* The worklist of the sudoers walk is read back as it was made. *)
LEMMA ProgressFields ==
    \A q, v, e, w : LET s == Progress(q, v, e, w) IN
                    s.queue = q /\ s.visited = v /\ s.entries = e /\ s.warns = w
BY DEF Progress

(* A turn with a word, a turn that drops a file met before, a turn that opens one. *)
LEMMA TurnCases ==
    ASSUME NEW h, NEW s
    PROVE  LET t == next_file(h, s)
               top == Last(s.queue)
               f == top.file
               r == read_file_capped_regular(h, f)
               pushed == Front(s.queue) \o queued(leads_to(h, f), top.depth + 1) IN
           \/ s.queue = <<>> /\ t = s
           \/ /\ s.queue # <<>> /\ t.visited = s.visited
              /\ t.warns # {} /\ t.queue \in {<<>>, Front(s.queue)}
           \/ /\ s.queue # <<>> /\ f \in s.visited
              /\ t.queue = Front(s.queue) /\ t.visited = s.visited /\ t.entries = s.entries
              /\ t.warns = s.warns
           \/ /\ s.queue # <<>> /\ f \notin s.visited /\ ~(Cardinality(s.visited) >= MAX_SUDOERS_FILES)
              /\ t.queue = pushed /\ t.visited = s.visited \cup {f}
              /\ \/ is_dir(h, f) /\ t.entries = s.entries /\ t.warns = s.warns
                 \/ /\ ~is_dir(h, f) /\ t.entries = s.entries \cup ToSet(r.lines)
                    /\ t.warns = s.warns \cup Notes(f, r, AnyError)
<1> DEFINE t == next_file(h, s)
           top == Last(s.queue)
           f == top.file
           r == read_file_capped_regular(h, f)
           popped == Front(s.queue)
           pushed == popped \o queued(leads_to(h, f), top.depth + 1)
           full == Cardinality(s.visited) >= MAX_SUDOERS_FILES
<1>1. t = IF s.queue = <<>> THEN s
          ELSE IF full THEN Progress(<<>>, s.visited, s.entries, s.warns \cup {<<f, "budget">>})
          ELSE IF top.depth > MAX_INCLUDE_DEPTH
               THEN Progress(popped, s.visited, s.entries, s.warns \cup {<<f, "depth">>})
          ELSE IF f \in s.visited THEN Progress(popped, s.visited, s.entries, s.warns)
          ELSE IF is_dir(h, f) THEN Progress(pushed, s.visited \cup {f}, s.entries, s.warns)
          ELSE Progress(pushed, s.visited \cup {f}, s.entries \cup ToSet(r.lines),
                        s.warns \cup Notes(f, r, AnyError))
  BY Zenon DEF next_file
<1> DEFINE v == s.visited
           e == s.entries
           w == s.warns
<1> HIDE DEF t, f, r, pushed, popped, v, e, w
<1>2. CASE s.queue = <<>>
  BY <1>1, <1>2 DEF t
<1>3. CASE s.queue # <<>> /\ full
  <2>1. t = Progress(<<>>, v, e, w \cup {<<f, "budget">>})
    BY <1>1, <1>3 DEF v, e, w
  <2>3. t.queue = <<>> /\ t.visited = v /\ t.warns = w \cup {<<f, "budget">>}
    BY <2>1, ProgressFields
  <2>2. t.queue = <<>> /\ t.visited = v /\ t.warns # {}
    BY <2>3
  <2> QED BY <1>3, <2>2 DEF t, f, r, pushed, popped, v
<1>4. CASE s.queue # <<>> /\ ~full /\ top.depth > MAX_INCLUDE_DEPTH
  <2>1. t = Progress(popped, v, e, w \cup {<<f, "depth">>})
    BY <1>1, <1>4 DEF v, e, w
  <2>3. t.queue = popped /\ t.visited = v /\ t.warns = w \cup {<<f, "depth">>}
    BY <2>1, ProgressFields
  <2>2. t.queue = popped /\ t.visited = v /\ t.warns # {}
    BY <2>3
  <2> QED BY <1>4, <2>2 DEF t, f, r, pushed, popped, v
<1>5. CASE s.queue # <<>> /\ ~full /\ ~(top.depth > MAX_INCLUDE_DEPTH) /\ f \in v
  <2>1. t = Progress(popped, v, e, w)
    BY <1>1, <1>5 DEF v, e, w
  <2>2. t.queue = popped /\ t.visited = v /\ t.entries = e /\ t.warns = w
    BY <2>1, ProgressFields
  <2> QED BY <1>5, <2>2 DEF t, f, r, pushed, popped, v, e, w
<1>6. CASE s.queue # <<>> /\ ~full /\ ~(top.depth > MAX_INCLUDE_DEPTH) /\ f \notin v /\ is_dir(h, f)
  <2>1. t = Progress(pushed, v \cup {f}, e, w)
    BY <1>1, <1>6 DEF v, e, w
  <2>2. t.queue = pushed /\ t.visited = v \cup {f} /\ t.entries = e /\ t.warns = w
    BY <2>1, ProgressFields
  <2> QED BY <1>6, <2>2 DEF t, f, r, pushed, popped, v, e, w
<1>7. CASE s.queue # <<>> /\ ~full /\ ~(top.depth > MAX_INCLUDE_DEPTH) /\ f \notin v /\ ~is_dir(h, f)
  <2>1. t = Progress(pushed, v \cup {f}, e \cup ToSet(r.lines), w \cup Notes(f, r, AnyError))
    BY <1>1, <1>7 DEF v, e, w
  <2>2. /\ t.queue = pushed /\ t.visited = v \cup {f} /\ t.entries = e \cup ToSet(r.lines)
        /\ t.warns = w \cup Notes(f, r, AnyError)
    BY <2>1, ProgressFields
  <2> QED BY <1>7, <2>2 DEF t, f, r, pushed, popped, v, e, w
<1> HIDE DEF full
<1> QED BY <1>2, <1>3, <1>4, <1>5, <1>6, <1>7

(* What is queued when the last file is taken off, and when others are put on. *)
LEMMA QueueFiles ==
    ASSUME NEW h, NEW q \in Seq(Item(h)), q # <<>>, NEW p \in Seq(Item(h))
    PROVE  /\ QFiles(q) = QFiles(Front(q)) \cup {Last(q).file}
           /\ QFiles(Front(q) \o p) = QFiles(Front(q)) \cup QFiles(p)
<1>1. Front(q) \in Seq(Item(h)) /\ ToSet(q) = ToSet(Front(q)) \cup {Last(q)}
  BY FrontFacts
<1>2. ToSet(Front(q) \o p) = ToSet(Front(q)) \cup ToSet(p)
  BY <1>1, ToSetFacts
<1> QED BY <1>1, <1>2 DEF QFiles

(* A turn of the sudoers walk keeps its worklist well formed. *)
LEMMA TurnShaped ==
    ASSUME NEW h, Machine(h), NEW s, Shaped(h, s), NEW R \in Nat, NEW n \in Nat,
           s.queue = <<>> \/ Len(s.queue) + n <= R + Cardinality(s.visited) * Width(h)
    PROVE  LET t == next_file(h, s) IN
           /\ Shaped(h, t)
           /\ t.queue = <<>> \/ Len(t.queue) + (n + 1) <= R + Cardinality(t.visited) * Width(h)
<1> DEFINE t == next_file(h, s)
           W == Width(h)
           c == Cardinality(s.visited)
           q == s.queue
           top == Last(q)
           f == top.file
           pushed == Front(q) \o queued(leads_to(h, f), top.depth + 1)
<1>0. W \in Nat /\ MAX_SUDOERS_FILES \in Nat /\ c \in Nat /\ IsFiniteSet(s.visited) /\ q \in Seq(Item(h))
      /\ c <= MAX_SUDOERS_FILES
  BY LeadsFacts, SudoersLimits, FS_CardinalityType DEF Shaped
<1>1. CASE q = <<>>
  <2>1. t = s
    BY <1>1, TurnCases
  <2> QED BY <1>1, <2>1
<1>2. CASE q # <<>> /\ t.visited = s.visited /\ t.queue \in {<<>>, Front(q)}
  <2>1. Front(q) \in Seq(Item(h)) /\ Len(Front(q)) = Len(q) - 1 /\ Len(q) \in Nat
    BY <1>0, <1>2, FrontFacts
  <2>2. <<>> \in Seq(Item(h)) /\ s.visited = t.visited
    BY <1>2
  <2>3. s.queue = <<>> \/ Len(q) + n <= R + c * W
    OBVIOUS
  <2> HIDE DEF t, W, c, q
  <2>4. CASE t.queue = <<>>
    BY <1>0, <2>2, <2>4 DEF Shaped, c, t
  <2>5. CASE t.queue = Front(q)
    <3>1. Len(t.queue) + (n + 1) = Len(q) + n /\ t.queue \in Seq(Item(h))
      BY <2>1, <2>5
    <3>2. Len(t.queue) + (n + 1) <= R + c * W
      BY <1>2, <2>3, <3>1 DEF q
    <3> QED BY <1>0, <2>2, <3>1, <3>2 DEF Shaped, c, t, W
  <2> QED BY <1>2, <2>4, <2>5
<1>3. CASE q # <<>> /\ f \notin s.visited /\ ~(c >= MAX_SUDOERS_FILES)
           /\ t.queue = pushed /\ t.visited = s.visited \cup {f}
  <2>1. Front(q) \in Seq(Item(h)) /\ Len(Front(q)) = Len(q) - 1 /\ Len(q) \in Nat /\ top \in Item(h)
    BY <1>0, <1>3, FrontFacts
  <2>2. top.depth + 1 \in Nat
    BY <2>1 DEF Item
  <2>3. leads_to(h, f) \in Seq(Names(h)) /\ Len(leads_to(h, f)) <= W /\ Len(leads_to(h, f)) \in Nat
    BY LeadsFacts
  <2> DEFINE more == queued(leads_to(h, f), top.depth + 1)
  <2>4. more \in Seq(Item(h)) /\ Len(more) = Len(leads_to(h, f))
    BY <2>2, <2>3, QueuedFacts
  <2> HIDE DEF more, q, c, W, f, t
  <2>5. pushed \in Seq(Item(h)) /\ Len(pushed) = (Len(q) - 1) + Len(more)
    BY <2>1, <2>4 DEF more
  <2>6. IsFiniteSet(t.visited) /\ Cardinality(t.visited) = c + 1
    <3>1. IsFiniteSet(s.visited \cup {f}) /\ Cardinality(s.visited \cup {f}) = Cardinality(s.visited) + 1
      BY <1>0, <1>3, FS_AddElement
    <3> QED BY <1>3, <3>1 DEF c
  <2>7. (c + 1) * W = c * W + W /\ c * W \in Nat
    BY <1>0
  <2>8. Len(pushed) + (n + 1) <= R + (c + 1) * W
    <3>1. Len(q) + n <= R + c * W
      BY <1>3 DEF q, c, W
    <3> HIDE DEF pushed
    <3> DEFINE x == c * W
               y == (c + 1) * W
               a == Len(q)
               b == Len(more)
    <3>2. a + n <= R + x /\ x \in Nat /\ y = x + W /\ a \in Nat /\ b \in Nat /\ b <= W
          /\ Len(pushed) = (a - 1) + b
      BY <2>1, <2>3, <2>4, <2>5, <2>7, <3>1
    <3> HIDE DEF x, y, a, b
    <3>3. Len(pushed) + (n + 1) <= R + y
      BY <1>0, <3>2
    <3> QED BY <3>3 DEF y
  <2> HIDE DEF pushed
  <2>9. c + 1 <= MAX_SUDOERS_FILES
    BY <1>0, <1>3
  <2> QED BY <1>3, <2>5, <2>6, <2>8, <2>9 DEF Shaped, t, W
<1>4. \/ q = <<>>
      \/ q # <<>> /\ t.visited = s.visited /\ t.queue \in {<<>>, Front(q)}
      \/ q # <<>> /\ f \notin s.visited /\ ~(c >= MAX_SUDOERS_FILES)
         /\ t.queue = pushed /\ t.visited = s.visited \cup {f}
  <2> HIDE DEF t, pushed
  <2> QED BY TurnCases DEF t, pushed
<1> QED BY <1>1, <1>2, <1>3, <1>4

(* A turn that warns of nothing reads the file it takes and queues what that leads to. *)
LEMMA TurnCovered ==
    ASSUME NEW h, Machine(h), NEW s, Shaped(h, s), NEW roots, Covered(h, roots, s)
    PROVE  Covered(h, roots, next_file(h, s))
<1> DEFINE t == next_file(h, s)
           q == s.queue
           top == Last(q)
           f == top.file
           r == read_file_capped_regular(h, f)
           pushed == Front(q) \o queued(leads_to(h, f), top.depth + 1)
<1> SUFFICES ASSUME t.warns = {}
             PROVE  /\ roots \subseteq t.visited \cup QFiles(t.queue)
                    /\ \A v \in t.visited : ToSet(leads_to(h, v)) \subseteq t.visited \cup QFiles(t.queue)
                    /\ \A v \in t.visited : Reads(h, v, t)
  BY DEF Covered
<1>0. q \in Seq(Item(h))
  BY DEF Shaped
<1>a. \A v, u : Reads(h, v, u) /\ u.entries \subseteq t.entries => Reads(h, v, t)
  BY DEF Reads
<1>1. CASE q = <<>>
  <2>1. t = s
    BY <1>1, TurnCases
  <2> QED BY <2>1 DEF Covered
<1>2. CASE /\ q # <<>> /\ f \in s.visited
           /\ t.queue = Front(q) /\ t.visited = s.visited /\ t.entries = s.entries
           /\ t.warns = s.warns
  <2>1. QFiles(q) = QFiles(Front(q)) \cup {f}
    BY <1>0, <1>2, QueueFiles
  <2>2. s.visited \cup QFiles(q) = t.visited \cup QFiles(t.queue)
    BY <1>2, <2>1
  <2>3. /\ roots \subseteq s.visited \cup QFiles(q)
        /\ \A v \in s.visited : ToSet(leads_to(h, v)) \subseteq s.visited \cup QFiles(q)
        /\ \A v \in s.visited : Reads(h, v, s)
    BY <1>2 DEF Covered
  <2> HIDE DEF t, q
  <2> QED BY <1>2, <1>a, <2>2, <2>3
<1>3. CASE /\ q # <<>> /\ f \notin s.visited
           /\ t.queue = pushed /\ t.visited = s.visited \cup {f}
           /\ \/ is_dir(h, f) /\ t.entries = s.entries /\ t.warns = s.warns
              \/ /\ ~is_dir(h, f) /\ t.entries = s.entries \cup ToSet(r.lines)
                 /\ t.warns = s.warns \cup Notes(f, r, AnyError)
  <2>1. top \in Item(h)
    BY <1>0, <1>3, FrontFacts
  <2>2. top.depth + 1 \in Nat
    BY <2>1 DEF Item
  <2>3. leads_to(h, f) \in Seq(Names(h))
    BY LeadsFacts
  <2> DEFINE more == queued(leads_to(h, f), top.depth + 1)
  <2>4. more \in Seq(Item(h)) /\ QFiles(more) = ToSet(leads_to(h, f))
    BY <2>2, <2>3, QueuedFacts
  <2>5. QFiles(q) = QFiles(Front(q)) \cup {f} /\ QFiles(Front(q) \o more) = QFiles(Front(q)) \cup QFiles(more)
    BY <1>0, <1>3, <2>4, QueueFiles
  <2>6. t.visited \cup QFiles(t.queue) = (s.visited \cup QFiles(q)) \cup ToSet(leads_to(h, f))
    BY <1>3, <2>4, <2>5
  <2>7. /\ roots \subseteq s.visited \cup QFiles(q)
        /\ \A v \in s.visited : ToSet(leads_to(h, v)) \subseteq s.visited \cup QFiles(q)
        /\ \A v \in s.visited : Reads(h, v, s)
    BY <1>3 DEF Covered
  <2>8. Reads(h, f, t) /\ s.entries \subseteq t.entries
    BY <1>3 DEF Reads
  <2> HIDE DEF t, q, more, f, r
  <2> QED BY <1>3, <1>a, <2>6, <2>7, <2>8
<1>4. \/ q = <<>>
      \/ /\ q # <<>> /\ f \in s.visited
         /\ t.queue = Front(q) /\ t.visited = s.visited /\ t.entries = s.entries
         /\ t.warns = s.warns
      \/ /\ q # <<>> /\ f \notin s.visited
         /\ t.queue = pushed /\ t.visited = s.visited \cup {f}
         /\ \/ is_dir(h, f) /\ t.entries = s.entries /\ t.warns = s.warns
            \/ /\ ~is_dir(h, f) /\ t.entries = s.entries \cup ToSet(r.lines)
               /\ t.warns = s.warns \cup Notes(f, r, AnyError)
  <2> HIDE DEF t, pushed, r
  <2> QED BY TurnCases DEF t, pushed, r
<1> QED BY <1>1, <1>2, <1>3, <1>4

(* The loop, turn by turn. *)
LEMMA AfterDef ==
    ASSUME NEW h, NEW roots, turns(h, roots) \in Nat
    PROVE  \E after : /\ after = [n \in 0 .. turns(h, roots) |->
                                    IF n = 0 THEN Progress(queued(roots, 0), {}, {}, {})
                                    ELSE next_file(h, after[n - 1])]
                      /\ each_sudoers_entry_from(h, roots) = after[turns(h, roots)]
<1> DEFINE start == Progress(queued(roots, 0), {}, {}, {})
           P(f, n) == f = [i \in 0 .. n |-> IF i = 0 THEN start ELSE next_file(h, f[i - 1])]
<1> HIDE DEF start
<1>1. \A n \in Nat : \E f : P(f, n)
  <2> DEFINE T == {n \in Nat : ~ \E f : P(f, n)}
  <2> SUFFICES ASSUME T # {} PROVE FALSE
    OBVIOUS
  <2>1. PICK n \in T : \A m \in T : n <= m
    BY LeastNumber
  <2>2. n # 0
    <3>1. P([i \in 0 .. 0 |-> start], 0)
      OBVIOUS
    <3> QED BY <2>1, <3>1
  <2>3. PICK f : P(f, n - 1)
    <3> HIDE DEF P
    <3>1. n - 1 \in Nat /\ ~(n <= n - 1)
      BY <2>1, <2>2
    <3>2. n - 1 \notin T
      BY <2>1, <3>1
    <3> QED BY <3>1, <3>2
  <2> DEFINE g == [i \in 0 .. n |-> IF i = 0 THEN start ELSE next_file(h, f[i - 1])]
  <2>4. \A i \in 0 .. (n - 1) : g[i] = f[i]
    <3> SUFFICES ASSUME NEW i \in 0 .. (n - 1) PROVE g[i] = f[i]
      OBVIOUS
    <3>1. f[i] = IF i = 0 THEN start ELSE next_file(h, f[i - 1])
      BY <2>3
    <3>2. i \in 0 .. n
      BY <2>1
    <3> QED BY <3>1, <3>2
  <2>5. P(g, n)
    <3>1. ASSUME NEW i \in 0 .. n
          PROVE  g[i] = IF i = 0 THEN start ELSE next_file(h, g[i - 1])
      <4>1. i # 0 => i - 1 \in 0 .. (n - 1)
        BY <2>1
      <4>2. i # 0 => g[i - 1] = f[i - 1]
        BY <2>4, <4>1
      <4>3. g[i] = IF i = 0 THEN start ELSE next_file(h, f[i - 1])
        OBVIOUS
      <4> HIDE DEF g
      <4> QED BY <4>2, <4>3
    <3>2. g = [i \in 0 .. n |-> g[i]]
      OBVIOUS
    <3> HIDE DEF g
    <3> QED BY <3>1, <3>2
  <2> QED BY <2>1, <2>5
<1>2. PICK e : P(e, turns(h, roots))
  BY <1>1
<1> DEFINE F == CHOOSE f : P(f, turns(h, roots))
<1>3. P(F, turns(h, roots))
  BY <1>2
<1>4. each_sudoers_entry_from(h, roots) = F[turns(h, roots)]
  BY Zenon DEF each_sudoers_entry_from, start
<1> HIDE DEF F
<1> QED BY <1>3, <1>4 DEF start

(* The loop ends with an empty queue: the bound on its turns is enough. *)
LEMMA LoopFacts ==
    ASSUME NEW h, Machine(h), NEW roots \in Seq({"sudoers", "sudoers.d"})
    PROVE  LET s == each_sudoers_entry_from(h, roots) IN
           s.queue = <<>> /\ Covered(h, ToSet(roots), s)
<1> DEFINE N == turns(h, roots)
           W == Width(h)
           R == Len(roots)
           start == Progress(queued(roots, 0), {}, {}, {})
<1>1. W \in Nat /\ R \in Nat /\ MAX_SUDOERS_FILES \in Nat
  BY LeadsFacts, SudoersLimits
<1>2. N = R + MAX_SUDOERS_FILES * W
  BY Zenon DEF turns, Width, Longest, Broadest
<1>3. MAX_SUDOERS_FILES * W \in Nat
  BY <1>1
<1>4. N \in Nat
  BY <1>1, <1>2, <1>3
<1>5. PICK after : /\ after = [n \in 0 .. N |-> IF n = 0 THEN start ELSE next_file(h, after[n - 1])]
                   /\ each_sudoers_entry_from(h, roots) = after[N]
  BY <1>4, AfterDef
<1> HIDE DEF N, W, R
<1>6. \A n \in 0 .. N : after[n] = IF n = 0 THEN start ELSE next_file(h, after[n - 1])
  BY <1>5
<1> DEFINE Q(n) == LET s == after[n] IN
                   /\ Shaped(h, s) /\ Covered(h, ToSet(roots), s)
                   /\ s.queue = <<>> \/ Len(s.queue) + n <= R + Cardinality(s.visited) * W
<1>7. \A n \in 0 .. N : Q(n)
  <2> DEFINE T == {n \in 0 .. N : ~Q(n)}
  <2> SUFFICES ASSUME T # {} PROVE FALSE
    OBVIOUS
  <2>1. PICK n \in T : \A m \in T : n <= m
    <3> HIDE DEF Q
    <3>1. T \in SUBSET Nat
      BY <1>4
    <3> HIDE DEF T
    <3> QED BY <3>1, LeastNumber
  <2>2. n \in 0 .. N /\ ~Q(n)
    BY <2>1
  <2>3. CASE n = 0
    <3>1. after[n] = start
      BY <1>6, <2>2, <2>3
    <3>2. roots \in Seq(Names(h))
      BY DEF Names
    <3>3. queued(roots, 0) \in Seq(Item(h)) /\ Len(queued(roots, 0)) = R /\ QFiles(queued(roots, 0)) = ToSet(roots)
      BY <3>2, QueuedFacts DEF R
    <3> HIDE DEF start
    <3>4. start.queue = queued(roots, 0) /\ start.visited = {} /\ start.warns = {}
      BY ProgressFields DEF start
    <3>5. IsFiniteSet({}) /\ Cardinality({}) = 0
      BY FS_EmptySet
    <3>6. Shaped(h, start)
      BY <1>1, <3>3, <3>4, <3>5 DEF Shaped
    <3>7. Covered(h, ToSet(roots), start)
      BY <3>3, <3>4 DEF Covered
    <3>8. 0 * W = 0 /\ R + 0 = R
      BY <1>1
    <3>9. Len(start.queue) + 0 <= R + Cardinality(start.visited) * W
      BY <1>1, <3>3, <3>4, <3>5, <3>8
    <3> QED BY <2>2, <2>3, <3>1, <3>6, <3>7, <3>9
  <2>4. CASE n # 0
    <3>1. n - 1 \in 0 .. N /\ ~(n <= n - 1) /\ n - 1 \in Nat /\ (n - 1) + 1 = n
      BY <1>4, <2>2, <2>4
    <3>2. Q(n - 1)
      <4> HIDE DEF Q
      <4> QED BY <2>1, <3>1
    <3>3. after[n] = next_file(h, after[n - 1])
      BY <1>6, <2>2, <2>4
    <3> DEFINE s == after[n - 1]
    <3>4. Shaped(h, s) /\ Covered(h, ToSet(roots), s)
          /\ (s.queue = <<>> \/ Len(s.queue) + (n - 1) <= R + Cardinality(s.visited) * W)
      BY <3>2
    <3> HIDE DEF s
    <3>5. /\ Shaped(h, next_file(h, s))
          /\ \/ next_file(h, s).queue = <<>>
             \/ Len(next_file(h, s).queue) + ((n - 1) + 1) <= R + Cardinality(next_file(h, s).visited) * W
      BY <1>1, <3>1, <3>4, TurnShaped DEF W
    <3>6. Covered(h, ToSet(roots), next_file(h, s))
      BY <3>4, TurnCovered
    <3> QED BY <2>2, <3>1, <3>3, <3>5, <3>6 DEF s
  <2> QED BY <2>3, <2>4
<1>8. Q(N)
  <2> HIDE DEF Q
  <2> QED BY <1>4, <1>7
<1>9. after[N].queue = <<>>
  <2> DEFINE s == after[N]
             c == Cardinality(s.visited)
  <2>1. s.queue \in Seq(Item(h)) /\ c <= MAX_SUDOERS_FILES /\ IsFiniteSet(s.visited)
    BY <1>8 DEF Shaped
  <2>2. c \in Nat /\ Len(s.queue) \in Nat
    BY <2>1, FS_CardinalityType
  <2>3. c * W <= MAX_SUDOERS_FILES * W /\ c * W \in Nat
    <3> HIDE DEF c
    <3>1. PICK k \in Nat : MAX_SUDOERS_FILES = c + k
      <4>1. MAX_SUDOERS_FILES - c \in Nat /\ MAX_SUDOERS_FILES = c + (MAX_SUDOERS_FILES - c)
        BY <1>1, <2>1, <2>2
      <4> QED BY <4>1
    <3>2. (c + k) * W = c * W + k * W /\ c * W \in Nat /\ k * W \in Nat
      BY <1>1, <2>2
    <3> QED BY <3>1, <3>2
  <2>4. s.queue = <<>> \/ Len(s.queue) + N <= R + c * W
    BY <1>8
  <2> DEFINE x == c * W
             y == MAX_SUDOERS_FILES * W
             l == Len(s.queue)
  <2>5. x <= y /\ x \in Nat /\ y \in Nat /\ l \in Nat /\ N = R + y /\ (s.queue = <<>> \/ l + N <= R + x)
    BY <1>2, <1>3, <2>2, <2>3, <2>4
  <2> HIDE DEF x, y, l
  <2>6. s.queue = <<>> \/ l = 0
    BY <1>1, <2>5
  <2> QED BY <2>1, <2>6 DEF l
<1>10. Covered(h, ToSet(roots), after[N])
  BY <1>8
<1> QED BY <1>5, <1>9, <1>10

(* Where sudo goes on from a file. *)
Shown(h, d) == regular(h, IF d = "sudoers.d" THEN children(h, d) ELSE dir_entries(h, d))
NamedBy(h, l) == IF l[1] = "include" THEN {l[2]}
                 ELSE IF l[1] = "includedir" THEN Shown(h, l[2]) ELSE {}
SudoLeads(h, p) == IF is_dir(h, p) THEN Shown(h, p) ELSE UNION {NamedBy(h, l) : l \in lines_in(h, {p})}
Onward(h, files) == files \cup UNION {SudoLeads(h, p) : p \in files}
SudoRoots == {"sudoers", "sudoers.d"}

(* The files within n includes of a set of files, level by level. *)
LEMMA ReachDef ==
    ASSUME NEW h, Cardinality(DOMAIN h.file) \in Nat
    PROVE  LET N == Cardinality(DOMAIN h.file) IN
           \E reach : /\ reach = [n \in 0 .. N |-> IF n = 0 THEN SudoRoots ELSE Onward(h, reach[n - 1])]
                      /\ SudoFiles(h) = reach[N]
<1> DEFINE N == Cardinality(DOMAIN h.file)
           P(f, n) == f = [i \in 0 .. n |-> IF i = 0 THEN SudoRoots ELSE Onward(h, f[i - 1])]
<1>1. \A n \in Nat : \E f : P(f, n)
  <2> DEFINE T == {n \in Nat : ~ \E f : P(f, n)}
  <2> SUFFICES ASSUME T # {} PROVE FALSE
    OBVIOUS
  <2>1. PICK n \in T : \A m \in T : n <= m
    BY LeastNumber
  <2>2. n # 0
    <3>1. P([i \in 0 .. 0 |-> SudoRoots], 0)
      OBVIOUS
    <3> QED BY <2>1, <3>1
  <2>3. PICK f : P(f, n - 1)
    <3> HIDE DEF P
    <3>1. n - 1 \in Nat /\ ~(n <= n - 1)
      BY <2>1, <2>2
    <3>2. n - 1 \notin T
      BY <2>1, <3>1
    <3> QED BY <3>1, <3>2
  <2> DEFINE g == [i \in 0 .. n |-> IF i = 0 THEN SudoRoots ELSE Onward(h, f[i - 1])]
  <2>4. \A i \in 0 .. (n - 1) : g[i] = f[i]
    <3> SUFFICES ASSUME NEW i \in 0 .. (n - 1) PROVE g[i] = f[i]
      OBVIOUS
    <3>1. f[i] = IF i = 0 THEN SudoRoots ELSE Onward(h, f[i - 1])
      BY <2>3
    <3>2. i \in 0 .. n
      BY <2>1
    <3> QED BY <3>1, <3>2
  <2>5. P(g, n)
    <3>1. ASSUME NEW i \in 0 .. n
          PROVE  g[i] = IF i = 0 THEN SudoRoots ELSE Onward(h, g[i - 1])
      <4>1. i # 0 => i - 1 \in 0 .. (n - 1)
        BY <2>1
      <4>2. i # 0 => g[i - 1] = f[i - 1]
        BY <2>4, <4>1
      <4>3. g[i] = IF i = 0 THEN SudoRoots ELSE Onward(h, f[i - 1])
        OBVIOUS
      <4> HIDE DEF g
      <4> QED BY <4>2, <4>3
    <3>2. g = [i \in 0 .. n |-> g[i]]
      OBVIOUS
    <3> HIDE DEF g
    <3> QED BY <3>1, <3>2
  <2> QED BY <2>1, <2>5
<1>2. PICK e : P(e, N)
  BY <1>1
<1> DEFINE F == CHOOSE f : P(f, N)
<1>3. P(F, N)
  BY <1>2
<1>4. SudoFiles(h) = F[N]
  BY Zenon DEF SudoFiles, Onward, SudoLeads, NamedBy, Shown, SudoRoots
<1> HIDE DEF F
<1> QED BY <1>3, <1>4

(* A file read without a note was read to its end. *)
LEMMA NoNotes ==
    ASSUME NEW h, Machine(h), NEW p, Notes(p, read_file_capped_regular(h, p), AnyError) = {}
    PROVE  ToSet(read_file_capped_regular(h, p).lines) = lines_in(h, {p}) /\ p \in DOMAIN h.file
<1> DEFINE r == read_file_capped_regular(h, p)
<1>1. r.err \in {"none", "NotFound", "PermissionDenied", "InvalidData"} /\ r.truncated \in BOOLEAN
      /\ (r.err = "none" => p \in DOMAIN h.file /\ (~r.truncated => r.lines = h.file[p].lines))
  BY ReadRegular
<1> HIDE DEF r
<1>2. r.err \notin AnyError /\ ~r.truncated
  BY DEF Notes, r
<1>3. r.err = "none"
  BY <1>1, <1>2 DEF AnyError
<1>4. p \in DOMAIN h.file /\ r.lines = h.file[p].lines
  BY <1>1, <1>2, <1>3
<1>5. lines_in(h, {p}) = ToSet(h.file[p].lines)
  BY <1>4 DEF lines_in
<1> QED BY <1>4, <1>5 DEF r

(* Everything sudo reads was read. *)
LEMMA SudoersRead ==
    ASSUME NEW h, Machine(h), exists(h, "sudoers.d") => h.file["sudoers.d"].open,
           scan_sudoers(h).warns = {}
    PROVE  lines_in(h, SudoFiles(h)) \subseteq scan_sudoers(h).entries
<1> DEFINE s == scan_sudoers(h)
           v == s.visited
<1>1. s.queue = <<>> /\ Covered(h, SudoRoots, s)
  <2>1. <<"sudoers", "sudoers.d">> \in Seq({"sudoers", "sudoers.d"})
    OBVIOUS
  <2>2. ToSet(<<"sudoers", "sudoers.d">>) = SudoRoots
    BY DEF ToSet, SudoRoots
  <2>3. s = each_sudoers_entry_from(h, <<"sudoers", "sudoers.d">>)
    BY DEF scan_sudoers
  <2> HIDE DEF s
  <2> QED BY <2>1, <2>2, <2>3, LoopFacts
<1> HIDE DEF s
<1>2. QFiles(s.queue) = {}
  BY <1>1 DEF QFiles, ToSet
<1>3. /\ SudoRoots \subseteq v
      /\ \A p \in v : ToSet(leads_to(h, p)) \subseteq v
      /\ \A p \in v : Reads(h, p, s)
  BY <1>1, <1>2 DEF Covered, s
<1> HIDE DEF v
<1>4. \A d : Shown(h, d) = regular(h, dir_entries(h, d))
  <2> SUFFICES ASSUME NEW d, d = "sudoers.d" PROVE children(h, d) = dir_entries(h, d)
    BY DEF Shown
  <2> QED BY DEF children, dir_entries, listable, is_dir
<1>5. \A p \in DOMAIN h.file : \A l \in lines_in(h, {p}) : NamedBy(h, l) = ToSet(targets(h, l))
  <2> SUFFICES ASSUME NEW p \in DOMAIN h.file, NEW l \in lines_in(h, {p}) PROVE NamedBy(h, l) = ToSet(targets(h, l))
    OBVIOUS
  <2>1. l \in lines_in(h, DOMAIN h.file)
    BY DEF lines_in
  <2>2. ToSet(targets(h, l)) = IF l[1] = "include" THEN {l[2]}
                               ELSE IF l[1] = "includedir" THEN regular(h, dir_entries(h, l[2]))
                               ELSE {}
    BY <2>1, TargetsFacts
  <2> QED BY <1>4, <2>2 DEF NamedBy
<1>6. ASSUME NEW p \in v
      PROVE  SudoLeads(h, p) \subseteq v /\ lines_in(h, {p}) \subseteq s.entries
  <2>1. CASE is_dir(h, p)
    <3>1. SudoLeads(h, p) = ToSet(leads_to(h, p))
      <4>1. ToSet(leads_to(h, p)) = regular(h, dir_entries(h, p))
        BY <2>1, LeadsFacts
      <4> QED BY <1>4, <2>1, <4>1 DEF SudoLeads
    <3>2. lines_in(h, {p}) = {}
      <4>1. p \in DOMAIN h.file /\ h.file[p].kind = "dir"
        BY <2>1 DEF is_dir, exists
      <4>2. h.file[p].lines = <<>>
        BY <4>1 DEF Machine, File
      <4> QED BY <4>1, <4>2 DEF lines_in, ToSet
    <3> QED BY <1>3, <3>1, <3>2
  <2>2. CASE ~is_dir(h, p)
    <3> DEFINE r == read_file_capped_regular(h, p)
    <3>1. Notes(p, r, AnyError) = {} /\ ToSet(r.lines) \subseteq s.entries
      BY <1>3, <2>2 DEF Reads
    <3>2. ToSet(r.lines) = lines_in(h, {p}) /\ p \in DOMAIN h.file
      BY <3>1, NoNotes
    <3>3. ToSet(leads_to(h, p)) = UNION {ToSet(targets(h, l)) : l \in ToSet(r.lines)}
      BY <2>2, LeadsFacts
    <3> HIDE DEF r
    <3>4. SudoLeads(h, p) = UNION {NamedBy(h, l) : l \in lines_in(h, {p})}
      BY <2>2 DEF SudoLeads
    <3>5. {NamedBy(h, l) : l \in lines_in(h, {p})} = {ToSet(targets(h, l)) : l \in lines_in(h, {p})}
      BY <1>5, <3>2
    <3>6. SudoLeads(h, p) = ToSet(leads_to(h, p))
      BY <3>2, <3>3, <3>4, <3>5
    <3> QED BY <1>3, <3>1, <3>2, <3>6
  <2> QED BY <2>1, <2>2
<1>7. SudoFiles(h) \subseteq v
  <2> DEFINE N == Cardinality(DOMAIN h.file)
  <2>1. N \in Nat
    BY FS_CardinalityType DEF Machine
  <2>2. PICK reach : /\ reach = [n \in 0 .. N |-> IF n = 0 THEN SudoRoots ELSE Onward(h, reach[n - 1])]
                     /\ SudoFiles(h) = reach[N]
    BY <2>1, ReachDef
  <2> HIDE DEF N
  <2>3. \A n \in 0 .. N : reach[n] = IF n = 0 THEN SudoRoots ELSE Onward(h, reach[n - 1])
    BY <2>2
  <2> DEFINE T == {n \in 0 .. N : ~(reach[n] \subseteq v)}
  <2>4. T = {}
    <3> SUFFICES ASSUME T # {} PROVE FALSE
      OBVIOUS
    <3>1. T \in SUBSET Nat
      BY <2>1
    <3>2. PICK n \in T : \A m \in T : n <= m
      <4> HIDE DEF T
      <4> QED BY <3>1, LeastNumber
    <3>3. n # 0
      BY <1>3, <2>3, <3>2
    <3>4. n - 1 \in 0 .. N /\ ~(n <= n - 1)
      BY <2>1, <3>2, <3>3
    <3>5. reach[n - 1] \subseteq v
      BY <3>2, <3>4
    <3>6. reach[n] = Onward(h, reach[n - 1])
      BY <2>3, <3>2, <3>3
    <3>7. Onward(h, reach[n - 1]) \subseteq v
      BY <1>6, <3>5 DEF Onward
    <3> QED BY <3>2, <3>6, <3>7
  <2>5. N \in 0 .. N
    BY <2>1
  <2>6. N \notin T
    BY <2>4
  <2> QED BY <2>2, <2>5, <2>6
<1>8. lines_in(h, SudoFiles(h)) \subseteq UNION {lines_in(h, {p}) : p \in v}
  <2> SUFFICES ASSUME NEW p \in SudoFiles(h) \cap DOMAIN h.file, NEW l \in ToSet(h.file[p].lines)
               PROVE  l \in UNION {lines_in(h, {q}) : q \in v}
    BY DEF lines_in
  <2>1. l \in lines_in(h, {p})
    BY DEF lines_in
  <2> QED BY <1>7, <2>1
<1> QED BY <1>6, <1>8 DEF s

(* The aliases, one level of depth after the other. *)
Shallow(lines, token) == [t \in tokens(lines, token) |-> IF t = "ALL" THEN "yes" ELSE "cut"]
Deeper(lines, token, prev) ==
    [t \in tokens(lines, token) |->
        LET below == {prev[m] : m \in members(lines, t)}
        IN IF t = "ALL" THEN "yes"
           ELSE IF "yes" \in below THEN "yes"
           ELSE IF "cut" \in below THEN "cut" ELSE "no"]

(* Whether a name leads to ALL, level by level, as sudoers::resolves_to_all follows it. *)
LEMMA WithinDef ==
    ASSUME NEW lines, NEW token
    PROVE  \E within : /\ within = [n \in 0 .. MAX_ALIAS_DEPTH |->
                                       IF n = 0 THEN Shallow(lines, token)
                                       ELSE Deeper(lines, token, within[n - 1])]
                       /\ resolves_to_all(lines, token) = within[MAX_ALIAS_DEPTH][token]
<1> DEFINE N == MAX_ALIAS_DEPTH
           Level(n, prev) ==
            [t \in tokens(lines, token) |->
                LET below == {prev[m] : m \in members(lines, t)}
                IN IF t = "ALL" THEN "yes"
                   ELSE IF n = 0 THEN "cut"
                   ELSE IF "yes" \in below THEN "yes"
                   ELSE IF "cut" \in below THEN "cut" ELSE "no"]
           L(f, n) == f = [i \in 0 .. n |-> Level(i, f[i - 1])]
           P(f, n) == f = [i \in 0 .. n |-> IF i = 0 THEN Shallow(lines, token)
                                            ELSE Deeper(lines, token, f[i - 1])]
<1>0. \A n, prev : Level(n, prev) = IF n = 0 THEN Shallow(lines, token) ELSE Deeper(lines, token, prev)
  BY DEF Shallow, Deeper
<1>1. \A n \in Nat : \E f : P(f, n)
  <2> DEFINE T == {n \in Nat : ~ \E f : P(f, n)}
  <2> SUFFICES ASSUME T # {} PROVE FALSE
    OBVIOUS
  <2>1. PICK n \in T : \A m \in T : n <= m
    BY LeastNumber
  <2>2. n # 0
    <3>1. P([i \in 0 .. 0 |-> Shallow(lines, token)], 0)
      OBVIOUS
    <3> QED BY <2>1, <3>1
  <2>3. PICK f : P(f, n - 1)
    <3> HIDE DEF P
    <3>1. n - 1 \in Nat /\ ~(n <= n - 1)
      BY <2>1, <2>2
    <3>2. n - 1 \notin T
      BY <2>1, <3>1
    <3> QED BY <3>1, <3>2
  <2> DEFINE g == [i \in 0 .. n |-> IF i = 0 THEN Shallow(lines, token) ELSE Deeper(lines, token, f[i - 1])]
  <2>4. \A i \in 0 .. (n - 1) : g[i] = f[i]
    <3> SUFFICES ASSUME NEW i \in 0 .. (n - 1) PROVE g[i] = f[i]
      OBVIOUS
    <3>1. f[i] = IF i = 0 THEN Shallow(lines, token) ELSE Deeper(lines, token, f[i - 1])
      BY <2>3
    <3>2. i \in 0 .. n
      BY <2>1
    <3> QED BY <3>1, <3>2
  <2>5. P(g, n)
    <3>1. ASSUME NEW i \in 0 .. n
          PROVE  g[i] = IF i = 0 THEN Shallow(lines, token) ELSE Deeper(lines, token, g[i - 1])
      <4>1. i # 0 => i - 1 \in 0 .. (n - 1)
        BY <2>1
      <4>2. i # 0 => g[i - 1] = f[i - 1]
        BY <2>4, <4>1
      <4>3. g[i] = IF i = 0 THEN Shallow(lines, token) ELSE Deeper(lines, token, f[i - 1])
        OBVIOUS
      <4> HIDE DEF g
      <4> QED BY <4>2, <4>3
    <3>2. g = [i \in 0 .. n |-> g[i]]
      OBVIOUS
    <3> HIDE DEF g
    <3> QED BY <3>1, <3>2
  <2> QED BY <2>1, <2>5
<1>2. N \in Nat
  BY SudoersLimits
<1>3. PICK e : P(e, N)
  <2> HIDE DEF P
  <2> QED BY <1>1, <1>2
<1> HIDE DEF Level
<1>4. \A f : L(f, N) <=> P(f, N)
  <2> SUFFICES ASSUME NEW f PROVE L(f, N) <=> P(f, N)
    OBVIOUS
  <2>1. [i \in 0 .. N |-> Level(i, f[i - 1])]
        = [i \in 0 .. N |-> IF i = 0 THEN Shallow(lines, token) ELSE Deeper(lines, token, f[i - 1])]
    BY <1>0
  <2> QED BY <2>1
<1> DEFINE F == CHOOSE f : L(f, N)
<1>5. L(F, N)
  <2>1. L(e, N)
    BY <1>3, <1>4
  <2> HIDE DEF L
  <2> QED BY <2>1
<1>6. P(F, N)
  <2> HIDE DEF L, P, F
  <2> QED BY <1>4, <1>5
<1>7. resolves_to_all(lines, token) = F[N][token]
  BY Zenon DEF resolves_to_all, Level
<1> HIDE DEF F
<1> QED BY <1>6, <1>7

(* A name said not to lead to ALL is one of a set of names that does not. *)
LEMMA VerdictFacts ==
    ASSUME NEW lines, NEW token
    PROVE  /\ resolves_to_all(lines, token) \in {"yes", "no", "cut"}
           /\ resolves_to_all(lines, token) = "no" =>
                 \E closed \in SUBSET tokens(lines, token) :
                    /\ token \in closed /\ "ALL" \notin closed
                    /\ \A a \in closed : members(lines, a) \subseteq closed
<1> DEFINE N == MAX_ALIAS_DEPTH
           K == tokens(lines, token)
<1>1. PICK within : /\ within = [n \in 0 .. N |-> IF n = 0 THEN Shallow(lines, token)
                                                 ELSE Deeper(lines, token, within[n - 1])]
                    /\ resolves_to_all(lines, token) = within[N][token]
  BY WithinDef
<1>2. N \in Nat
  BY SudoersLimits
<1> HIDE DEF N
<1>3. \A n \in 0 .. N : within[n] = IF n = 0 THEN Shallow(lines, token)
                                     ELSE Deeper(lines, token, within[n - 1])
  BY <1>1
<1>4. token \in K /\ \A x : members(lines, x) \subseteq K
  BY DEF tokens, members
<1>5. ASSUME NEW n \in 0 .. N, NEW x \in K
      PROVE  /\ within[n][x] \in {"yes", "no", "cut"}
             /\ within[n][x] = "no" => /\ x # "ALL" /\ n # 0
                                       /\ \A m \in members(lines, x) : within[n - 1][m] \notin {"yes", "cut"}
  <2>1. CASE n = 0
    <3>1. within[n][x] = IF x = "ALL" THEN "yes" ELSE "cut"
      BY <1>3, <2>1 DEF Shallow
    <3> QED BY <3>1
  <2>2. CASE n # 0
    <3> DEFINE below == {within[n - 1][m] : m \in members(lines, x)}
    <3>1. within[n][x] = IF x = "ALL" THEN "yes"
                         ELSE IF "yes" \in below THEN "yes"
                         ELSE IF "cut" \in below THEN "cut" ELSE "no"
      BY <1>3, <2>2 DEF Deeper
    <3> QED BY <2>2, <3>1
  <2> QED BY <2>1, <2>2
<1> DEFINE closed == {x \in K : \E n \in 0 .. N : within[n][x] = "no"}
<1>6. ASSUME NEW a \in closed PROVE members(lines, a) \subseteq closed /\ a # "ALL"
  <2>1. PICK n \in 0 .. N : within[n][a] = "no"
    BY <1>6
  <2>2. a # "ALL" /\ n # 0 /\ \A m \in members(lines, a) : within[n - 1][m] \notin {"yes", "cut"}
    BY <1>5, <2>1
  <2>3. n - 1 \in 0 .. N
    BY <1>2, <2>2
  <2>4. \A m \in members(lines, a) : within[n - 1][m] = "no"
    BY <1>4, <1>5, <2>2, <2>3
  <2> QED BY <1>4, <2>2, <2>3, <2>4
<1>7. N \in 0 .. N
  BY <1>2
<1>8. resolves_to_all(lines, token) = "no" => token \in closed
  BY <1>1, <1>4, <1>7
<1>9. resolves_to_all(lines, token) \in {"yes", "no", "cut"}
  BY <1>1, <1>4, <1>5, <1>7
<1>10. closed \in SUBSET tokens(lines, token)
  OBVIOUS
<1> HIDE DEF closed
<1> QED BY <1>6, <1>8, <1>9, <1>10

(* Fewer lines lead to no more. *)
LEMMA FewerLead ==
    ASSUME NEW entries, NEW lines \in SUBSET entries, NEW t, resolves_to_all(entries, t) = "no"
    PROVE  ~Leads(lines, t)
<1>1. PICK closed \in SUBSET tokens(entries, t) :
            /\ t \in closed /\ "ALL" \notin closed
            /\ \A a \in closed : members(entries, a) \subseteq closed
  BY VerdictFacts
<1> DEFINE C == closed \cap tokens(lines, t)
<1>2. t \in tokens(lines, t) /\ \A a : members(lines, a) \subseteq tokens(lines, t)
      /\ members(lines, a) \subseteq members(entries, a)
  BY DEF tokens, members, aliases
<1>3. C \in SUBSET tokens(lines, t) /\ t \in C /\ "ALL" \notin C
      /\ \A a \in C : members(lines, a) \subseteq C
  BY <1>1, <1>2
<1> HIDE DEF C
<1> QED BY <1>3 DEF Leads

(* Whoever becomes root without a password is found, when nothing is said to be in the way. *)
LEMMA RootRulesFound ==
    ASSUME NEW h, Machine(h), exists(h, "sudoers.d") => h.file["sudoers.d"].open,
           sudoers_nopasswd_all(h).warns = {},
           NEW l \in lines_in(h, SudoFiles(h)), l[1] = "nopasswd",
           Leads(lines_in(h, SudoFiles(h)), l[3])
    PROVE  <<"sudoers_nopasswd_all", l[2]>> \in sudoers_nopasswd_all(h).found
<1> DEFINE s == scan_sudoers(h)
           rules == {e \in s.entries : e[1] = "nopasswd"}
           verdict(e) == resolves_to_all(s.entries, e[3])
           free == {x \in rules : verdict(x) = "yes"} \cup {x \in s.entries : x[1] = "noauth"}
           cut == {x \in rules : verdict(x) = "cut"}
<1>1. sudoers_nopasswd_all(h) = Piece({<<"sudoers_nopasswd_all", e[2]>> : e \in free},
                                      s.warns \cup {<<e[3], "alias chain">> : e \in cut})
  BY Zenon DEF sudoers_nopasswd_all
<1> HIDE DEF s, free, cut
<1>2. /\ sudoers_nopasswd_all(h).found = {<<"sudoers_nopasswd_all", e[2]>> : e \in free}
      /\ sudoers_nopasswd_all(h).warns = s.warns \cup {<<e[3], "alias chain">> : e \in cut}
  <2> DEFINE F == {<<"sudoers_nopasswd_all", e[2]>> : e \in free}
             W == s.warns \cup {<<e[3], "alias chain">> : e \in cut}
  <2>1. sudoers_nopasswd_all(h) = Piece(F, W)
    BY <1>1
  <2> HIDE DEF F, W
  <2>2. sudoers_nopasswd_all(h).found = F /\ sudoers_nopasswd_all(h).warns = W
    BY <2>1, PieceFields
  <2> QED BY <2>2 DEF F, W
<1>3. s.warns = {} /\ cut = {}
  BY <1>2
<1>4. lines_in(h, SudoFiles(h)) \in SUBSET s.entries
  BY <1>3, SudoersRead DEF s
<1>5. l \in rules /\ verdict(l) # "cut"
  BY <1>3, <1>4 DEF cut
<1>6. verdict(l) # "no"
  BY <1>4, FewerLead
<1>7. verdict(l) = "yes"
  BY <1>5, <1>6, VerdictFacts
<1>8. l \in free
  BY <1>5, <1>7 DEF free
<1> QED BY <1>2, <1>8

(* Behind a silent report every scanner of every task ran to its end without a warning, and what
   it found is in the report. *)
LEMMA SilentGathered ==
    ASSUME ScanInv, HeldInv, Silent, NEW t \in host.busy, NEW i \in 1 .. Len(Program[t])
    PROVE  LET piece == scan(host, Program[t][i]) IN
           /\ t \in Tasks /\ Program[t][i] \in ScannerNames
           /\ piece.warns = {} /\ piece.found \subseteq Joined
           /\ Keys(piece.found) \subseteq Keys(report.found)
           /\ \A f \in piece.found : f[1] \notin Linked => f \in report.found
<1> DEFINE s == Program[t][i]
           piece == scan(host, s)
<1>1. host \in Hosts /\ t \in Tasks
  BY MachineAssumption DEF ScanInv, Machine
<1>2. i \in DOMAIN Program[t] /\ s \in ScannerNames /\ PieceOf(t, i) = piece /\ Len(Program[t]) \in Nat
  BY <1>1, NamesOfScanners DEF PieceOf
<1> HIDE DEF s, piece
<1>3. /\ report # none /\ report.coverage_warnings = {} /\ report.failed_scanners = {}
  BY DEF Silent
<1>4. runner.at = "done" /\ report.found = runner.found /\ runner.failed = {} /\ said = {}
  BY <1>3 DEF HeldInv, ReportHeld
<1>5. task[t].phase \in Ended /\ task[t].phase # "panicked"
  BY <1>1, <1>4 DEF ScanInv, JoinInv
<1>6. task[t].phase = "returned" /\ task[t].at \in Nat
  BY <1>1, <1>5 DEF Ended, ScanInv, TaskInv
<1>7. Gathered(t)
  BY <1>1 DEF HeldInv, TaskHeld
<1>8. task[t].at > Len(Program[t])
  BY <1>6, <1>7 DEF Gathered
<1>9. Past(t, i)
  BY <1>2, <1>6, <1>8 DEF Past
<1>10. piece.found \subseteq task[t].found /\ piece.warns \subseteq said
  BY <1>2, <1>6, <1>7, <1>9 DEF Gathered
<1>11. piece.found \subseteq Joined
  BY <1>1, <1>10 DEF Joined
<1>12. /\ Keys(Joined) \subseteq Keys(runner.found)
       /\ \A f \in Joined : f[1] \notin Linked => f \in runner.found
  BY <1>4 DEF HeldInv, LinkHeld
<1>13. Keys(piece.found) \subseteq Keys(Joined)
  BY <1>11 DEF Keys
<1> QED BY <1>1, <1>2, <1>4, <1>10, <1>11, <1>12, <1>13 DEF s, piece

(* The scanners of the security task. *)
LEMMA SecurityScanners ==
    ASSUME ScanInv, HeldInv, Silent, "security" \in host.busy
    PROVE  /\ AccessScan(host).warns = {} /\ scan_account_hygiene(host).warns = {}
           /\ AccessScan(host).found \subseteq Joined
           /\ \A f \in AccessScan(host).found : f[1] \notin Linked => f \in report.found
<1>1. Len(Program["security"]) = 11 /\ Program["security"][1] = "access" /\ Program["security"][4] = "hygiene"
  BY DEF Program
<1>2. 1 \in 1 .. 11 /\ 4 \in 1 .. 11
  OBVIOUS
<1>3. scan(host, "access") = AccessScan(host) /\ scan(host, "hygiene") = scan_account_hygiene(host)
  BY DEF scan
<1> QED BY <1>1, <1>2, <1>3, SilentGathered

(* The parts of the access scanner. *)
LEMMA AccessParts ==
    ASSUME NEW h, NEW p \in {scan_sshd(h), sudoers_nopasswd_all(h), gather_sudo_nopasswd(h), shell_users(h),
                             gather_access_alignment(h), gather_sysctl_issues(h)}
    PROVE  p.found \subseteq AccessScan(h).found /\ p.warns \subseteq AccessScan(h).warns
<1> DEFINE PP == {scan_sshd(h), sudoers_nopasswd_all(h), gather_sudo_nopasswd(h), shell_users(h),
                  gather_access_alignment(h), gather_sysctl_issues(h)}
<1>1. AccessScan(h) = All(PP)
  BY Zenon DEF AccessScan
<1>2. p \in PP
  OBVIOUS
<1> HIDE DEF PP
<1>3. AccessScan(h).found = UNION {q.found : q \in PP} /\ AccessScan(h).warns = UNION {q.warns : q \in PP}
  BY <1>1, PieceFields
<1> QED BY <1>2, <1>3

(* The hygiene scanner looks at the directory of the sudoers too. *)
LEMMA SudoersOpen ==
    ASSUME NEW h, Machine(h), scan_account_hygiene(h).warns = {}
    PROVE  exists(h, "sudoers.d") => h.file["sudoers.d"].open
<1> DEFINE W1 == Notes("passwd", passwd(h), AnyError)
           closed == exists(h, "sudoers.d") /\ ~h.file["sudoers.d"].open
           W2 == Where(closed, {<<"sudoers.d", "unreadable">>})
<1>1. \/ passwd(h).err # "none" /\ scan_account_hygiene(h) = Piece({}, W1)
      \/ \E F, A, B : scan_account_hygiene(h) = Piece(F, W1 \cup A \cup W2 \cup B)
  BY Zenon DEF scan_account_hygiene
<1>2. CASE passwd(h).err # "none" /\ scan_account_hygiene(h) = Piece({}, W1)
  <2>1. passwd(h).err \in AnyError
    BY <1>2, ReadRegular DEF passwd, AnyError
  <2>2. W1 # {}
    BY <2>1 DEF Notes
  <2> HIDE DEF W1
  <2> QED BY <1>2, <2>2, PieceFields
<1>3. CASE \E F, A, B : scan_account_hygiene(h) = Piece(F, W1 \cup A \cup W2 \cup B)
  <2> HIDE DEF W1, W2
  <2>1. PICK F, A, B : scan_account_hygiene(h) = Piece(F, W1 \cup A \cup W2 \cup B)
    BY <1>3
  <2>2. W1 \cup A \cup W2 \cup B = {}
    BY <2>1, PieceFields
  <2>3. W2 = {}
    BY <2>2
  <2>4. ~closed
    BY <2>3 DEF W2, Where
  <2> QED BY <2>4
<1> QED BY <1>1, <1>2, <1>3

(* A report that says nothing of the sudoers files names every root rule of them. *)
LEMMA RootRulesHeld == ASSUME ScanInv, HeldInv PROVE NoRootRuleMissed
<1> DEFINE lines == lines_in(host, SudoFiles(host))
<1> SUFFICES ASSUME Silent, "security" \in host.busy, NEW l \in lines, l[1] = "nopasswd", Leads(lines, l[3])
             PROVE  <<"sudoers_nopasswd_all", l[2]>> \in report.found
  BY DEF NoRootRuleMissed
<1>1. Machine(host)
  BY MachineAssumption DEF ScanInv
<1>2. /\ AccessScan(host).warns = {} /\ scan_account_hygiene(host).warns = {}
      /\ \A f \in AccessScan(host).found : f[1] \notin Linked => f \in report.found
  BY SecurityScanners
<1>3. exists(host, "sudoers.d") => host.file["sudoers.d"].open
  BY <1>1, <1>2, SudoersOpen
<1>4. /\ sudoers_nopasswd_all(host).found \subseteq AccessScan(host).found
      /\ sudoers_nopasswd_all(host).warns = {}
  BY <1>2, AccessParts
<1>5. <<"sudoers_nopasswd_all", l[2]>> \in sudoers_nopasswd_all(host).found
  BY <1>1, <1>3, <1>4, RootRulesFound
<1>6. <<"sudoers_nopasswd_all", l[2]>>[1] \notin Linked
  BY DEF Linked
<1> QED BY <1>2, <1>4, <1>5, <1>6

(* A report without a word on the sudoers files misses no rule that makes its user
   root (NoRootRuleMissed), whatever the machine's files and includes. *)
THEOREM RootRulesInvariance == Spec => []NoRootRuleMissed
BY HeldInvariance, RootRulesHeld, PTL

-------------------------------------------------------------------------------
(* sshd_config: the fallback against sshd itself. *)

(* A machine with less in the way has the same files. *)
Freed(h, E, p) == [h.file[p] EXCEPT !.open = IF p \in E THEN h.file[p].open ELSE TRUE]
Uncapped(h, C, p) == IF p \in C THEN h.cap[p] ELSE Len(h.file[p].lines)

(* A machine whose files open and whose reads are whole is the same otherwise. *)
LEMMA UnhinderedFields ==
    ASSUME NEW h, Machine(h), NEW E, NEW C
    PROVE  /\ unhindered(h, E, C).file = [p \in DOMAIN h.file |-> Freed(h, E, p)]
           /\ unhindered(h, E, C).cap = [p \in DOMAIN h.file |-> Uncapped(h, C, p)]
           /\ unhindered(h, E, C) = [x \in Fields |-> unhindered(h, E, C)[x]]
           /\ \A x \in Fields \ {"file", "cap"} : unhindered(h, E, C)[x] = h[x]
<1> DEFINE u == unhindered(h, E, C)
           cap == [p \in DOMAIN h.file |-> Uncapped(h, C, p)]
           file == [p \in DOMAIN h.file |-> Freed(h, E, p)]
<1>1. u = [h EXCEPT !.cap = cap, !.file = file]
  BY Zenon DEF unhindered, Freed, Uncapped
<1>2. h = [x \in Fields |-> h[x]] /\ "cap" \in Fields /\ "file" \in Fields
  BY Zenon DEF Machine, Fields
<1> HIDE DEF cap, file, u, Fields
<1>3. u = [x \in Fields |-> IF x = "file" THEN file ELSE IF x = "cap" THEN cap ELSE h[x]]
  BY <1>1, <1>2
<1>4. u.file = file /\ u.cap = cap /\ u = [x \in Fields |-> u[x]]
      /\ \A x \in Fields \ {"file", "cap"} : u[x] = h[x]
  BY <1>2, <1>3
<1> QED BY <1>4 DEF u, file, cap

(* A file whose read was hindered, freed. *)
LEMMA FreedFacts ==
    ASSUME NEW h, Machine(h), NEW E, NEW p \in DOMAIN h.file
    PROVE  /\ Freed(h, E, p).kind = h.file[p].kind /\ Freed(h, E, p).lines = h.file[p].lines
           /\ Freed(h, E, p).children = h.file[p].children /\ Freed(h, E, p).unsafe = h.file[p].unsafe
           /\ Freed(h, E, p).open <=> (p \in E => h.file[p].open)
           /\ Freed(h, E, p) = [x \in {"kind", "open", "lines", "children", "unsafe"} |-> Freed(h, E, p)[x]]
           /\ Freed(h, E, p).open \in BOOLEAN
<1>1. h.file[p] = [x \in {"kind", "open", "lines", "children", "unsafe"} |-> h.file[p][x]]
      /\ h.file[p].open \in BOOLEAN
  BY Zenon DEF Machine, File
<1> QED BY <1>1 DEF Freed

(* What a file of the unhindered machine is. *)
LEMMA UnhinderedFacts ==
    ASSUME NEW h, Machine(h), NEW E, NEW C
    PROVE  /\ DOMAIN unhindered(h, E, C).file = DOMAIN h.file
           /\ \A p \in DOMAIN h.file :
                 /\ unhindered(h, E, C).file[p].kind = h.file[p].kind
                 /\ unhindered(h, E, C).file[p].lines = h.file[p].lines
                 /\ unhindered(h, E, C).file[p].children = h.file[p].children
                 /\ unhindered(h, E, C).file[p].unsafe = h.file[p].unsafe
<1>1. /\ unhindered(h, E, C).file = [p \in DOMAIN h.file |-> Freed(h, E, p)]
      /\ unhindered(h, E, C).cap = [p \in DOMAIN h.file |-> Uncapped(h, C, p)]
      /\ unhindered(h, E, C) = [x \in Fields |-> unhindered(h, E, C)[x]]
      /\ \A x \in Fields \ {"file", "cap"} : unhindered(h, E, C)[x] = h[x]
  BY UnhinderedFields
<1>2. unhindered(h, E, C).file = [p \in DOMAIN h.file |-> Freed(h, E, p)]
  BY <1>1
<1>3. ASSUME NEW p \in DOMAIN h.file
      PROVE  /\ Freed(h, E, p).kind = h.file[p].kind /\ Freed(h, E, p).lines = h.file[p].lines
             /\ Freed(h, E, p).children = h.file[p].children /\ Freed(h, E, p).unsafe = h.file[p].unsafe
  BY FreedFacts
<1> QED BY <1>2, <1>3

(* Sequences of one, laid end to end. *)
LEMMA FlattenSingles ==
    ASSUME NEW S, NEW s \in Seq(S)
    PROVE  FlattenSeq([i \in DOMAIN s |-> <<s[i]>>]) = s
<1> DEFINE ss == [i \in DOMAIN s |-> <<s[i]>>]
           N == Len(s)
<1>1. N \in Nat /\ DOMAIN s = 1 .. N /\ \A i \in 1 .. N : s[i] \in S
  OBVIOUS
<1>2. Len(ss) = N /\ \A i \in 1 .. N : ss[i] = <<s[i]>>
  BY <1>1
<1> HIDE DEF ss, N
<1>3. PICK flat : /\ flat = [i \in 1 .. N |-> IF i = 1 THEN ss[i] ELSE flat[i - 1] \o ss[i]]
                  /\ FlattenSeq(ss) = IF N = 0 THEN ss ELSE flat[N]
  <2>1. Len(ss) \in Nat
    BY <1>1, <1>2
  <2>2. \E flat : /\ flat = [i \in 1 .. Len(ss) |-> IF i = 1 THEN ss[i] ELSE flat[i - 1] \o ss[i]]
                  /\ FlattenSeq(ss) = IF Len(ss) = 0 THEN ss ELSE flat[Len(ss)]
    BY <2>1, FlattenDef
  <2> QED BY <1>2, <2>2
<1>4. \A i \in 1 .. N : flat[i] = IF i = 1 THEN ss[i] ELSE flat[i - 1] \o ss[i]
  BY <1>3
<1> DEFINE Q(i) == /\ flat[i] \in Seq(S) /\ Len(flat[i]) = i
                   /\ \A j \in 1 .. i : flat[i][j] = s[j]
           T == {i \in 1 .. N : ~Q(i)}
<1>5. T = {}
  <2> SUFFICES ASSUME T # {} PROVE FALSE
    OBVIOUS
  <2>1. PICK i \in T : \A m \in T : i <= m
    <3> HIDE DEF Q
    <3>1. T \in SUBSET Nat
      BY <1>1
    <3> HIDE DEF T
    <3> QED BY <3>1, LeastNumber
  <2>2. i \in 1 .. N /\ ~Q(i)
    BY <2>1
  <2>3. CASE i = 1
    <3>1. flat[1] = <<s[1]>> /\ s[1] \in S
      BY <1>1, <1>2, <1>4, <2>2, <2>3
    <3> QED BY <2>2, <2>3, <3>1
  <2>4. CASE i # 1
    <3>1. i - 1 \in 1 .. N /\ ~(i <= i - 1) /\ i \in Nat
      BY <1>1, <2>2, <2>4
    <3>2. Q(i - 1)
      <4> HIDE DEF Q
      <4> QED BY <2>1, <3>1
    <3>3. flat[i] = flat[i - 1] \o <<s[i]>> /\ s[i] \in S
      BY <1>1, <1>2, <1>4, <2>2, <2>4
    <3>4. flat[i] \in Seq(S) /\ Len(flat[i]) = i
      BY <3>1, <3>2, <3>3
    <3>5. ASSUME NEW j \in 1 .. i PROVE flat[i][j] = s[j]
      <4>1. CASE j = i
        BY <3>1, <3>2, <3>3, <4>1
      <4>2. CASE j # i
        <5>1. j \in 1 .. (i - 1)
          BY <3>1, <4>2
        <5> QED BY <3>1, <3>2, <3>3, <5>1
      <4> QED BY <4>1, <4>2
    <3> QED BY <2>2, <3>4, <3>5
  <2> QED BY <2>3, <2>4
<1>6. CASE N = 0
  <2>1. s = <<>>
    BY <1>1, <1>6 DEF N
  <2>2. ss = <<>>
    BY <2>1 DEF ss
  <2> QED BY <1>3, <1>6, <2>1, <2>2 DEF ss
<1>7. CASE N # 0
  <2>1. N \in 1 .. N /\ N \notin T
    BY <1>1, <1>5, <1>7
  <2>2. Q(N)
    <3> HIDE DEF Q
    <3> QED BY <2>1
  <2>3. flat[N] = s
    BY <2>2, <1>1 DEF N
  <2> QED BY <1>3, <1>7, <2>3 DEF ss
<1> QED BY <1>6, <1>7

(* What sshd reads, one level of includes after the other. *)
Everywhere(h) == unhindered(h, {}, {})
Blank(all) == [p \in DOMAIN all.file |-> <<>>]
Opened(all, prev) ==
    [p \in DOMAIN all.file |->
        LET lines == all.file[p].lines
        IN FlattenSeq([i \in DOMAIN lines |-> sshd_line(all, lines[i], prev)])]

(* The expansion of the includes of sshd_config, depth by depth. *)
LEMMA ExpandedDef ==
    ASSUME NEW h
    PROVE  LET all == Everywhere(h) IN
           \E expanded : /\ expanded = [n \in 0 .. SERVCONF_MAX_DEPTH |->
                                           IF n = 0 THEN Blank(all) ELSE Opened(all, expanded[n - 1])]
                         /\ sshd_lines(h) = IF exists(h, "sshd_config")
                                            THEN expanded[SERVCONF_MAX_DEPTH]["sshd_config"] ELSE <<>>
<1> DEFINE N == SERVCONF_MAX_DEPTH
           all == Everywhere(h)
           Level(d, prev) ==
            [p \in DOMAIN all.file |->
                IF d = 0 THEN <<>>
                ELSE LET lines == all.file[p].lines
                     IN FlattenSeq([i \in DOMAIN lines |-> sshd_line(all, lines[i], prev)])]
           L(f, n) == f = [i \in 0 .. n |-> Level(i, f[i - 1])]
           P(f, n) == f = [i \in 0 .. n |-> IF i = 0 THEN Blank(all) ELSE Opened(all, f[i - 1])]
<1>0. \A n, prev : Level(n, prev) = IF n = 0 THEN Blank(all) ELSE Opened(all, prev)
  <2> SUFFICES ASSUME NEW n, NEW prev PROVE Level(n, prev) = IF n = 0 THEN Blank(all) ELSE Opened(all, prev)
    OBVIOUS
  <2>1. CASE n = 0
    BY <2>1 DEF Blank
  <2>2. CASE n # 0
    <3> DEFINE G(p) == LET lines == all.file[p].lines
                       IN FlattenSeq([i \in DOMAIN lines |-> sshd_line(all, lines[i], prev)])
    <3>1. Level(n, prev) = [p \in DOMAIN all.file |-> IF n = 0 THEN <<>> ELSE G(p)]
      BY Zenon
    <3>2. Opened(all, prev) = [p \in DOMAIN all.file |-> G(p)]
      BY Zenon DEF Opened
    <3> HIDE DEF G, all, Level
    <3> QED BY <2>2, <3>1, <3>2
  <2> QED BY <2>1, <2>2
<1> HIDE DEF all
<1>1. \A n \in Nat : \E f : P(f, n)
  <2> DEFINE T == {n \in Nat : ~ \E f : P(f, n)}
  <2> SUFFICES ASSUME T # {} PROVE FALSE
    OBVIOUS
  <2>1. PICK n \in T : \A m \in T : n <= m
    BY LeastNumber
  <2>2. n # 0
    <3>1. P([i \in 0 .. 0 |-> Blank(all)], 0)
      OBVIOUS
    <3> QED BY <2>1, <3>1
  <2>3. PICK f : P(f, n - 1)
    <3> HIDE DEF P
    <3>1. n - 1 \in Nat /\ ~(n <= n - 1)
      BY <2>1, <2>2
    <3>2. n - 1 \notin T
      BY <2>1, <3>1
    <3> QED BY <3>1, <3>2
  <2> DEFINE g == [i \in 0 .. n |-> IF i = 0 THEN Blank(all) ELSE Opened(all, f[i - 1])]
  <2>4. \A i \in 0 .. (n - 1) : g[i] = f[i]
    <3> SUFFICES ASSUME NEW i \in 0 .. (n - 1) PROVE g[i] = f[i]
      OBVIOUS
    <3>1. f[i] = IF i = 0 THEN Blank(all) ELSE Opened(all, f[i - 1])
      BY <2>3
    <3>2. i \in 0 .. n
      BY <2>1
    <3> QED BY <3>1, <3>2
  <2>5. P(g, n)
    <3>1. ASSUME NEW i \in 0 .. n
          PROVE  g[i] = IF i = 0 THEN Blank(all) ELSE Opened(all, g[i - 1])
      <4>1. i # 0 => i - 1 \in 0 .. (n - 1)
        BY <2>1
      <4>2. i # 0 => g[i - 1] = f[i - 1]
        BY <2>4, <4>1
      <4>3. g[i] = IF i = 0 THEN Blank(all) ELSE Opened(all, f[i - 1])
        OBVIOUS
      <4> HIDE DEF g
      <4> QED BY <4>2, <4>3
    <3>2. g = [i \in 0 .. n |-> g[i]]
      OBVIOUS
    <3> HIDE DEF g
    <3> QED BY <3>1, <3>2
  <2> QED BY <2>1, <2>5
<1>2. N \in Nat
  BY DEF SERVCONF_MAX_DEPTH
<1>3. PICK e : P(e, N)
  <2> HIDE DEF P
  <2> QED BY <1>1, <1>2
<1> HIDE DEF Level
<1>4. \A f : L(f, N) <=> P(f, N)
  <2> SUFFICES ASSUME NEW f PROVE L(f, N) <=> P(f, N)
    OBVIOUS
  <2>1. [i \in 0 .. N |-> Level(i, f[i - 1])]
        = [i \in 0 .. N |-> IF i = 0 THEN Blank(all) ELSE Opened(all, f[i - 1])]
    BY <1>0
  <2> QED BY <2>1
<1> DEFINE F == CHOOSE f : L(f, N)
<1>5. L(F, N)
  <2>1. L(e, N)
    BY <1>3, <1>4
  <2> HIDE DEF L
  <2> QED BY <2>1
<1>6. P(F, N)
  <2> HIDE DEF L, P, F
  <2> QED BY <1>4, <1>5
<1>7. sshd_lines(h) = IF exists(h, "sshd_config") THEN F[N]["sshd_config"] ELSE <<>>
  BY Zenon DEF sshd_lines, Level, all, Everywhere
<1> HIDE DEF F
<1> QED BY <1>6, <1>7 DEF all

(* Under plain includes, two levels are all there is. *)
LEMMA SshdLines ==
    ASSUME NEW h, exists(h, "sshd_config"), Machine(h)
    PROVE  LET all == Everywhere(h)
               lines == h.file["sshd_config"].lines IN
           \E e15, e14 : /\ sshd_lines(h) = FlattenSeq([i \in DOMAIN lines |-> sshd_line(all, lines[i], e15)])
                         /\ \A p \in DOMAIN h.file :
                               e15[p] = FlattenSeq([i \in DOMAIN h.file[p].lines |->
                                                      sshd_line(all, h.file[p].lines[i], e14)])
<1> DEFINE all == Everywhere(h)
           N == SERVCONF_MAX_DEPTH
<1>1. PICK e : /\ e = [n \in 0 .. N |-> IF n = 0 THEN Blank(all) ELSE Opened(all, e[n - 1])]
               /\ sshd_lines(h) = IF exists(h, "sshd_config") THEN e[N]["sshd_config"] ELSE <<>>
  BY ExpandedDef
<1>2. DOMAIN all.file = DOMAIN h.file /\ \A p \in DOMAIN h.file : all.file[p].lines = h.file[p].lines
  <2>1. /\ DOMAIN unhindered(h, {}, {}).file = DOMAIN h.file
        /\ \A p \in DOMAIN h.file :
              /\ unhindered(h, {}, {}).file[p].kind = h.file[p].kind
              /\ unhindered(h, {}, {}).file[p].lines = h.file[p].lines
              /\ unhindered(h, {}, {}).file[p].children = h.file[p].children
              /\ unhindered(h, {}, {}).file[p].unsafe = h.file[p].unsafe
    BY UnhinderedFacts
  <2> QED BY <2>1, Zenon DEF Everywhere
<1> HIDE DEF all
<1>3. N = 16 /\ 16 \in 0 .. 16 /\ 15 \in 0 .. 16
  BY DEF SERVCONF_MAX_DEPTH
<1>4. e[16] = Opened(all, e[15]) /\ e[15] = Opened(all, e[14])
  BY <1>1, <1>3
<1>5. ASSUME NEW p \in DOMAIN h.file, NEW prev
      PROVE  Opened(all, prev)[p] = FlattenSeq([i \in DOMAIN h.file[p].lines |->
                                                  sshd_line(all, h.file[p].lines[i], prev)])
  <2> DEFINE G(q) == LET lines == all.file[q].lines
                     IN FlattenSeq([i \in DOMAIN lines |-> sshd_line(all, lines[i], prev)])
  <2>1. Opened(all, prev) = [q \in DOMAIN all.file |-> G(q)]
    BY Zenon DEF Opened
  <2>2. G(p) = FlattenSeq([i \in DOMAIN h.file[p].lines |-> sshd_line(all, h.file[p].lines[i], prev)])
    BY <1>2
  <2> HIDE DEF G
  <2>3. Opened(all, prev)[p] = G(p)
    BY <1>2, <2>1
  <2> QED BY <2>2, <2>3
<1>6. "sshd_config" \in DOMAIN h.file
  BY DEF exists
<1>7. sshd_lines(h) = e[16]["sshd_config"]
  BY <1>1, <1>3
<1>8. \A p \in DOMAIN h.file : e[15][p] = FlattenSeq([i \in DOMAIN h.file[p].lines |->
                                                      sshd_line(all, h.file[p].lines[i], e[14])])
  BY <1>4, <1>5
<1>9. sshd_lines(h) = FlattenSeq([i \in DOMAIN h.file["sshd_config"].lines |->
                                    sshd_line(all, h.file["sshd_config"].lines[i], e[15])])
  BY <1>4, <1>5, <1>6, <1>7
<1> QED BY <1>8, <1>9 DEF all

(* The files are the same for sshd, which may read all of them. *)
LEMMA SameFiles ==
    ASSUME NEW h, Machine(h), NEW p
    PROVE  LET all == Everywhere(h) IN
           /\ is_file(all, p) <=> is_file(h, p)
           /\ children(all, p) = children(h, p)
<1> DEFINE all == Everywhere(h)
<1>1. /\ DOMAIN all.file = DOMAIN h.file
      /\ \A q \in DOMAIN h.file : /\ all.file[q].kind = h.file[q].kind
                                  /\ all.file[q].lines = h.file[q].lines
                                  /\ all.file[q].children = h.file[q].children
                                  /\ all.file[q].unsafe = h.file[q].unsafe
  <2>1. /\ DOMAIN unhindered(h, {}, {}).file = DOMAIN h.file
        /\ \A q \in DOMAIN h.file :
              /\ unhindered(h, {}, {}).file[q].kind = h.file[q].kind
              /\ unhindered(h, {}, {}).file[q].lines = h.file[q].lines
              /\ unhindered(h, {}, {}).file[q].children = h.file[q].children
              /\ unhindered(h, {}, {}).file[q].unsafe = h.file[q].unsafe
    BY UnhinderedFacts
  <2> QED BY <2>1, Zenon DEF Everywhere
<1> HIDE DEF all
<1>2. is_file(all, p) <=> is_file(h, p)
  BY <1>1 DEF is_file, exists
<1>3. is_dir(all, p) <=> is_dir(h, p)
  BY <1>1 DEF is_dir, exists
<1>4. is_dir(h, p) => p \in DOMAIN h.file
  BY DEF is_dir, exists
<1>5. children(all, p) = children(h, p)
  BY <1>1, <1>3, <1>4 DEF children
<1> QED BY <1>2, <1>5 DEF all

(* A file that holds no include is the same one level down. *)
LEMMA PlainFile ==
    ASSUME NEW h, Machine(h), NEW p \in DOMAIN h.file, NEW e14,
           \A m \in ToSet(h.file[p].lines) : m[1] \notin Includes
    PROVE  FlattenSeq([i \in DOMAIN h.file[p].lines |-> sshd_line(Everywhere(h), h.file[p].lines[i], e14)])
           = h.file[p].lines
<1> DEFINE s == h.file[p].lines
           S == ToSet(s)
<1>1. s \in Seq(S)
  BY DEF Machine, File
<1>2. \A i \in DOMAIN s : s[i][1] \notin Includes
  BY DEF ToSet
<1>3. \A i \in DOMAIN s : sshd_line(Everywhere(h), s[i], e14) = <<s[i]>>
  BY <1>2 DEF sshd_line
<1> HIDE DEF s, S
<1>4. [i \in DOMAIN s |-> sshd_line(Everywhere(h), s[i], e14)] = [i \in DOMAIN s |-> <<s[i]>>]
  BY <1>3
<1>5. FlattenSeq([i \in DOMAIN s |-> <<s[i]>>]) = s
  BY <1>1, FlattenSingles
<1> QED BY <1>4, <1>5 DEF s

(* The parts that the fallback reads of an include are what its pattern names, or lie in the
   directory that it names. *)
LEMMA FallbackParts ==
    ASSUME NEW h, Machine(h), NEW l
    PROVE  /\ ToSet(fallback_included(h, l)) \subseteq {l[2][1].at} \cup children(h, l[2][1].at)
           /\ ToSet(fallback_included(h, l)) # {} => l[2][1] \in ToSet(l[2])
<1> DEFINE at == l[2][1].at
           D == dir_entries(h, at) \cap ConfNames
<1>1. ToSet(SetToSeq(D)) = D /\ D \subseteq children(h, at)
  <2>1. IsFiniteSet(dir_entries(h, at)) /\ dir_entries(h, at) \subseteq children(h, at)
    BY EntriesFacts
  <2>2. IsFiniteSet(D)
    BY <2>1, FS_Subset
  <2> HIDE DEF D
  <2>3. ToSet(SetToSeq(D)) = D
    BY <2>2, SetToSeqFacts
  <2> QED BY <2>1, <2>3 DEF D
<1>2. ToSet(<<at>>) = {at} /\ \A e : ToSet(e) = {e[i] : i \in DOMAIN e}
  BY DEF ToSet
<1>3. alone(l) => l[2][1] \in ToSet(l[2])
  <2> SUFFICES ASSUME alone(l) PROVE l[2][1] \in ToSet(l[2])
    OBVIOUS
  <2>1. 1 \in DOMAIN l[2]
    BY DEF alone
  <2> QED BY <2>1 DEF ToSet
<1>4. ToSet(<<>>) = {}
  BY DEF ToSet
<1>5. CASE ~alone(l) \/ ~l[2][1].plain \/ l[2][1].glob = "?"
  BY <1>4, <1>5 DEF fallback_included
<1>6. CASE alone(l) /\ l[2][1].plain /\ l[2][1].glob # "?"
  <2>1. fallback_included(h, l) = IF l[2][1].glob = "*" THEN SetToSeq(D) ELSE <<at>>
    BY <1>6 DEF fallback_included
  <2> HIDE DEF D
  <2> QED BY <1>1, <1>2, <1>3, <1>6, <2>1
<1> QED BY <1>5, <1>6

(* A sequence of one sequence. *)
LEMMA FlattenOne == ASSUME NEW x PROVE FlattenSeq(<<x>>) = x
<1> DEFINE ss == <<x>>
<1>1. Len(ss) = 1 /\ ss[1] = x /\ Len(ss) \in Nat
  OBVIOUS
<1> HIDE DEF ss
<1>2. PICK flat : /\ flat = [i \in 1 .. 1 |-> IF i = 1 THEN ss[i] ELSE flat[i - 1] \o ss[i]]
                  /\ FlattenSeq(ss) = flat[1]
  <2>1. 1 # 0
    OBVIOUS
  <2> QED BY <1>1, <2>1, FlattenDef
<1>3. flat[1] = x
  BY <1>1, <1>2
<1> QED BY <1>2, <1>3 DEF ss

(* An include of the shared syntax names the same files to both. *)
LEMMA SharedPattern ==
    ASSUME NEW h, Machine(h), NEW l, Shared(h, l),
           dir_entries(h, l[2][1].at) = children(h, l[2][1].at)
    PROVE  fallback_included(h, l) = sshd_included(Everywhere(h), l)
<1> DEFINE all == Everywhere(h)
           p == l[2][1]
           names(q) == IF q.glob = "" THEN <<q.at>> ELSE SetToSeq(q.matched \cap children(all, q.at))
<1>1. children(all, p.at) = children(h, p.at)
  BY SameFiles
<1>2. /\ l[2] = <<p>> /\ p.plain /\ p.glob \in {"", "*"}
      /\ p.glob = "*" => p.matched \cap children(h, p.at) = ConfNames \cap children(h, p.at)
  BY DEF Shared, alone
<1>3. sshd_included(all, l) = FlattenSeq([i \in DOMAIN l[2] |-> names(l[2][i])])
  BY Zenon DEF sshd_included
<1> HIDE DEF p, names, all
<1>4. [i \in DOMAIN l[2] |-> names(l[2][i])] = <<names(p)>>
  <2>1. DOMAIN l[2] = 1 .. 1 /\ l[2][1] = p
    <3>1. \A y : DOMAIN <<y>> = 1 .. 1 /\ <<y>>[1] = y
      OBVIOUS
    <3>2. DOMAIN <<p>> = 1 .. 1 /\ <<p>>[1] = p
      BY <3>1
    <3> QED BY <1>2, <3>2, Zenon
  <2>2. \A i \in 1 .. 1 : names(l[2][i]) = names(p)
    <3> SUFFICES ASSUME NEW i \in 1 .. 1 PROVE names(l[2][i]) = names(p)
      OBVIOUS
    <3>1. i = 1
      OBVIOUS
    <3> QED BY <2>1, <3>1
  <2>3. [i \in DOMAIN l[2] |-> names(l[2][i])] = [i \in 1 .. 1 |-> names(p)]
    BY <2>1, <2>2
  <2> DEFINE x == names(p)
  <2> HIDE DEF x
  <2>4. [i \in 1 .. 1 |-> x] = <<x>>
    OBVIOUS
  <2> QED BY <2>3, <2>4 DEF x
<1>5. sshd_included(all, l) = names(p)
  BY <1>3, <1>4, FlattenOne
<1>6. fallback_included(h, l) =
        IF p.glob = "*" THEN SetToSeq(dir_entries(h, p.at) \cap ConfNames) ELSE <<p.at>>
  BY <1>2 DEF fallback_included, alone, p
<1>7. dir_entries(h, p.at) \cap ConfNames = ConfNames \cap children(h, p.at)
  BY DEF p
<1>8. CASE p.glob = ""
  <2>1. names(p) = <<p.at>>
    BY <1>8 DEF names
  <2> QED BY <1>5, <1>6, <1>8, <2>1 DEF all
<1>9. CASE p.glob = "*"
  <2>1. names(p) = SetToSeq(p.matched \cap children(all, p.at))
    BY <1>9 DEF names
  <2>2. p.matched \cap children(all, p.at) = dir_entries(h, p.at) \cap ConfNames
    BY <1>1, <1>2, <1>7, <1>9 DEF all, p
  <2> QED BY <1>5, <1>6, <1>9, <2>1, <2>2 DEF all
<1> QED BY <1>2, <1>8, <1>9

(* A line of sshd_config comes to the same for the fallback parser as for sshd. *)
LEMMA SameLine ==
    ASSUME NEW h, Machine(h), Plainly(h), NEW l \in lines_in(h, {"sshd_config"}), NEW e15, NEW e14,
           \A p \in DOMAIN h.file :
              e15[p] = FlattenSeq([i \in DOMAIN h.file[p].lines |->
                                     sshd_line(Everywhere(h), h.file[p].lines[i], e14)]),
           l[1] = "Include" => \A p \in ToSet(fallback_included(h, l)) :
              Notes(p, read_file_capped_regular(h, p), {"InvalidData"}) = {}
    PROVE  fallback_lines(h, l) = sshd_line(Everywhere(h), l, e15)
<1> DEFINE all == Everywhere(h)
           d == l[2][1].at
<1>1. CASE l[1] \notin Includes
  BY <1>1 DEF fallback_lines, sshd_line, Includes
<1>2. CASE l[1] \in Includes
  <2>0. Shared(h, l) /\ l[1] = "Include"
    BY <1>2 DEF Plainly, Shared
  <2>1. \A p \in {d} \cup children(h, d) :
            exists(h, p) => h.file[p].open /\ \A m \in ToSet(h.file[p].lines) : m[1] \notin Includes
    BY <1>2 DEF Plainly
  <2>2. dir_entries(h, d) = children(h, d)
    <3>1. CASE is_dir(h, d)
      <4>1. exists(h, d)
        BY <3>1 DEF is_dir
      <4>2. h.file[d].open
        BY <2>1, <4>1
      <4> QED BY <3>1, <4>2 DEF dir_entries, listable
    <3>2. CASE ~is_dir(h, d)
      BY <3>2 DEF dir_entries, listable, children
    <3> QED BY <3>1, <3>2
  <2> DEFINE files == fallback_included(h, l)
  <2>4. files = sshd_included(all, l)
    BY <2>0, <2>2, SharedPattern
  <2>5. ToSet(files) \subseteq {d} \cup children(h, d)
    BY FallbackParts, <2>0
  <2> DEFINE mine(p) == read_file_capped_regular(h, p).lines
             theirs(p) == IF is_file(all, p) THEN e15[p] ELSE <<>>
  <2>6. fallback_lines(h, l) = FlattenSeq([i \in DOMAIN files |-> mine(files[i])])
    BY <2>0, Zenon DEF fallback_lines
  <2>7. sshd_line(all, l, e15) = FlattenSeq([i \in DOMAIN files |-> theirs(files[i])])
    <3> DEFINE other == sshd_included(all, l)
    <3>1. sshd_line(all, l, e15) = FlattenSeq([i \in DOMAIN other |-> theirs(other[i])])
      BY <1>2, Zenon DEF sshd_line
    <3> HIDE DEF theirs, other
    <3> QED BY <2>4, <3>1 DEF other
  <2>8. ASSUME NEW p \in ToSet(files) PROVE mine(p) = theirs(p)
    <3> DEFINE r == read_file_capped_regular(h, p)
    <3>1. is_file(all, p) <=> is_file(h, p)
      BY SameFiles
    <3>2. Notes(p, r, {"InvalidData"}) = {}
      BY <2>0, <2>8
    <3>3. p \in {d} \cup children(h, d)
      BY <2>5, <2>8
    <3>4. CASE is_file(h, p)
      <4>1. p \in DOMAIN h.file /\ exists(h, p)
        BY <3>4 DEF is_file, exists
      <4>2. h.file[p].open /\ \A m \in ToSet(h.file[p].lines) : m[1] \notin Includes
        BY <2>1, <3>3, <4>1
      <4>3. r.err = "none"
        BY <3>4, <4>1, <4>2 DEF read_file_capped_regular, read_procfs_capped, Result
      <4>4. ~r.truncated
        BY <3>2 DEF Notes
      <4>5. r.lines = h.file[p].lines
        BY <4>3, <4>4, ReadRegular
      <4>6. e15[p] = h.file[p].lines
        BY <4>1, <4>2, PlainFile
      <4> QED BY <3>1, <3>4, <4>5, <4>6
    <3>5. CASE ~is_file(h, p)
      <4>1. r.err # "none"
        BY <3>5, ReadRegular
      <4>2. r.lines = <<>>
        BY <4>1, ReadRegular
      <4> QED BY <3>1, <3>5, <4>2
    <3> QED BY <3>4, <3>5
  <2> HIDE DEF files, mine, theirs, all
  <2>9. \A i \in DOMAIN files : mine(files[i]) = theirs(files[i])
    BY <2>8 DEF ToSet
  <2>10. [i \in DOMAIN files |-> mine(files[i])] = [i \in DOMAIN files |-> theirs(files[i])]
    BY <2>9
  <2> QED BY <2>6, <2>7, <2>10 DEF all
<1> QED BY <1>1, <1>2

(* What the fallback parser reads, and what it says of it. *)
FallbackLines(h) ==
    LET r == read_file_capped_regular(h, "sshd_config")
    IN FlattenSeq([i \in DOMAIN r.lines |-> fallback_lines(h, r.lines[i])])
FallbackFound(h) ==
    LET facts == sshd_facts(h, before_match(FallbackLines(h)), "yes")
    IN {f \in facts : f[1] # "root_login" \/ f[2] = "no"}
       \cup Where(<<"root_login", "no">> \notin facts, {<<"root_login", "yes">>})

(* The fallback reads sshd_config and its includes line by line. *)
LEMMA FallbackDef ==
    ASSUME NEW h
    PROVE  LET r == read_file_capped_regular(h, "sshd_config")
               parts == UNION {ToSet(fallback_included(h, l)) :
                                l \in {m \in ToSet(r.lines) : m[1] = "Include"}}
           IN \E W : fallback_parse_main_config(h)
                     = Piece(FallbackFound(h),
                             Notes("sshd_config", r, ErrorsButMissing)
                                \cup (UNION {Notes(p, read_file_capped_regular(h, p), {"InvalidData"}) : p \in parts})
                                \cup W)
BY Zenon DEF fallback_parse_main_config, FallbackFound, FallbackLines

(* When no file of sshd_config is closed, the fallback reads the lines sshd reads. *)
LEMMA SameLines ==
    ASSUME NEW h, Machine(h), Plainly(h), fallback_parse_main_config(h).warns = {}
    PROVE  FallbackLines(h) = sshd_lines(h)
<1> DEFINE r == read_file_capped_regular(h, "sshd_config")
           parts == UNION {ToSet(fallback_included(h, l)) :
                                l \in {m \in ToSet(r.lines) : m[1] = "Include"}}
           A == Notes("sshd_config", r, ErrorsButMissing)
           B == UNION {Notes(p, read_file_capped_regular(h, p), {"InvalidData"}) : p \in parts}
<1>1. PICK W : fallback_parse_main_config(h) = Piece(FallbackFound(h), A \cup B \cup W)
  BY FallbackDef, Zenon
<1>2. A = {} /\ B = {}
  <2> HIDE DEF A, B
  <2>1. fallback_parse_main_config(h).warns = A \cup B \cup W
    BY <1>1, PieceFields
  <2> QED BY <2>1
<1>3. \A p \in parts : Notes(p, read_file_capped_regular(h, p), {"InvalidData"}) = {}
  BY <1>2
<1> HIDE DEF parts, A, B
<1>4. r.err \in {"none", "NotFound"} /\ ~r.truncated
  <2>1. r.err \notin ErrorsButMissing /\ ~r.truncated
    BY <1>2 DEF Notes, A
  <2>2. r.err \in {"none", "NotFound", "PermissionDenied", "InvalidData"}
    BY ReadRegular
  <2> QED BY <2>1, <2>2 DEF ErrorsButMissing
<1>5. FallbackLines(h) = FlattenSeq([i \in DOMAIN r.lines |-> fallback_lines(h, r.lines[i])])
  BY Zenon DEF FallbackLines
<1>6. CASE r.err = "none"
  <2>1. "sshd_config" \in DOMAIN h.file /\ r.lines = h.file["sshd_config"].lines
    BY <1>4, <1>6, ReadRegular
  <2>2. exists(h, "sshd_config") /\ lines_in(h, {"sshd_config"}) = ToSet(r.lines)
    BY <2>1 DEF exists, lines_in
  <2> DEFINE lines == h.file["sshd_config"].lines
             all == Everywhere(h)
  <2>3. PICK e15, e14 :
          /\ sshd_lines(h) = FlattenSeq([i \in DOMAIN lines |-> sshd_line(all, lines[i], e15)])
          /\ \A p \in DOMAIN h.file :
                e15[p] = FlattenSeq([i \in DOMAIN h.file[p].lines |-> sshd_line(all, h.file[p].lines[i], e14)])
    BY <2>2, SshdLines
  <2>4. ASSUME NEW l \in ToSet(r.lines) PROVE fallback_lines(h, l) = sshd_line(all, l, e15)
    <3>1. l[1] = "Include" => \A p \in ToSet(fallback_included(h, l)) :
              Notes(p, read_file_capped_regular(h, p), {"InvalidData"}) = {}
      BY <1>3 DEF parts
    <3>2. l \in lines_in(h, {"sshd_config"})
      BY <2>2
    <3> QED BY <2>3, <3>1, <3>2, SameLine
  <2>5. \A i \in DOMAIN lines : fallback_lines(h, lines[i]) = sshd_line(all, lines[i], e15)
    BY <2>1, <2>4 DEF ToSet
  <2> HIDE DEF lines, all
  <2>6. [i \in DOMAIN lines |-> fallback_lines(h, lines[i])] = [i \in DOMAIN lines |-> sshd_line(all, lines[i], e15)]
    BY <2>5
  <2>7. r.lines = lines
    BY <2>1 DEF lines
  <2> QED BY <1>5, <2>3, <2>6, <2>7
<1>7. CASE r.err = "NotFound"
  <2>1. ~exists(h, "sshd_config") /\ r.lines = <<>>
    BY <1>7 DEF read_file_capped_regular, read_procfs_capped, Result
  <2>2. sshd_lines(h) = <<>>
    BY <2>1, Zenon DEF sshd_lines
  <2>3. [i \in DOMAIN r.lines |-> fallback_lines(h, r.lines[i])] = <<>>
    BY <2>1
  <2> DEFINE ss == <<>>
  <2>4. Len(ss) \in Nat /\ Len(ss) = 0
    OBVIOUS
  <2> HIDE DEF ss
  <2>5. FlattenSeq(ss) = ss
    BY <2>4, FlattenDef
  <2> QED BY <1>5, <2>2, <2>3, <2>5 DEF ss
<1> QED BY <1>4, <1>6, <1>7

(* What the directives say under one default and the other. *)
LEMMA FactsUnderDefaults ==
    ASSUME NEW h, NEW lines
    PROVE  LET mine == sshd_facts(h, lines, "yes")
               theirs == sshd_facts(h, lines, "prohibit-password") IN
           /\ \A f : f[1] # "root_login" => (f \in mine <=> f \in theirs)
           /\ <<"root_login", "no">> \in mine => <<"root_login", "no">> \in theirs
<1> DEFINE mine == sshd_facts(h, lines, "yes")
           theirs == sshd_facts(h, lines, "prohibit-password")
           A == Where(first_value(lines, "passwordauthentication", "yes") = "yes", {<<"password_auth">>})
           B == {<<"sshd_directives", l[1], assess_writability(h, l[2])>> :
                    l \in {m \in ToSet(lines) : m[1] \in SSHD_SENSITIVE /\ ~neutral(m[1], m[2])}}
           x == first_value(lines, "permitrootlogin", "yes")
           y == first_value(lines, "permitrootlogin", "prohibit-password")
<1>1. mine = A \cup {<<"root_login", x>>} \cup B /\ theirs = A \cup {<<"root_login", y>>} \cup B
  BY Zenon DEF sshd_facts
<1>2. x = "no" => y = "no"
  BY DEF first_value
<1>3. \A f \in A \cup B : f[1] # "root_login"
  <2>1. \A f \in A : f[1] # "root_login"
    BY DEF Where
  <2>2. \A f \in B : f[1] # "root_login"
    OBVIOUS
  <2> QED BY <2>1, <2>2
<1> HIDE DEF A, B, x, y, mine, theirs
<1>4. \A v : <<"root_login", v>>[1] = "root_login" /\ (<<"root_login", v>> = <<"root_login", "no">> => v = "no")
  OBVIOUS
<1>5. \A f : f[1] # "root_login" => (f \in mine <=> f \in theirs)
  BY <1>1, <1>4
<1>6. <<"root_login", "no">> \in mine => <<"root_login", "no">> \in theirs
  BY <1>1, <1>2, <1>3, <1>4
<1> QED BY <1>5, <1>6 DEF mine, theirs

(* The fallback of a report without a word on it is no milder than sshd. *)
LEMMA FallbackHeld == ASSUME ScanInv, HeldInv PROVE FallbackNoMilder
<1> DEFINE effective == sshd_T(host)
<1> SUFFICES ASSUME Silent, "security" \in host.busy, ~host.sshd, Plainly(host)
             PROVE  /\ <<"password_auth">> \in effective => <<"password_auth">> \in report.found
                    /\ <<"root_login", "no">> \in report.found => <<"root_login", "no">> \in effective
                    /\ \A f \in effective : f[1] = "sshd_directives" => f \in report.found
  BY DEF FallbackNoMilder
<1>1. Machine(host)
  BY MachineAssumption DEF ScanInv
<1>2. /\ AccessScan(host).warns = {}
      /\ \A f \in AccessScan(host).found : f[1] \notin Linked => f \in report.found
  BY SecurityScanners
<1>3. /\ scan_sshd(host).found \subseteq AccessScan(host).found
      /\ scan_sshd(host).warns = {}
  BY <1>2, AccessParts
<1>4. scan_sshd(host) = fallback_parse_main_config(host)
  BY DEF scan_sshd
<1>5. FallbackLines(host) = sshd_lines(host)
  BY <1>1, <1>3, <1>4, SameLines
<1>6. scan_sshd(host).found = FallbackFound(host)
  <2>1. \E W : fallback_parse_main_config(host) = Piece(FallbackFound(host), W)
    BY FallbackDef, Zenon
  <2> QED BY <1>4, <2>1, PieceFields
<1> DEFINE B == before_match(sshd_lines(host))
           mine == sshd_facts(host, B, "yes")
<1>7. effective = sshd_facts(host, B, "prohibit-password")
  BY Zenon DEF sshd_T
<1>8. FallbackFound(host) = {f \in mine : f[1] # "root_login" \/ f[2] = "no"}
                            \cup Where(<<"root_login", "no">> \notin mine, {<<"root_login", "yes">>})
  BY <1>5, Zenon DEF FallbackFound
<1>9. /\ \A f : f[1] # "root_login" => (f \in mine <=> f \in effective)
      /\ <<"root_login", "no">> \in mine => <<"root_login", "no">> \in effective
  BY <1>7, FactsUnderDefaults
<1> HIDE DEF effective, mine, B
<1>10. ASSUME NEW f \in effective, f[1] \in {"password_auth", "sshd_directives"} PROVE f \in report.found
  <2>1. f \in mine
    BY <1>9, <1>10
  <2>2. f \in FallbackFound(host)
    BY <1>8, <1>10, <2>1
  <2> QED BY <1>2, <1>3, <1>6, <1>10, <2>2 DEF Linked
<1>11. <<"password_auth">>[1] = "password_auth"
  OBVIOUS
<1>12. ASSUME <<"root_login", "no">> \in report.found PROVE <<"root_login", "no">> \in effective
  <2> DEFINE f == <<"root_login", "no">>
  <2>1. f[1] = "root_login" /\ f[2] = "no" /\ f # <<"root_login", "yes">>
    OBVIOUS
  <2> HIDE DEF f
  <2>2. runner.at = "done" /\ report.found = runner.found
    BY DEF Silent, HeldInv, ReportHeld
  <2>3. f \in Joined
    BY <1>12, <2>1, <2>2 DEF HeldInv, LinkHeld, Linked, Bypass, f
  <2>4. Trusted(f)
    BY <2>3 DEF HeldInv, TaskHeld, Joined
  <2>5. f \in FallbackFound(host)
    BY <1>6, <2>1, <2>4 DEF Trusted
  <2>6. f \in mine
    BY <1>8, <2>1, <2>5 DEF Where
  <2> QED BY <1>9, <2>6 DEF f
<1> QED BY <1>10, <1>11, <1>12

(* Where sshd -T cannot be run, what is read of sshd_config without a warning is never
   milder than what sshd itself would say (FallbackNoMilder), on every machine. *)
THEOREM FallbackInvariance == Spec => []FallbackNoMilder
BY HeldInvariance, FallbackHeld, PTL

===============================================================================
