--------------------------- MODULE FleetAuditProofs ---------------------------
(***************************************************************************)
(* What becomes of a report between the scan and the caller: the verdict   *)
(* aggregate and the exit-code table for any reports in any order, and the *)
(* JSONL stream for any records, channel capacity and initial file.  Then  *)
(* the fleet: admission control, the output file and the exit contract,    *)
(* for any hosts, any --max-concurrent, any channel capacity and any       *)
(* number of runs.                                                         *)
(*                                                                         *)
(* DeliveredOrCounted says nothing before the writer returns.  What is     *)
(* inductive is that, as long as no error is counted, the records in the   *)
(* file, the buffer, the writer's hand and the channel are together, in    *)
(* this order, the records the file had and the records sent.              *)
(***************************************************************************)
EXTENDS FleetAudit, JsonlStream, OutcomeBuilder, SequenceTheorems, FiniteSetTheorems, TLAPS

-------------------------------------------------------------------------------
(* The operators of ExitContract, for every report, aggregate and outcome. *)

(* worse is the maximum for rank, and rank tells the verdicts apart. *)
LEMMA WorseFacts ==
    \A a, b \in Verdict :
        /\ worse(a, b) \in {a, b}
        /\ rank(a) \in 0 .. 2
        /\ rank(a) = 2 <=> a = "compromised"
        /\ rank(a) = rank(b) => a = b
        /\ rank(worse(a, b)) >= rank(a) /\ rank(worse(a, b)) >= rank(b)
  BY DEF Verdict, worse, rank

(* OutcomeBuilder::add keeps an aggregate one and remembers a compromise. *)
LEMMA AddFacts ==
    ASSUME NEW a \in Aggregate, NEW r \in Report
    PROVE  /\ add(a, r) \in Aggregate
           /\ a.verdict = "compromised" => add(a, r).verdict = "compromised"
           /\ r.verdict = "compromised" => add(a, r).verdict = "compromised"
<1>1. /\ a.verdict \in Verdict \cup {NoVerdict} /\ a.reports_seen \in Nat
      /\ r.verdict \in Verdict
  BY DEF Aggregate, Report
<1> DEFINE v == IF a.verdict = NoVerdict THEN r.verdict ELSE worse(a.verdict, r.verdict)
<1>2. /\ v \in Verdict
      /\ a.verdict = "compromised" => v = "compromised"
      /\ r.verdict = "compromised" => v = "compromised"
  BY <1>1 DEF Verdict, NoVerdict, worse, rank
<1>3. add(a, r).verdict = v
  BY DEF add
<1>4. add(a, r) \in Aggregate
  <2>1. /\ a.scanners_failed \in BOOLEAN /\ a.non_root \in BOOLEAN /\ a.warnings \in BOOLEAN
        /\ r.scanners_failed \in BOOLEAN /\ r.non_root \in BOOLEAN /\ r.warnings \in BOOLEAN
    BY DEF Aggregate, Report
  <2> HIDE DEF v
  <2>2. add(a, r) = [verdict |-> v,
                       scanners_failed |-> a.scanners_failed \/ r.scanners_failed,
                       non_root |-> a.non_root \/ r.non_root,
                       warnings |-> a.warnings \/ r.warnings,
                       reports_seen |-> a.reports_seen + 1]
    BY DEF add, v
  <2> QED BY <1>1, <1>2, <2>1, <2>2 DEF Aggregate
<1> QED BY <1>2, <1>3, <1>4

(* The worst of the verdicts in a non-empty set of reports exists. *)
LEMMA WorstExists ==
    ASSUME NEW S \in SUBSET Report, S # {}
    PROVE  \E v \in {r.verdict : r \in S} : \A r \in S : rank(v) >= rank(r.verdict)
<1>1. \A r \in S : r.verdict \in Verdict
  BY DEF Report
<1>2. CASE \E r \in S : r.verdict = "compromised"
  BY <1>1, <1>2 DEF Verdict, rank
<1>3. CASE /\ \A r \in S : r.verdict # "compromised"
           /\ \E r \in S : r.verdict = "critical"
  BY <1>1, <1>3 DEF Verdict, rank
<1>4. CASE \A r \in S : r.verdict = "clean"
  BY <1>1, <1>4 DEF Verdict, rank
<1> QED BY <1>1, <1>2, <1>3, <1>4 DEF Verdict

Worst(S) == CHOOSE v \in {r.verdict : r \in S} : \A r \in S : rank(v) >= rank(r.verdict)

(* The verdict that AggregateOf chooses is one of those seen, and the worst. *)
LEMMA WorstFacts ==
    ASSUME NEW S \in SUBSET Report, S # {}
    PROVE  /\ Worst(S) \in {r.verdict : r \in S} /\ Worst(S) \in Verdict
           /\ \A r \in S : rank(Worst(S)) >= rank(r.verdict)
           /\ (\E r \in S : r.verdict = "compromised") => Worst(S) = "compromised"
<1>1. Worst(S) \in {r.verdict : r \in S} /\ \A r \in S : rank(Worst(S)) >= rank(r.verdict)
  BY WorstExists DEF Worst
<1>2. Worst(S) \in Verdict
  BY <1>1 DEF Report
<1>3. (\E r \in S : r.verdict = "compromised") => Worst(S) = "compromised"
  BY <1>1, <1>2 DEF rank, Verdict
<1> QED BY <1>1, <1>2, <1>3

Fed(rs) == {rs[i] : i \in DOMAIN rs}

(* The aggregate of any sequence of reports is an aggregate, and remembers *)
(* a compromise.                                                           *)
LEMMA AggregateOfFacts ==
    ASSUME NEW rs \in Seq(Report)
    PROVE  /\ AggregateOf(rs) \in Aggregate
           /\ (\E i \in DOMAIN rs : rs[i].verdict = "compromised") =>
                 AggregateOf(rs).verdict = "compromised"
<1> DEFINE S == Fed(rs)
           w == IF S = {} THEN NoVerdict ELSE Worst(S)
<1>1. S \in SUBSET Report
  BY ElementOfSeq DEF Fed
<1>2. Len(rs) \in Nat
  BY LenProperties
<1>3. /\ w \in Verdict \cup {NoVerdict}
      /\ (\E i \in DOMAIN rs : rs[i].verdict = "compromised") => w = "compromised"
  <2>1. CASE S = {}
    BY <2>1 DEF Fed
  <2>2. CASE S # {}
    BY <1>1, <2>2, WorstFacts DEF Fed
  <2> QED BY <2>1, <2>2
<1>4. AggregateOf(rs) = [verdict         |-> w,
                         scanners_failed |-> \E r \in S : r.scanners_failed,
                         non_root        |-> \E r \in S : r.non_root,
                         warnings        |-> \E r \in S : r.warnings,
                         reports_seen    |-> Len(rs)]
  BY Zenon DEF AggregateOf, Worst, Fed
<1> HIDE DEF S, w
<1> QED BY <1>2, <1>3, <1>4 DEF Aggregate

(***************************************************************************)
(* Feeding one more report with add is aggregating the longer sequence:    *)
(* AggregateOf is what repeated calls of OutcomeBuilder::add compute.      *)
(***************************************************************************)
LEMMA AggregateOfAppend ==
    ASSUME NEW rs \in Seq(Report), NEW r \in Report
    PROVE  AggregateOf(Append(rs, r)) = add(AggregateOf(rs), r)
<1> DEFINE S == Fed(rs)
           T == Fed(Append(rs, r))
<1>1. S \in SUBSET Report
  BY ElementOfSeq DEF Fed
<1>2. T = S \cup {r} /\ T \in SUBSET Report /\ T # {}
  BY <1>1 DEF Fed
<1>3. Len(Append(rs, r)) = Len(rs) + 1
  BY AppendProperties
<1> DEFINE w(X) == IF X = {} THEN NoVerdict ELSE Worst(X)
<1>4. w(T) = IF w(S) = NoVerdict THEN r.verdict ELSE worse(w(S), r.verdict)
  <2>1. CASE S = {}
    <3>1. T = {r}
      BY <1>2, <2>1
    <3>2. Worst(T) = r.verdict
      BY <1>2, <3>1, WorstFacts
    <3> QED BY <1>2, <2>1, <3>2
  <2>2. CASE S # {}
    <3>1. /\ Worst(S) \in {x.verdict : x \in S} /\ Worst(S) \in Verdict
          /\ \A x \in S : rank(Worst(S)) >= rank(x.verdict)
      BY <1>1, <2>2, WorstFacts
    <3>2. /\ Worst(T) \in {x.verdict : x \in T} /\ Worst(T) \in Verdict
          /\ \A x \in T : rank(Worst(T)) >= rank(x.verdict)
      BY <1>2, WorstFacts
    <3>3. r.verdict \in Verdict
      BY DEF Report
    <3>4. worse(Worst(S), r.verdict) \in Verdict
      BY <3>1, <3>3, WorseFacts
    <3>5. rank(Worst(T)) >= rank(worse(Worst(S), r.verdict))
      <4>1. worse(Worst(S), r.verdict) \in {Worst(S), r.verdict}
        BY <3>1, <3>3, WorseFacts
      <4>2. PICK x \in T : worse(Worst(S), r.verdict) = x.verdict
        BY <1>2, <3>1, <4>1
      <4> QED BY <3>2, <4>2
    <3>6. rank(worse(Worst(S), r.verdict)) >= rank(Worst(T))
      <4>1. PICK x \in T : Worst(T) = x.verdict
        BY <3>2
      <4>2. CASE x = r
        BY <3>1, <3>3, <4>1, <4>2, WorseFacts
      <4>3. CASE x \in S
        <5>1. rank(Worst(S)) >= rank(x.verdict)
          BY <3>1, <4>3
        <5>2. rank(worse(Worst(S), r.verdict)) >= rank(Worst(S))
          BY <3>1, <3>3, WorseFacts
        <5>3. rank(Worst(S)) \in Int /\ rank(Worst(T)) \in Int
              /\ rank(worse(Worst(S), r.verdict)) \in Int
          BY <3>1, <3>2, <3>4, WorseFacts
        <5> QED BY <4>1, <5>1, <5>2, <5>3
      <4> QED BY <1>2, <4>1, <4>2, <4>3
    <3>7. Worst(T) = worse(Worst(S), r.verdict)
      BY <3>2, <3>4, <3>5, <3>6, WorseFacts
    <3>8. Worst(S) # NoVerdict
      BY <3>1 DEF Verdict, NoVerdict
    <3> QED BY <1>2, <2>2, <3>7, <3>8
  <2> QED BY <2>1, <2>2
<1>5. \A q : AggregateOf(q) = [verdict         |-> w(Fed(q)),
                               scanners_failed |-> \E x \in Fed(q) : x.scanners_failed,
                               non_root        |-> \E x \in Fed(q) : x.non_root,
                               warnings        |-> \E x \in Fed(q) : x.warnings,
                               reports_seen    |-> Len(q)]
  BY Zenon DEF AggregateOf, Worst, Fed
<1> HIDE DEF w, S, T
<1>6. /\ (\E x \in T : x.scanners_failed) = ((\E x \in S : x.scanners_failed) \/ r.scanners_failed)
      /\ (\E x \in T : x.non_root) = ((\E x \in S : x.non_root) \/ r.non_root)
      /\ (\E x \in T : x.warnings) = ((\E x \in S : x.warnings) \/ r.warnings)
  <2>1. r.scanners_failed \in BOOLEAN /\ r.non_root \in BOOLEAN /\ r.warnings \in BOOLEAN
    BY DEF Report
  <2> QED BY <1>2, <2>1
<1> DEFINE p == AggregateOf(rs)
<1>7. /\ p.verdict = w(S) /\ p.reports_seen = Len(rs)
      /\ p.scanners_failed = (\E x \in S : x.scanners_failed)
      /\ p.non_root = (\E x \in S : x.non_root)
      /\ p.warnings = (\E x \in S : x.warnings)
  BY <1>5 DEF S
<1>8. AggregateOf(Append(rs, r)) = [verdict         |-> w(T),
                                    scanners_failed |-> \E x \in T : x.scanners_failed,
                                    non_root        |-> \E x \in T : x.non_root,
                                    warnings        |-> \E x \in T : x.warnings,
                                    reports_seen    |-> Len(rs) + 1]
  BY <1>3, <1>5, Zenon DEF T
<1> HIDE DEF p
<1>9. add(p, r) = [verdict         |-> w(T),
                   scanners_failed |-> \E x \in T : x.scanners_failed,
                   non_root        |-> \E x \in T : x.non_root,
                   warnings        |-> \E x \in T : x.warnings,
                   reports_seen    |-> Len(rs) + 1]
  BY <1>4, <1>6, <1>7, Zenon DEF add
<1> QED BY <1>8, <1>9 DEF p

(* Every code exit_code and fleet_code return is one of the public ones. *)
LEMMA CodeFacts ==
    ASSUME NEW o, o.verdict \in Verdict \cup {NoVerdict},
           NEW stopped \in BOOLEAN, NEW strict \in BOOLEAN
    PROVE  /\ exit_code(o, strict) \in {EXIT_CLEAN, EXIT_CRITICAL, EXIT_DEGRADED,
                                        EXIT_COMPROMISED, EXIT_INCOMPLETE}
           /\ fleet_code(o, stopped, strict) \in
                 {EXIT_CLEAN, EXIT_CRITICAL, EXIT_DEGRADED, EXIT_COMPROMISED,
                  EXIT_INCOMPLETE, EXIT_INTERRUPT}
           /\ o.verdict = "compromised" =>
                 fleet_code(o, stopped, strict) = EXIT_COMPROMISED
  BY DEF exit_code, fleet_code, Verdict, NoVerdict, EXIT_CLEAN, EXIT_CRITICAL,
         EXIT_DEGRADED, EXIT_COMPROMISED, EXIT_INCOMPLETE, EXIT_INTERRUPT

-------------------------------------------------------------------------------
(* The aggregator and the exit-code table. *)

(* The aggregate agrees with its reference definition over the reports fed. *)
AggInv == fed \in Seq(Report) /\ AggregateAgrees

(* No report: the aggregate is OutcomeBuilder::default(). *)
LEMMA EmptyAggregateOf == AggregateOf(<<>>) = EmptyAggregate
<1>1. Fed(<<>>) = {} /\ Len(<<>>) = 0
  BY EmptySeq DEF Fed
<1> QED BY <1>1, Zenon DEF AggregateOf, EmptyAggregate, Fed

(* Feeding one more report keeps the aggregate equal to that of all. *)
LEMMA NextAggInv == AggInv /\ [OutcomeNext]_outcomeVars => AggInv'
<1>1. SUFFICES ASSUME AggInv, [OutcomeNext]_outcomeVars PROVE AggInv'
  BY Zenon
<1>2. CASE UNCHANGED outcomeVars
  BY <1>1, <1>2 DEF AggInv, AggregateAgrees, outcomeVars
<1>3. ASSUME NEW r \in Feeds, Feed(r) PROVE AggInv'
  <2>1. r \in Report
    BY FeedsAssumption
  <2>2. /\ fed' = Append(fed, r) /\ builder' = add(builder, r)
        /\ fed \in Seq(Report) /\ builder = AggregateOf(fed)
    BY <1>1, <1>3 DEF Feed, AggInv, AggregateAgrees
  <2>3. fed' \in Seq(Report)
    BY <2>1, <2>2, AppendProperties
  <2>4. AggregateOf(fed') = add(AggregateOf(fed), r)
    BY <2>1, <2>2, AggregateOfAppend
  <2> QED BY <2>2, <2>3, <2>4 DEF AggInv, AggregateAgrees
<1> QED BY <1>1, <1>2, <1>3 DEF OutcomeNext

(* The aggregate is that of the reports fed, for any reports and bound. *)
THEOREM AggInvariance == OutcomeSpec => []AggInv
<1>1. OutcomeInit => AggInv
  BY EmptyAggregateOf, EmptySeq DEF OutcomeInit, AggInv, AggregateAgrees
<1> QED BY <1>1, NextAggInv, PTL DEF OutcomeSpec

(* Feeding reports one by one computes the aggregate of all of them. *)
THEOREM AggregateCorrect == OutcomeSpec => []AggregateAgrees
<1>1. AggInv => AggregateAgrees
  BY DEF AggInv
<1> QED BY <1>1, AggInvariance, PTL

-------------------------------------------------------------------------------
(* What the aggregate of a sequence of reports tells about them. *)
LEMMA WhatAggregateTells ==
    ASSUME NEW rs \in Seq(Report)
    PROVE  LET found == {rs[i].verdict : i \in DOMAIN rs}
               a == AggregateOf(rs)
           IN /\ a.verdict \in Verdict \cup {NoVerdict}
              /\ a.verdict = NoVerdict <=> found = {}
              /\ a.verdict = "compromised" <=> "compromised" \in found
              /\ a.verdict = "critical" <=> "critical" \in found /\ "compromised" \notin found
              /\ a.verdict = "clean" <=> found = {"clean"}
              /\ a.reports_seen = Len(rs)
              /\ a.scanners_failed = \E i \in DOMAIN rs : rs[i].scanners_failed
              /\ a.non_root = \E i \in DOMAIN rs : rs[i].non_root
              /\ a.warnings = \E i \in DOMAIN rs : rs[i].warnings
<1> DEFINE found == {rs[i].verdict : i \in DOMAIN rs}
           S == Fed(rs)
           a == AggregateOf(rs)
<1>1. S \in SUBSET Report
  BY ElementOfSeq DEF Fed
<1>2. found = {x.verdict : x \in S}
  BY DEF Fed
<1>3. a = [verdict         |-> IF S = {} THEN NoVerdict ELSE Worst(S),
           scanners_failed |-> \E x \in S : x.scanners_failed,
           non_root        |-> \E x \in S : x.non_root,
           warnings        |-> \E x \in S : x.warnings,
           reports_seen    |-> Len(rs)]
  BY Zenon DEF AggregateOf, Worst, Fed
<1>4. /\ a.reports_seen = Len(rs)
      /\ a.scanners_failed = \E i \in DOMAIN rs : rs[i].scanners_failed
      /\ a.non_root = \E i \in DOMAIN rs : rs[i].non_root
      /\ a.warnings = \E i \in DOMAIN rs : rs[i].warnings
  BY <1>3 DEF Fed
<1>5. a.verdict = IF S = {} THEN NoVerdict ELSE Worst(S)
  BY <1>3
<1>6. \A x \in S : x.verdict \in Verdict
  BY <1>1 DEF Report
<1> HIDE DEF S, found, a
<1>7. /\ a.verdict \in Verdict \cup {NoVerdict}
      /\ a.verdict = NoVerdict <=> found = {}
      /\ a.verdict = "compromised" <=> "compromised" \in found
      /\ a.verdict = "critical" <=> "critical" \in found /\ "compromised" \notin found
      /\ a.verdict = "clean" <=> found = {"clean"}
  <2>1. CASE S = {}
    BY <1>2, <1>5, <2>1 DEF Verdict, NoVerdict
  <2>2. CASE S # {}
    <3>1. /\ Worst(S) \in found /\ Worst(S) \in Verdict
          /\ \A v \in found : v \in Verdict /\ rank(Worst(S)) >= rank(v)
      BY <1>1, <1>2, <1>6, <2>2, WorstFacts
    <3>2. a.verdict = Worst(S)
      BY <1>5, <2>2
    <3> HIDE DEF Worst
    <3> QED BY <3>1, <3>2 DEF Verdict, NoVerdict, rank
  <2> QED BY <2>1, <2>2
<1> QED BY <1>4, <1>7 DEF found, a

(* The exit-code table holds for every run of the aggregator. *)
THEOREM ContractHolds == OutcomeSpec => []PublicContract
<1>1. AggInv => PublicContract
  <2>1. SUFFICES ASSUME AggInv, NEW lost \in 0 .. 1, NEW failed \in BOOLEAN, NEW strict \in BOOLEAN
        PROVE LET code   == exit_code(Outcome(lost, failed), strict)
                  found  == {fed[i].verdict : i \in DOMAIN fed}
                  gap    == \/ Len(fed) < Requested \/ lost > 0 \/ failed
                            \/ \E i \in DOMAIN fed : \/ fed[i].scanners_failed
                                                     \/ fed[i].non_root \/ fed[i].warnings
              IN /\ code = EXIT_COMPROMISED <=> "compromised" \in found
                 /\ code = EXIT_CLEAN <=> found = {"clean"} /\ ~gap
                 /\ code = EXIT_CRITICAL <=>
                      "critical" \in found /\ "compromised" \notin found /\ ~gap
                 /\ code = EXIT_DEGRADED <=>
                      found # {} /\ "compromised" \notin found /\ gap /\ ~strict
                 /\ code = EXIT_INCOMPLETE <=>
                      found = {} \/ ("compromised" \notin found /\ gap /\ strict)
    BY Zenon DEF PublicContract
  <2> DEFINE o == Outcome(lost, failed)
             found == {fed[i].verdict : i \in DOMAIN fed}
             gap == \/ Len(fed) < Requested \/ lost > 0 \/ failed
                    \/ \E i \in DOMAIN fed : \/ fed[i].scanners_failed
                                             \/ fed[i].non_root \/ fed[i].warnings
  <2>2. /\ builder.verdict \in Verdict \cup {NoVerdict}
        /\ builder.verdict = NoVerdict <=> found = {}
        /\ builder.verdict = "compromised" <=> "compromised" \in found
        /\ builder.verdict = "critical" <=> "critical" \in found /\ "compromised" \notin found
        /\ builder.verdict = "clean" <=> found = {"clean"}
        /\ builder.reports_seen = Len(fed)
        /\ builder.scanners_failed = \E i \in DOMAIN fed : fed[i].scanners_failed
        /\ builder.non_root = \E i \in DOMAIN fed : fed[i].non_root
        /\ builder.warnings = \E i \in DOMAIN fed : fed[i].warnings
    BY <2>1, WhatAggregateTells DEF AggInv, AggregateAgrees
  <2>3. /\ o.verdict = builder.verdict /\ o.records_lost = lost /\ o.output_failed = failed
        /\ o.hosts_missing = saturating_sub(Requested, Len(fed))
        /\ o.scanners_failed = builder.scanners_failed
        /\ o.non_root = builder.non_root /\ o.warnings = builder.warnings
    BY <2>2 DEF Outcome, finish
  <2>4. o.hosts_missing = 0 <=> ~(Len(fed) < Requested)
    <3>1. Len(fed) \in Nat /\ Requested \in Nat
      BY <2>1, RequestedAssumption, LenProperties DEF AggInv
    <3> QED BY <2>3, <3>1 DEF saturating_sub
  <2>5. lost = 0 <=> ~(lost > 0)
    BY <2>1
  <2> HIDE DEF o, found
  <2>6. is_full(o) <=> ~gap
    BY <2>1, <2>2, <2>3, <2>4, <2>5, Zenon DEF is_full
  <2> HIDE DEF gap
  <2>7. /\ exit_code(o, strict) = EXIT_COMPROMISED <=> "compromised" \in found
        /\ exit_code(o, strict) = EXIT_CLEAN <=> found = {"clean"} /\ ~gap
        /\ exit_code(o, strict) = EXIT_CRITICAL <=>
              "critical" \in found /\ "compromised" \notin found /\ ~gap
        /\ exit_code(o, strict) = EXIT_DEGRADED <=>
              found # {} /\ "compromised" \notin found /\ gap /\ ~strict
        /\ exit_code(o, strict) = EXIT_INCOMPLETE <=>
              found = {} \/ ("compromised" \notin found /\ gap /\ strict)
    BY <2>1, <2>2, <2>3, <2>6
    DEF exit_code, Verdict, NoVerdict, EXIT_CLEAN, EXIT_CRITICAL, EXIT_DEGRADED,
        EXIT_COMPROMISED, EXIT_INCOMPLETE
  <2> QED BY <2>7 DEF o, found, gap
<1> QED BY <1>1, AggInvariance, PTL

-------------------------------------------------------------------------------
(* The writer of the JSONL stream: what each of its steps preserves. *)

(* While the writer is healthy the file ends in a complete line. *)
Undamaged == Receiving /\ ~poisoned => disk.tail = "ok"

(* Concatenation as an operator the provers do not expand unless told to. *)
Cat(s, t) == s \o t

(* Until an error is counted, nothing sent is missing and order is kept. *)
InOrder == Receiving /\ ioErrors = 0 =>
              Cat(Cat(disk.recs, buf), Cat(line, chan)) = Cat(opened, sent)

(* The writer is poisoned only by an error it has counted, and then it only *)
(* drains: it never holds a record to write.                               *)
PoisonCounted == poisoned => ioErrors > 0 /\ writer # "write"

WriterInv == /\ WriterTypeOK /\ NeverFused /\ Undamaged /\ InOrder
             /\ PoisonCounted /\ DeliveredOrCounted

-------------------------------------------------------------------------------
(* Lemmas about files and sequences. *)

(* Appending records to a file keeps it a file, adds exactly these records *)
(* and ends in a complete line if it did before.                           *)
LEMMA AppendToFacts ==
    ASSUME NEW d \in File, NEW s \in Seq(Record)
    PROVE  /\ AppendTo(d, s) \in File
           /\ AppendTo(d, s).recs = d.recs \o s
           /\ d.tail = "ok" => AppendTo(d, s).tail = "ok" /\ AppendTo(d, s).fused = d.fused
<1>1. d.recs \in Seq(Record) /\ d.recs \o <<>> = d.recs /\ d.recs \o s \in Seq(Record)
  BY ConcatEmptySeq, ConcatProperties DEF File
<1>2. CASE s = <<>>
  BY <1>1, <1>2 DEF AppendTo, File
<1>3. CASE s # <<>>
  BY <1>1, <1>3 DEF AppendTo, File, Tail_
<1> QED BY <1>2, <1>3

(* A write that stops keeps the file a file; behind a complete line it     *)
(* fuses nothing.                                                          *)
LEMMA PartialWriteFacts ==
    ASSUME NEW d \in File, NEW s \in Seq(Record), NEW c \in Cuts(s)
    PROVE  /\ PartialWrite(d, s, c) \in File
           /\ d.tail = "ok" => PartialWrite(d, s, c).fused = d.fused
           /\ Rest(s, c) \in Seq(Record)
<1>1. c.n \in 0 .. Len(s) /\ c.tail \in Tail_ /\ Len(s) \in Nat
  BY DEF Cuts
<1>2. /\ \A i \in 1 .. c.n : s[i] \in Record
      /\ \A i \in c.n + 1 .. Len(s) : s[i] \in Record
  BY <1>1, ElementOfSeq
<1>3. SubSeq(s, 1, c.n) \in Seq(Record)
  BY <1>1, <1>2, SubSeqProperties
<1>4. Rest(s, c) \in Seq(Record)
  BY <1>1, <1>2, SubSeqProperties DEF Rest
<1>5. d.recs \o SubSeq(s, 1, c.n) \in Seq(Record)
  BY <1>3, ConcatProperties DEF File
<1>6. PartialWrite(d, s, c) \in File
  BY <1>1, <1>5 DEF PartialWrite, File
<1>7. d.tail = "ok" => PartialWrite(d, s, c).fused = d.fused
  BY DEF PartialWrite, File
<1> QED BY <1>4, <1>6, <1>7

(* Dropping the BufWriter keeps the file a file and fuses nothing. *)
LEMMA AfterDropFacts ==
    ASSUME NEW d \in File, NEW s \in Seq(Record), NEW e \in AfterDrop(d, s)
    PROVE  e \in File /\ e.fused = d.fused
<1>1. d.recs \o s \in Seq(Record)
  BY ConcatProperties DEF File
<1>2. CASE e = d
  BY <1>2
<1>3. CASE e = [recs |-> d.recs \o s, tail |-> "ok", fused |-> d.fused]
  BY <1>1, <1>3 DEF File, Tail_
<1>4. \/ e = d
      \/ e = [recs |-> d.recs \o s, tail |-> "ok", fused |-> d.fused]
  BY DEF AfterDrop
<1> QED BY <1>2, <1>3, <1>4

(* Splitting a concatenation after the first part, or after all of it. *)
LEMMA SplitConcat ==
    ASSUME NEW s \in Seq(Record), NEW k \in 0 .. Len(s)
    PROVE  /\ SubSeq(s, 1, k) \in Seq(Record)
           /\ SubSeq(s, k + 1, Len(s)) \in Seq(Record)
           /\ SubSeq(s, 1, k) \o SubSeq(s, k + 1, Len(s)) = s
<1>1. Len(s) \in Nat
  BY LenProperties
<1>2. /\ \A i \in 1 .. k : s[i] \in Record
      /\ \A i \in k + 1 .. Len(s) : s[i] \in Record
  BY <1>1, ElementOfSeq
<1>3. /\ SubSeq(s, 1, k) \in Seq(Record)
      /\ SubSeq(s, k + 1, Len(s)) \in Seq(Record)
  BY <1>1, <1>2, SubSeqProperties
<1>4. 1 \in 1 .. Len(s) + 1 /\ k \in 1 - 1 .. Len(s) /\ Len(s) \in k .. Len(s)
  BY <1>1
<1>5. SubSeq(s, 1, k) \o SubSeq(s, k + 1, Len(s)) = SubSeq(s, 1, Len(s))
  BY <1>4, ConcatAdjacentSubSeq
<1> QED BY <1>3, <1>5, SubSeqFull

(* Concatenation of record sequences: type, length, elements. *)
LEMMA CatFacts ==
    /\ \A s, t \in Seq(Record) : Cat(s, t) \in Seq(Record) /\ Len(Cat(s, t)) = Len(s) + Len(t)
    /\ \A s \in Seq(Record) : Cat(s, <<>>) = s /\ Cat(<<>>, s) = s
  BY ConcatProperties, ConcatEmptySeq DEF Cat

(* Concatenation is associative. *)
LEMMA CatAssociative ==
    \A s, t, u \in Seq(Record) : Cat(Cat(s, t), u) = Cat(s, Cat(t, u))
  BY ConcatAssociative DEF Cat

(* An element appended to the second part is appended to the whole. *)
LEMMA CatAppend ==
    \A s, t \in Seq(Record), r \in Record : Cat(s, Append(t, r)) = Append(Cat(s, t), r)
<1>1. SUFFICES ASSUME NEW s \in Seq(Record), NEW t \in Seq(Record), NEW r \in Record
               PROVE  Cat(s, Append(t, r)) = Append(Cat(s, t), r)
  BY Zenon
<1>2. <<r>> \in Seq(Record) /\ Cat(s, t) \in Seq(Record)
  BY CatFacts
<1>3. Append(t, r) = Cat(t, <<r>>) /\ Append(Cat(s, t), r) = Cat(Cat(s, t), <<r>>)
  BY <1>2, AppendIsConcat DEF Cat
<1>4. Cat(Cat(s, t), <<r>>) = Cat(s, Cat(t, <<r>>))
  BY <1>2, CatAssociative, Zenon
<1> QED BY <1>3, <1>4, Zenon

(* What is in the channel may be seen as its head and the rest. *)
LEMMA HeadAndTail ==
    ASSUME NEW s \in Seq(Record), s # <<>>
    PROVE  /\ <<Head(s)>> \in Seq(Record) /\ Tail(s) \in Seq(Record)
           /\ Len(Tail(s)) = Len(s) - 1
           /\ Cat(<<Head(s)>>, Tail(s)) = s
<1>1. Head(s) \in Record /\ Tail(s) \in Seq(Record) /\ Len(Tail(s)) = Len(s) - 1
  BY HeadTailProperties
<1>2. <<Head(s)>> \o Tail(s) = s
  BY <1>1
<1> QED BY <1>1, <1>2 DEF Cat

-------------------------------------------------------------------------------
(* One lemma per action. *)

(* A record accepted by the channel is behind everything on its way. *)
LEMMA SendInv ==
    ASSUME WriterInv, NEW r \in Record, Send(r)
    PROVE  WriterInv'
<1> USE DEF WriterInv
<1>1. chan' \in Seq(Record) /\ sent' \in Seq(Record) /\ Len(chan') = Len(chan) + 1
  BY AppendProperties DEF Send, WriterTypeOK
<1>2. WriterTypeOK'
  BY <1>1, ChannelCapAssumption DEF Send, WriterTypeOK
<1>3. InOrder'
  <2> DEFINE front == Cat(disk.recs, buf)
  <2>1. front \in Seq(Record) /\ Cat(line, chan) \in Seq(Record)
    BY CatFacts DEF WriterTypeOK, File
  <2>2. Cat(line, Append(chan, r)) = Append(Cat(line, chan), r)
    BY CatAppend DEF WriterTypeOK
  <2>3. Cat(front, Append(Cat(line, chan), r)) = Append(Cat(front, Cat(line, chan)), r)
    BY <2>1, CatAppend
  <2>4. Cat(opened, Append(sent, r)) = Append(Cat(opened, sent), r)
    BY CatAppend DEF WriterTypeOK
  <2> QED BY <2>2, <2>3, <2>4 DEF InOrder, Send, Receiving
<1>4. NeverFused' /\ Undamaged' /\ PoisonCounted' /\ DeliveredOrCounted'
  BY DEF NeverFused, Undamaged, PoisonCounted, DeliveredOrCounted, Send, Receiving
<1> QED BY <1>2, <1>3, <1>4

(* Steps that touch none of the invariant's variables but tx. *)
LEMMA DropTxInv ==
    ASSUME WriterInv, DropTx \/ SendClosed \/ UNCHANGED writerVars
    PROVE  WriterInv'
<1>1. /\ tx' \in BOOLEAN
      /\ UNCHANGED <<chan, writer, line, buf, poisoned, ioErrors, disk, opened, sent>>
  BY DEF WriterInv, WriterTypeOK, DropTx, SendClosed, writerVars
<1>2. WriterTypeOK'
  BY <1>1 DEF WriterInv, WriterTypeOK
<1>3. InOrder'
  BY <1>1 DEF WriterInv, InOrder, Receiving
<1>4. NeverFused' /\ Undamaged' /\ PoisonCounted' /\ DeliveredOrCounted'
  BY <1>1 DEF WriterInv, NeverFused, Undamaged, PoisonCounted, DeliveredOrCounted, Receiving
<1> QED BY <1>2, <1>3, <1>4 DEF WriterInv

(* Taking a record off the channel keeps the order. *)
LEMMA WriterRecvInv ==
    ASSUME WriterInv, WriterRecv
    PROVE  WriterInv'
<1> USE DEF WriterInv
<1>1. /\ line = <<>> /\ line' \in Seq(Record) /\ chan' \in Seq(Record)
      /\ Len(chan') = Len(chan) - 1 /\ Cat(line', chan') = chan
  BY HeadAndTail, EmptySeq DEF WriterTypeOK, WriterRecv
<1>2. WriterTypeOK'
  BY <1>1, ChannelCapAssumption DEF WriterRecv, WriterTypeOK
<1>3. Cat(line, chan) = chan
  BY <1>1, CatFacts DEF WriterTypeOK
<1>4. InOrder'
  BY <1>1, <1>3 DEF InOrder, WriterRecv, Receiving
<1>5. NeverFused' /\ Undamaged' /\ PoisonCounted' /\ DeliveredOrCounted'
  BY DEF NeverFused, Undamaged, PoisonCounted, DeliveredOrCounted, WriterRecv, Receiving
<1> QED BY <1>2, <1>4, <1>5

(* A poisoned writer counts what it discards. *)
LEMMA WriterDiscardInv ==
    ASSUME WriterInv, WriterDiscard
    PROVE  WriterInv'
<1> USE DEF WriterInv
<1>1. chan' \in Seq(Record) /\ Len(chan') = Len(chan) - 1
  BY HeadTailProperties DEF WriterTypeOK, WriterDiscard
<1>2. WriterTypeOK'
  BY <1>1, ChannelCapAssumption DEF WriterDiscard, WriterTypeOK
<1>3. InOrder' /\ PoisonCounted' /\ DeliveredOrCounted'
  <2>1. ioErrors' > 0 /\ ioErrors' # 0 /\ writer' # "write"
    BY DEF WriterDiscard, WriterTypeOK
  <2> QED BY <2>1 DEF InOrder, PoisonCounted, DeliveredOrCounted
<1>4. NeverFused' /\ Undamaged'
  BY DEF NeverFused, Undamaged, WriterDiscard, Receiving
<1> QED BY <1>2, <1>3, <1>4

(* A record that cannot be serialized is counted, the file untouched. *)
LEMMA SerializeFailsInv ==
    ASSUME WriterInv, SerializeFails
    PROVE  WriterInv'
<1> USE DEF WriterInv
<1>1. WriterTypeOK' /\ ioErrors' > 0 /\ ioErrors' # 0 /\ writer' # "write"
  BY EmptySeq DEF SerializeFails, WriterTypeOK
<1>2. InOrder' /\ PoisonCounted' /\ DeliveredOrCounted'
  BY <1>1 DEF InOrder, PoisonCounted, DeliveredOrCounted
<1>3. NeverFused' /\ Undamaged'
  BY DEF NeverFused, Undamaged, SerializeFails, Receiving
<1> QED BY <1>1, <1>2, <1>3
(* A write that succeeds moves records towards the file, in order. *)
LEMMA WriteOkInv ==
    ASSUME WriterInv, WriteOk
    PROVE  WriterInv'
<1> USE DEF WriterInv
<1> DEFINE w == buf \o line
<1>1. /\ w \in Seq(Record) /\ Len(w) = Len(buf) + 1 /\ Len(buf) \in Nat
      /\ disk.recs \in Seq(Record) /\ disk.tail = "ok"
  <2>1. /\ buf \in Seq(Record) /\ line \in Seq(Record) /\ Len(line) = 1
        /\ disk.recs \in Seq(Record)
    BY DEF WriterTypeOK, WriteOk, File
  <2>2. disk.tail = "ok"
    BY DEF WriteOk, Undamaged, PoisonCounted, Receiving
  <2> QED BY <2>1, <2>2, ConcatProperties, LenProperties
<1>2. PICK k \in {0, Len(buf), Len(buf) + 1} :
        /\ disk' = AppendTo(disk, SubSeq(w, 1, k))
        /\ buf' = SubSeq(w, k + 1, Len(buf) + 1)
  BY DEF WriteOk
<1> DEFINE a == SubSeq(w, 1, k)
           b == SubSeq(w, k + 1, Len(w))
<1>3. k \in 0 .. Len(w)
  BY <1>1, <1>2
<1>4. a \in Seq(Record) /\ b \in Seq(Record) /\ Cat(a, b) = Cat(buf, line) /\ buf' = b
  BY <1>1, <1>2, <1>3, SplitConcat DEF Cat
<1> HIDE DEF a, b
<1>5. /\ disk' \in File /\ disk'.recs = Cat(disk.recs, a)
      /\ disk.tail = "ok" => disk'.tail = "ok" /\ disk'.fused = disk.fused
  BY <1>2, <1>4, AppendToFacts DEF WriterTypeOK, a, Cat
<1>6. WriterTypeOK'
  BY <1>4, <1>5, EmptySeq DEF WriterTypeOK, WriteOk
<1>7. Cat(Cat(disk'.recs, buf'), Cat(line', chan')) = Cat(Cat(disk.recs, buf), Cat(line, chan))
  <2>1. Cat(line', chan') = chan
    BY CatFacts DEF WriteOk, WriterTypeOK
  <2>2. buf \in Seq(Record) /\ line \in Seq(Record) /\ chan \in Seq(Record)
    BY DEF WriterTypeOK
  <2>3. Cat(Cat(disk.recs, a), b) = Cat(disk.recs, Cat(a, b))
    BY <1>1, <1>4, CatAssociative, Zenon
  <2>4. Cat(disk.recs, Cat(buf, line)) = Cat(Cat(disk.recs, buf), line)
    BY <1>1, <2>2, CatAssociative, Zenon
  <2>5. Cat(disk.recs, buf) \in Seq(Record)
    BY <1>1, <2>2, CatFacts, Zenon
  <2>6. Cat(Cat(Cat(disk.recs, buf), line), chan) = Cat(Cat(disk.recs, buf), Cat(line, chan))
    BY <2>2, <2>5, CatAssociative, Zenon
  <2> QED BY <1>4, <1>5, <2>1, <2>3, <2>4, <2>6, Zenon
<1>8. InOrder'
  BY <1>7 DEF InOrder, WriteOk, Receiving
<1>9. NeverFused' /\ Undamaged' /\ PoisonCounted' /\ DeliveredOrCounted'
  BY <1>1, <1>5
  DEF NeverFused, Undamaged, PoisonCounted, DeliveredOrCounted, WriteOk, Receiving
<1> QED BY <1>6, <1>8, <1>9

(* A failed write is counted and poisons the writer. *)
LEMMA WriteFailsInv ==
    ASSUME WriterInv, WriteFails
    PROVE  WriterInv'
<1> USE DEF WriterInv
<1>1. /\ disk \in File /\ disk.tail = "ok" /\ disk.fused = FALSE
      /\ buf \in Seq(Record) /\ line \in Seq(Record)
  BY DEF WriterTypeOK, WriteFails, Undamaged, PoisonCounted, NeverFused, Receiving, File
<1>2. disk' \in File /\ disk'.fused = FALSE /\ buf' \in Seq(Record)
  <2>1. CASE \E c \in Cuts(buf) : disk' = PartialWrite(disk, buf, c) /\ buf' = Rest(buf, c)
    BY <1>1, <2>1, PartialWriteFacts
  <2>2. CASE \E c \in Cuts(line) :
               disk' = PartialWrite(AppendTo(disk, buf), line, c) /\ buf' = <<>>
    <3>1. /\ AppendTo(disk, buf) \in File
          /\ AppendTo(disk, buf).tail = "ok" /\ AppendTo(disk, buf).fused = FALSE
      BY <1>1, AppendToFacts
    <3> QED BY <1>1, <2>2, <3>1, PartialWriteFacts, EmptySeq
  <2> QED BY <2>1, <2>2 DEF WriteFails
<1>3. WriterTypeOK' /\ ioErrors' > 0 /\ ioErrors' # 0 /\ writer' # "write"
  BY <1>2, EmptySeq DEF WriterTypeOK, WriteFails
<1>4. InOrder' /\ PoisonCounted' /\ DeliveredOrCounted'
  BY <1>3 DEF InOrder, PoisonCounted, DeliveredOrCounted
<1>5. NeverFused' /\ Undamaged'
  BY <1>2 DEF NeverFused, Undamaged, WriteFails
<1> QED BY <1>3, <1>4, <1>5

(* The last flush hands over the rest: everything sent is in the file. *)
LEMMA FlushOkInv ==
    ASSUME WriterInv, FlushOk
    PROVE  WriterInv'
<1> USE DEF WriterInv
<1>1. /\ disk \in File /\ disk.tail = "ok" /\ disk.fused = FALSE
      /\ buf \in Seq(Record) /\ line = <<>> /\ chan = <<>>
  BY EmptySeq DEF WriterTypeOK, FlushOk, Undamaged, NeverFused, Receiving, File
<1>2. /\ disk' \in File /\ disk'.recs = Cat(disk.recs, buf)
      /\ disk'.tail = "ok" /\ disk'.fused = FALSE
  BY <1>1, AppendToFacts DEF FlushOk, Cat
<1>3. WriterTypeOK'
  BY <1>2, EmptySeq DEF WriterTypeOK, FlushOk
<1>4. DeliveredOrCounted'
  <2>1. Cat(disk.recs, buf) \in Seq(Record) /\ <<>> \in Seq(Record)
    BY <1>1, CatFacts, EmptySeq DEF File
  <2>2. Cat(Cat(disk.recs, buf), Cat(line, chan)) = Cat(disk.recs, buf)
    BY <1>1, <2>1, CatFacts
  <2>3. ioErrors' = 0 => disk'.recs = Cat(opened, sent)
    BY <1>2, <2>2 DEF InOrder, FlushOk, Receiving
  <2> QED BY <1>2, <2>3 DEF DeliveredOrCounted, FlushOk, Cat
<1>5. NeverFused' /\ Undamaged' /\ InOrder' /\ PoisonCounted'
  BY <1>2 DEF NeverFused, Undamaged, InOrder, PoisonCounted, FlushOk, Receiving
<1> QED BY <1>3, <1>4, <1>5

(* A failed last flush is counted. *)
LEMMA FlushFailsInv ==
    ASSUME WriterInv, FlushFails
    PROVE  WriterInv'
<1> USE DEF WriterInv
<1>1. /\ disk \in File /\ disk.tail = "ok" /\ disk.fused = FALSE /\ buf \in Seq(Record)
  BY DEF WriterTypeOK, FlushFails, Undamaged, NeverFused, Receiving, File
<1>2. PICK c \in Cuts(buf) : disk' \in AfterDrop(PartialWrite(disk, buf, c), Rest(buf, c))
  BY DEF FlushFails
<1>3. /\ PartialWrite(disk, buf, c) \in File /\ PartialWrite(disk, buf, c).fused = FALSE
      /\ Rest(buf, c) \in Seq(Record)
  BY <1>1, PartialWriteFacts
<1>4. disk' \in File /\ disk'.fused = FALSE
  BY <1>2, <1>3, AfterDropFacts
<1>5. WriterTypeOK' /\ ioErrors' > 0 /\ ioErrors' # 0 /\ writer' = "done"
  BY <1>4, EmptySeq DEF WriterTypeOK, FlushFails
<1>6. NeverFused' /\ Undamaged' /\ InOrder' /\ PoisonCounted' /\ DeliveredOrCounted'
  BY <1>4, <1>5 DEF NeverFused, Undamaged, InOrder, PoisonCounted, DeliveredOrCounted, Receiving
<1> QED BY <1>5, <1>6

(* A poisoned writer ends with its error counted. *)
LEMMA EndPoisonedInv ==
    ASSUME WriterInv, EndPoisoned
    PROVE  WriterInv'
<1> USE DEF WriterInv
<1>1. disk' \in File /\ disk'.fused = FALSE
  BY AfterDropFacts DEF WriterTypeOK, EndPoisoned, NeverFused, File
<1>2. WriterTypeOK' /\ ioErrors' > 0 /\ ioErrors' # 0 /\ writer' = "done"
  BY <1>1, EmptySeq DEF WriterTypeOK, EndPoisoned, PoisonCounted
<1>3. NeverFused' /\ Undamaged' /\ InOrder' /\ PoisonCounted' /\ DeliveredOrCounted'
  BY <1>1, <1>2 DEF NeverFused, Undamaged, InOrder, PoisonCounted, DeliveredOrCounted, Receiving
<1> QED BY <1>2, <1>3

(* A panic of the writer fuses no records. *)
LEMMA WriterPanicsInv ==
    ASSUME WriterInv, WriterPanics
    PROVE  WriterInv'
<1> USE DEF WriterInv
<1>1. disk' \in File /\ disk'.fused = FALSE
  BY AfterDropFacts DEF WriterTypeOK, WriterPanics, NeverFused, File
<1>2. WriterTypeOK' /\ writer' = "panicked"
  BY <1>1, EmptySeq, ChannelCapAssumption DEF WriterTypeOK, WriterPanics
<1>3. NeverFused' /\ Undamaged' /\ InOrder' /\ PoisonCounted' /\ DeliveredOrCounted'
  BY <1>1, <1>2
  DEF NeverFused, Undamaged, InOrder, PoisonCounted, DeliveredOrCounted, Receiving, WriterPanics
<1> QED BY <1>2, <1>3

(* A process that ends under its writer may tear the last line, no more. *)
LEMMA ProcessEndsInv ==
    ASSUME WriterInv, ProcessEnds
    PROVE  WriterInv'
<1> USE DEF WriterInv
<1>1. CASE disk' = disk
  BY <1>1, EmptySeq
  DEF WriterTypeOK, ProcessEnds, NeverFused, Undamaged, InOrder, PoisonCounted,
      DeliveredOrCounted, Receiving
<1>2. CASE Receiving /\ ~poisoned /\ \E c \in Cuts(buf \o line) : disk' = PartialWrite(disk, buf \o line, c)
  <2>1. /\ disk \in File /\ disk.tail = "ok" /\ disk.fused = FALSE
        /\ buf \o line \in Seq(Record)
    BY <1>2, ConcatProperties DEF WriterTypeOK, Undamaged, NeverFused, File
  <2>2. disk' \in File /\ disk'.fused = FALSE
    BY <1>2, <2>1, PartialWriteFacts
  <2>3. WriterTypeOK' /\ writer' = "off"
    BY <1>2, <2>2, EmptySeq DEF WriterTypeOK, ProcessEnds
  <2>4. NeverFused' /\ Undamaged' /\ InOrder' /\ PoisonCounted' /\ DeliveredOrCounted'
    BY <2>2, <2>3
    DEF NeverFused, Undamaged, InOrder, PoisonCounted, DeliveredOrCounted, Receiving, ProcessEnds
  <2> QED BY <2>3, <2>4
<1> QED BY <1>1, <1>2 DEF ProcessEnds, CrashFiles

(***************************************************************************)
(* Every step of the writer task and every step of its environment keeps   *)
(* the invariant.                                                          *)
(***************************************************************************)
LEMMA WriterStepInv ==
    ASSUME WriterInv, WriterStep \/ WriterFault
    PROVE  WriterInv'
  BY WriterRecvInv, WriterDiscardInv, WriteOkInv, FlushOkInv, EndPoisonedInv,
     SerializeFailsInv, WriteFailsInv, FlushFailsInv, WriterPanicsInv
  DEF WriterStep, WriterFault

-------------------------------------------------------------------------------
(* The stream: the invariant of the writer through StreamSpec. *)

StreamInv == WriterInv /\ writer # "off"

(* The invariant holds over any file that a run may open. *)
LEMMA InitStreamInv == StreamInit => StreamInv
<1>1. SUFFICES ASSUME StreamInit PROVE StreamInv
  BY Zenon
<1>2. disk \in File /\ disk.tail = "ok" /\ ~disk.fused /\ opened = disk.recs
  BY <1>1, InitialFilesAssumption DEF StreamInit
<1>3. /\ disk.recs \in Seq(Record) /\ <<>> \in Seq(Record)
      /\ Len(<<>>) = 0 /\ 0 <= ChannelCap
  BY <1>2, EmptySeq, ChannelCapAssumption DEF File
<1>4. WriterTypeOK
  <2>1. /\ chan \in Seq(Record) /\ Len(chan) <= ChannelCap
        /\ line \in Seq(Record) /\ Len(line) = 0 /\ buf \in Seq(Record)
        /\ opened \in Seq(Record) /\ sent \in Seq(Record)
    BY <1>1, <1>2, <1>3, Zenon DEF StreamInit
  <2>2. tx \in BOOLEAN /\ poisoned \in BOOLEAN /\ ioErrors \in Nat /\ writer = "recv"
    BY <1>1 DEF StreamInit
  <2> QED BY <1>2, <2>1, <2>2 DEF WriterTypeOK
<1>5. InOrder
  BY <1>1, <1>2, <1>3, CatFacts DEF StreamInit, InOrder
<1>6. NeverFused /\ Undamaged /\ PoisonCounted /\ DeliveredOrCounted /\ writer # "off"
  BY <1>1, <1>2 DEF StreamInit, NeverFused, Undamaged, PoisonCounted, DeliveredOrCounted
<1> QED BY <1>4, <1>5, <1>6 DEF StreamInv, WriterInv

(* The client, the writer and its faults keep the invariant. *)
LEMMA NextStreamInv == StreamInv /\ [StreamNext]_writerVars => StreamInv'
<1>1. SUFFICES ASSUME StreamInv, [StreamNext]_writerVars PROVE StreamInv'
  BY Zenon
<1>2. WriterInv'
  <2>1. CASE ClientSends
    BY <1>1, <2>1, SendInv DEF StreamInv, ClientSends
  <2>2. CASE SendClosed \/ DropTx \/ StreamEnded \/ UNCHANGED writerVars
    BY <1>1, <2>2, DropTxInv DEF StreamInv, StreamEnded
  <2>3. CASE WriterStep \/ WriterFault
    BY <1>1, <2>3, WriterStepInv DEF StreamInv
  <2> QED BY <1>1, <2>1, <2>2, <2>3 DEF StreamNext
<1>3. writer' # "off"
  BY <1>1 DEF StreamInv, StreamNext, ClientSends, Send, SendClosed, DropTx, StreamEnded, WriterStep,
              WriterFault, WriterRecv, WriterDiscard, SerializeFails, WriteOk, WriteFails,
              FlushOk, FlushFails, EndPoisoned, WriterPanics, writerVars
<1> QED BY <1>2, <1>3 DEF StreamInv

(* The invariant of the stream, for any records, capacity and file. *)
THEOREM StreamInvariance == StreamSpec => []StreamInv
  BY InitStreamInv, NextStreamInv, PTL DEF StreamSpec

(* The variables keep their types and the channel its capacity. *)
THEOREM StreamTypeCorrect == StreamSpec => []StreamTypeOK
<1>1. StreamInv => StreamTypeOK
  BY DEF StreamInv, WriterInv, StreamTypeOK
<1> QED BY <1>1, StreamInvariance, PTL

(***************************************************************************)
(* Whatever is sent and whatever write fails, a writer that returns        *)
(* without an error has delivered exactly what was sent, in order.         *)
(***************************************************************************)
THEOREM Delivery == StreamSpec => []DeliveredOrCounted
<1>1. StreamInv => DeliveredOrCounted
  BY DEF StreamInv, WriterInv
<1> QED BY <1>1, StreamInvariance, PTL

(* No failure makes the writer put two records on one line. *)
THEOREM LinesIntact == StreamSpec => []NeverFused
<1>1. StreamInv => NeverFused
  BY DEF StreamInv, WriterInv
<1> QED BY <1>1, StreamInvariance, PTL

-------------------------------------------------------------------------------
(* The fleet. *)

(* Where no remote host has been admitted yet. *)
Idle == pc \in {"open", "local", "localScan", "remote"} \/ (pc = "send" /\ back = "remote")

(* Between joining a task and admitting the next host: a slot is free. *)
SlotFree == pc \in {"next", "nextSpawn"} \/ (pc = "send" /\ back = "next")

Filling == pc \in {"fill", "fillSpawn"}

(***************************************************************************)
(* The strengthening of AdmissionBound and NoHostDropped: how many of the  *)
(* MaxConcurrent slots the JoinSet may hold depends on where the main task *)
(* is, and a host that waits to be admitted is not running.                *)
(***************************************************************************)
SlotInv ==
    /\ dropped = {}
    /\ pending \cap running = {}
    /\ permits + Cardinality(running) = MaxConcurrent
    /\ Cardinality(running) + Cardinality(finished) <= MaxConcurrent
    /\ Idle => running = {} /\ finished = {} /\ fillLeft = MaxConcurrent
    /\ Filling => Cardinality(running) + Cardinality(finished) + fillLeft <= MaxConcurrent
    /\ pc = "fillSpawn" => fillLeft > 0
    /\ SlotFree => Cardinality(running) + Cardinality(finished) < MaxConcurrent

-------------------------------------------------------------------------------
(* Sets of addresses are finite; moving one address in or out counts by one. *)
LEMMA CardFacts ==
    /\ Cardinality({}) = 0
    /\ \A S \in SUBSET Address : Cardinality(S) \in Nat
    /\ \A S \in SUBSET Address, h \in Address :
          /\ h \in S => Cardinality(S \ {h}) = Cardinality(S) - 1 /\ Cardinality(S) > 0
          /\ h \notin S => Cardinality(S \cup {h}) = Cardinality(S) + 1
          /\ Cardinality(S \cup {h}) <= Cardinality(S) + 1
<1>1. Cardinality({}) = 0
  BY FS_EmptySet
<1>2. \A S \in SUBSET Address : IsFiniteSet(S) /\ Cardinality(S) \in Nat
  BY AddressAssumption, FS_Subset, FS_CardinalityType
<1>3. ASSUME NEW S \in SUBSET Address, NEW h \in Address
      PROVE  /\ h \in S => Cardinality(S \ {h}) = Cardinality(S) - 1 /\ Cardinality(S) > 0
             /\ h \notin S => Cardinality(S \cup {h}) = Cardinality(S) + 1
             /\ Cardinality(S \cup {h}) <= Cardinality(S) + 1
  <2>1. CASE h \in S
    <3>1. S \cup {h} = S
      BY <2>1
    <3>2. Cardinality(S \ {h}) = Cardinality(S) - 1
      BY <1>2, <2>1, FS_RemoveElement
    <3>3. Cardinality(S \ {h}) \in Nat /\ Cardinality(S) \in Nat
      BY <1>2
    <3>4. Cardinality(S) > 0 /\ Cardinality(S) <= Cardinality(S) + 1
      BY <3>2, <3>3
    <3> QED BY <2>1, <3>1, <3>2, <3>4, Zenon
  <2>2. CASE h \notin S
    <3>1. Cardinality(S \cup {h}) = Cardinality(S) + 1 /\ Cardinality(S) \in Nat
      BY <1>2, <2>2, FS_AddElement
    <3> QED BY <2>2, <3>1
  <2> QED BY <2>1, <2>2
<1> QED BY <1>1, <1>2, <1>3

(* Admission: every step keeps the count of permits and joined slots. *)
LEMMA SlotStep ==
    ASSUME TypeOK, SlotInv, pc = "send" => back # "open", [Next]_vars
    PROVE  SlotInv'
<1> USE MaxConcurrentAssumption, CardFacts
    DEF listVars, slotVars, reportVars, signalVars, processVars, SlotInv, Idle, SlotFree,
        Filling
<1>0. /\ Cardinality(running) \in Nat /\ Cardinality(finished) \in Nat
      /\ permits \in Nat /\ fillLeft \in Nat /\ MaxConcurrent \in Nat
      /\ pending \subseteq Address /\ running \subseteq Address /\ finished \subseteq Address
  BY DEF TypeOK
<1>1. CASE UNCHANGED vars
  BY <1>0, <1>1 DEF vars
<1>2. CASE OpenOutput
  BY <1>0, <1>2 DEF OpenOutput
<1>3. CASE RefuseResume \/ OpenFails
  BY <1>0, <1>3 DEF RefuseResume, OpenFails, GiveUp
<1>4. CASE NoStream \/ LocalSkip \/ LocalStart
  BY <1>0, <1>4 DEF NoStream, LocalSkip, LocalStart, Goto
<1>5. CASE \E r \in Reports : LocalReport(r)
  BY <1>0, <1>5 DEF LocalReport, Accept
<1>6. CASE LocalInterrupted
  BY <1>0, <1>6 DEF LocalInterrupted
<1>7. CASE RemoteStart
  <2>1. running = {} /\ finished = {} /\ fillLeft = MaxConcurrent
    BY <1>7 DEF RemoteStart
  <2>2. Cardinality(running) + Cardinality(finished) + fillLeft = MaxConcurrent
    BY <1>0, <2>1
  <2> QED BY <1>0, <1>7, <2>1, <2>2 DEF RemoteStart, Goto
<1>8. CASE FillCheck
  BY <1>0, <1>8 DEF FillCheck, FillMore, Goto
<1>9. CASE NextCheck
  BY <1>0, <1>9 DEF NextCheck, AdmitMore, Goto
<1>10. CASE \E h \in Address : FillSpawn(h)
  <2>1. PICK h \in Address : FillSpawn(h)
    BY <1>10
  <2>2. h \in pending /\ h \notin running
    BY <2>1 DEF FillSpawn
  <2>3. Cardinality(running') = Cardinality(running) + 1
    BY <1>0, <2>1, <2>2 DEF FillSpawn, Spawn
  <2>4. /\ permits' = permits - 1 /\ fillLeft' = fillLeft - 1 /\ fillLeft > 0
        /\ finished' = finished /\ dropped' = {} /\ pc' = "fill"
        /\ Cardinality(running) + Cardinality(finished) + fillLeft <= MaxConcurrent
    BY <2>1 DEF FillSpawn, Spawn
  <2>5. pending' \cap running' = {}
    BY <2>1 DEF FillSpawn, Spawn
  <2> QED BY <1>0, <2>3, <2>4, <2>5
<1>11. CASE \E h \in Address : NextSpawn(h)
  BY <1>0, <1>11 DEF NextSpawn, Spawn
<1>12. CASE AllJoined \/ SelectShutdown
  BY <1>0, <1>12 DEF AllJoined, SelectShutdown, Goto
<1>13. CASE \E h \in Address : JoinNothing(h) \/ TeardownNothing(h)
  <2>1. PICK h \in Address : JoinNothing(h) \/ TeardownNothing(h)
    BY <1>13
  <2>2. h \in finished /\ finished' = finished \ {h}
    BY <2>1 DEF JoinNothing, TeardownNothing, Join
  <2>3. Cardinality(finished') = Cardinality(finished) - 1
    BY <1>0, <2>2
  <2>4. /\ pc' \in {"next", "teardown"} /\ UNCHANGED <<pending, running, dropped, permits, fillLeft>>
    BY <2>1 DEF JoinNothing, TeardownNothing, Join
  <2> QED BY <1>0, <2>3, <2>4
<1>14. CASE \E h \in Address, r \in Reports : JoinReport(h, r) \/ TeardownReport(h, r)
  <2>1. PICK h \in Address, r \in Reports : JoinReport(h, r) \/ TeardownReport(h, r)
    BY <1>14
  <2>2. h \in finished /\ finished' = finished \ {h}
    BY <2>1 DEF JoinReport, TeardownReport, Join
  <2>3. Cardinality(finished') = Cardinality(finished) - 1
    BY <1>0, <2>2
  <2>4. /\ pc' = "send" /\ back' \in {"next", "teardown"}
        /\ UNCHANGED <<pending, running, dropped, permits, fillLeft>>
    BY <2>1 DEF JoinReport, TeardownReport, Join, Accept
  <2> QED BY <1>0, <2>3, <2>4
<1>15. CASE SecondInterrupt \/ GraceExpired
  <2>1. /\ running' = {} /\ finished' = {} /\ permits' = MaxConcurrent /\ pc' = "close"
        /\ dropped' = {}
    BY <1>15 DEF SecondInterrupt, GraceExpired, AbortAll
  <2>2. Cardinality(running') = 0 /\ Cardinality(finished') = 0
    BY <2>1
  <2> QED BY <1>0, <2>1, <2>2
<1>16. CASE SendReport \/ SendFails
  BY <1>0, <1>16 DEF SendReport, SendFails, TypeOK
<1>17. CASE CloseStream
  BY <1>0, <1>17 DEF CloseStream
<1>18. CASE WriterJoined \/ WriterFailed \/ DrainTimeout \/ OutputDone \/ OutputFails \/ ReaderGone
  BY <1>0, <1>18 DEF WriterJoined, WriterFailed, DrainTimeout, OutputDone, OutputFails, ReaderGone, Return
<1>19. CASE Signal \/ ThirdSignal \/ Watchdog \/ Kill
  BY <1>0, <1>19 DEF Signal, ThirdSignal, Watchdog, Kill, ForcedExit
<1>20. CASE OperatorTruncates
  BY <1>0, <1>20 DEF OperatorTruncates
<1>21. CASE Rerun
  BY <1>0, <1>21 DEF Rerun, FreshMain, StartWith
<1>22. CASE \E h \in Address : TaskEnds(h)
  <2>1. PICK h \in Address : TaskEnds(h)
    BY <1>22
  <2>2. /\ h \in running /\ running' = running \ {h} /\ finished' = finished \cup {h}
        /\ permits' = permits + 1 /\ UNCHANGED <<pc, back, pending, dropped, fillLeft>>
    BY <2>1 DEF TaskEnds, DropPermit
  <2>3. /\ Cardinality(running') = Cardinality(running) - 1
        /\ Cardinality(finished') <= Cardinality(finished) + 1
        /\ Cardinality(running') \in Nat /\ Cardinality(finished') \in Nat
    BY <1>0, <2>2
  <2>4. ~Idle /\ pending' \cap running' = {}
    BY <2>2
  <2> QED BY <1>0, <2>2, <2>3, <2>4
<1>23. CASE WriterTask \/ WriterTaskFails \/ Ended
  BY <1>0, <1>23 DEF WriterTask, WriterTaskFails, Ended, vars
<1> QED
  BY <1>1, <1>2, <1>3, <1>4, <1>5, <1>6, <1>7, <1>8, <1>9, <1>10, <1>11, <1>12, <1>13, <1>14, <1>15, <1>16, <1>17, <1>18, <1>19, <1>20, <1>21, <1>22, <1>23, Zenon
  DEF Next, MainTask, Start, LocalScan, Admission, Collect, Deliver, Environment

-------------------------------------------------------------------------------
(***************************************************************************)
(* What is true where the main task is: at "open" nothing has been read or *)
(* started, a report being sent goes on somewhere past that, the local     *)
(* scan has an alias to answer for, a run that is done has exited.         *)
(***************************************************************************)
PlaceInv ==
    /\ pc = "open" =>
          /\ tx = FALSE /\ chan = <<>> /\ writer = "off" /\ line = <<>> /\ buf = <<>>
          /\ poisoned = FALSE /\ ioErrors = 0 /\ opened = <<>> /\ sent = <<>>
          /\ received = {}
    /\ pc = "send" => back # "open"
    /\ pc = "localScan" => local # <<>>
    /\ pc \in {"done", "refused"} => exit # NoExit

(* The stream keeps its invariant under the fleet: the writer's own steps, *)
(* the sends, and every way the process may end.                           *)
LEMMA StreamStep ==
    ASSUME TypeOK, WriterInv, PlaceInv, [Next]_vars
    PROVE  WriterInv'
<1>1. CASE UNCHANGED vars
  BY <1>1, DropTxInv DEF vars
<1>2. CASE OpenOutput
  <2>1. /\ disk \in File /\ disk.recs \in Seq(Record) /\ disk.fused = FALSE
        /\ disk' \in File /\ disk'.recs = disk.recs /\ disk'.tail = "ok" /\ disk'.fused = FALSE
    BY <1>2 DEF WriterInv, WriterTypeOK, NeverFused, File, Tail_, OpenOutput, Terminated
  <2>2. /\ chan' = <<>> /\ line' = <<>> /\ buf' = <<>> /\ poisoned' = FALSE /\ ioErrors' = 0
        /\ sent' = <<>> /\ opened' = disk.recs /\ tx' = TRUE /\ writer' = "recv"
    BY <1>2 DEF OpenOutput, PlaceInv
  <2>3. WriterTypeOK'
    <3>1. <<>> \in Seq(Record) /\ Len(<<>>) = 0 /\ 0 <= ChannelCap
      BY EmptySeq, ChannelCapAssumption
    <3>2. /\ chan' \in Seq(Record) /\ Len(chan') <= ChannelCap
          /\ line' \in Seq(Record) /\ Len(line') = 0 /\ buf' \in Seq(Record)
          /\ opened' \in Seq(Record) /\ sent' \in Seq(Record)
      BY <2>1, <2>2, <3>1, Zenon
    <3>3. poisoned' \in BOOLEAN /\ ioErrors' \in Nat /\ tx' \in BOOLEAN
      BY <2>2
    <3> QED BY <2>1, <2>2, <3>2, <3>3 DEF WriterTypeOK
  <2>4. InOrder'
    <3>1. <<>> \in Seq(Record)
      BY EmptySeq
    <3>2. /\ Cat(disk'.recs, buf') = disk.recs /\ Cat(line', chan') = <<>>
          /\ Cat(disk.recs, <<>>) = disk.recs
      BY <2>1, <2>2, <3>1, CatFacts
    <3> QED BY <2>2, <3>2 DEF InOrder
  <2>5. NeverFused' /\ Undamaged' /\ PoisonCounted' /\ DeliveredOrCounted'
    BY <2>1, <2>2 DEF NeverFused, Undamaged, PoisonCounted, DeliveredOrCounted
  <2> QED BY <2>3, <2>4, <2>5 DEF WriterInv
<1>3. CASE RefuseResume \/ OpenFails
  BY <1>3, ProcessEndsInv DEF RefuseResume, OpenFails, GiveUp
<1>4. CASE NoStream \/ LocalSkip \/ LocalStart
  BY <1>4, DropTxInv DEF NoStream, LocalSkip, LocalStart, Goto
<1>5. CASE \E r \in Reports : LocalReport(r)
  BY <1>5, DropTxInv DEF LocalReport
<1>6. CASE LocalInterrupted
  BY <1>6, DropTxInv DEF LocalInterrupted
<1>7. CASE RemoteStart
  BY <1>7, DropTxInv DEF RemoteStart, Goto
<1>8. CASE FillCheck
  BY <1>8, DropTxInv DEF FillCheck, Goto
<1>9. CASE NextCheck
  BY <1>9, DropTxInv DEF NextCheck, Goto
<1>10. CASE \E h \in Address : FillSpawn(h)
  BY <1>10, DropTxInv DEF FillSpawn
<1>11. CASE \E h \in Address : NextSpawn(h)
  BY <1>11, DropTxInv DEF NextSpawn
<1>12. CASE AllJoined \/ SelectShutdown
  BY <1>12, DropTxInv DEF AllJoined, SelectShutdown, Goto
<1>13. CASE \E h \in Address : JoinNothing(h) \/ TeardownNothing(h)
  BY <1>13, DropTxInv DEF JoinNothing, TeardownNothing, Join
<1>14. CASE \E h \in Address, r \in Reports : JoinReport(h, r) \/ TeardownReport(h, r)
  BY <1>14, DropTxInv DEF JoinReport, TeardownReport, Join
<1>15. CASE SecondInterrupt \/ GraceExpired
  BY <1>15, DropTxInv DEF SecondInterrupt, GraceExpired, AbortAll
<1>16. CASE SendReport \/ SendFails
  <2>1. pc = "send" => Head(out) \in Record
    <3>1. out \in Seq(Record) /\ (pc = "send" => Len(out) = 1)
      BY DEF TypeOK
    <3> QED BY <3>1
  <2> QED BY <1>16, <2>1, SendInv, DropTxInv DEF SendReport, SendFails
<1>17. CASE CloseStream
  BY <1>17, DropTxInv DEF CloseStream, CloseTx
<1>18. CASE WriterJoined \/ WriterFailed \/ DrainTimeout \/ OutputDone \/ OutputFails \/ ReaderGone
  BY <1>18, ProcessEndsInv DEF WriterJoined, WriterFailed, DrainTimeout, OutputDone, OutputFails,
                           ReaderGone, Return
<1>19. CASE Signal \/ ThirdSignal \/ Watchdog \/ Kill
  BY <1>19, DropTxInv, ProcessEndsInv DEF Signal, ThirdSignal, Watchdog, Kill, ForcedExit
<1>20. CASE OperatorTruncates
  <2>1. /\ disk' \in File /\ disk'.recs = disk.recs /\ disk'.tail = "ok"
        /\ disk'.fused = disk.fused
        /\ UNCHANGED <<tx, chan, writer, line, buf, poisoned, ioErrors, opened, sent>>
    BY <1>20 DEF WriterInv, WriterTypeOK, File, Tail_, OperatorTruncates
  <2>2. WriterTypeOK'
    BY <2>1 DEF WriterInv, WriterTypeOK
  <2>3. InOrder' /\ NeverFused' /\ Undamaged' /\ PoisonCounted' /\ DeliveredOrCounted'
    BY <2>1 DEF WriterInv, InOrder, NeverFused, Undamaged, PoisonCounted, DeliveredOrCounted,
                Receiving
  <2> QED BY <2>2, <2>3 DEF WriterInv
<1>21. CASE Rerun
  <2>1. /\ chan' = <<>> /\ line' = <<>> /\ buf' = <<>> /\ poisoned' = FALSE /\ ioErrors' = 0
        /\ sent' = <<>> /\ opened' = <<>> /\ tx' = FALSE /\ writer' = "off" /\ disk' = disk
    BY <1>21 DEF Rerun, FreshWriter
  <2>2. WriterTypeOK'
    <3>1. <<>> \in Seq(Record) /\ Len(<<>>) = 0 /\ 0 <= ChannelCap
      BY EmptySeq, ChannelCapAssumption
    <3>2. /\ chan' \in Seq(Record) /\ Len(chan') <= ChannelCap
          /\ line' \in Seq(Record) /\ Len(line') = 0 /\ buf' \in Seq(Record)
          /\ opened' \in Seq(Record) /\ sent' \in Seq(Record)
      BY <2>1, <3>1, Zenon
    <3>3. poisoned' \in BOOLEAN /\ ioErrors' \in Nat /\ tx' \in BOOLEAN
      BY <2>1
    <3> QED BY <2>1, <3>2, <3>3 DEF WriterInv, WriterTypeOK
  <2>3. InOrder' /\ NeverFused' /\ Undamaged' /\ PoisonCounted' /\ DeliveredOrCounted'
    BY <2>1 DEF WriterInv, InOrder, NeverFused, Undamaged, PoisonCounted, DeliveredOrCounted,
                Receiving
  <2> QED BY <2>2, <2>3 DEF WriterInv
<1>22. CASE \E h \in Address : TaskEnds(h)
  BY <1>22, DropTxInv DEF TaskEnds
<1>23. CASE WriterTask \/ WriterTaskFails \/ Ended
  BY <1>23, DropTxInv, WriterStepInv DEF WriterTask, WriterTaskFails, Ended, vars
<1> QED
  BY <1>1, <1>2, <1>3, <1>4, <1>5, <1>6, <1>7, <1>8, <1>9, <1>10, <1>11, <1>12, <1>13, <1>14, <1>15, <1>16, <1>17, <1>18, <1>19, <1>20, <1>21, <1>22, <1>23, Zenon
  DEF Next, MainTask, Start, LocalScan, Admission, Collect, Deliver, Environment

(* What FleetCode returns: a code of the table, 3 exactly for a compromise. *)
LEMMA FleetCodeFacts ==
    ASSUME TypeOK, NEW lost, NEW failed
    PROVE  /\ FleetCode(lost, failed) \in {EXIT_CLEAN, EXIT_CRITICAL, EXIT_DEGRADED,
                 EXIT_COMPROMISED, EXIT_INCOMPLETE, EXIT_INTERRUPT}
           /\ agg.verdict = "compromised" => FleetCode(lost, failed) = EXIT_COMPROMISED
<1> DEFINE o == finish(agg, Cardinality(hosts), lost, failed)
<1>1. o.verdict = agg.verdict /\ agg.verdict \in Verdict \cup {NoVerdict}
  BY DEF finish, TypeOK, Aggregate
<1>2. interrupted \in BOOLEAN /\ FailOnIncomplete \in BOOLEAN
  BY FlagsAssumption DEF TypeOK
<1> HIDE DEF o
<1>3. FleetCode(lost, failed) = fleet_code(o, interrupted, FailOnIncomplete)
  BY DEF FleetCode, o
<1> QED BY <1>1, <1>2, <1>3, CodeFacts

(* Control: what each place of the main task implies is kept by every step. *)
LEMMA PlaceStep ==
    ASSUME TypeOK, PlaceInv, [Next]_vars
    PROVE  PlaceInv'
<1> USE DEF listVars, slotVars, reportVars, signalVars, processVars, writerVars, PlaceInv
<1>1. CASE UNCHANGED vars
  BY <1>1 DEF vars
<1>2. CASE OpenOutput
  BY <1>2 DEF OpenOutput
<1>3. CASE RefuseResume \/ OpenFails
  <2>1. exit' # NoExit
    BY <1>3 DEF RefuseResume, OpenFails, GiveUp, NoExit, EXIT_DEGRADED, EXIT_USAGE
  <2> QED BY <1>3, <2>1 DEF RefuseResume, OpenFails, GiveUp
<1>4. CASE NoStream \/ LocalSkip \/ LocalStart
  BY <1>4 DEF NoStream, LocalSkip, LocalStart, LocalDue, Goto
<1>5. CASE \E r \in Reports : LocalReport(r)
  BY <1>5 DEF LocalReport, Accept
<1>6. CASE LocalInterrupted
  BY <1>6 DEF LocalInterrupted
<1>7. CASE RemoteStart
  BY <1>7 DEF RemoteStart, Goto
<1>8. CASE FillCheck
  BY <1>8 DEF FillCheck, FillMore, Goto
<1>9. CASE NextCheck
  BY <1>9 DEF NextCheck, AdmitMore, Goto
<1>10. CASE \E h \in Address : FillSpawn(h)
  BY <1>10 DEF FillSpawn, Spawn
<1>11. CASE \E h \in Address : NextSpawn(h)
  BY <1>11 DEF NextSpawn, Spawn
<1>12. CASE AllJoined \/ SelectShutdown
  BY <1>12 DEF AllJoined, SelectShutdown, Goto
<1>13. CASE \E h \in Address : JoinNothing(h) \/ TeardownNothing(h)
  BY <1>13 DEF JoinNothing, TeardownNothing, Join
<1>14. CASE \E h \in Address, r \in Reports : JoinReport(h, r) \/ TeardownReport(h, r)
  BY <1>14 DEF JoinReport, TeardownReport, Join, Accept
<1>15. CASE SecondInterrupt \/ GraceExpired
  BY <1>15 DEF SecondInterrupt, GraceExpired, AbortAll
<1>16. CASE SendReport \/ SendFails
  <2>1. /\ pc = "send" /\ pc' = back /\ back' = back /\ UNCHANGED <<local, exit, received>>
    BY <1>16 DEF SendReport, SendFails
  <2>2. pc' \in {"remote", "next", "teardown"}
    BY <2>1 DEF TypeOK
  <2> QED BY <2>1, <2>2
<1>17. CASE CloseStream
  BY <1>17 DEF CloseStream, CloseTx, DropTx
<1>18. CASE WriterJoined \/ WriterFailed \/ DrainTimeout \/ OutputDone \/ OutputFails \/ ReaderGone
  <2>1. \/ \E lost, failed : exit' = FleetCode(lost, failed)
        \/ exit' \in {EXIT_CLEAN, EXIT_INTERNAL_ERROR}
    BY <1>18, Zenon DEF WriterJoined, WriterFailed, DrainTimeout, OutputDone, OutputFails,
      ReaderGone, Return
  <2>2. exit' \in {EXIT_CLEAN, EXIT_CRITICAL, EXIT_DEGRADED, EXIT_COMPROMISED, EXIT_INCOMPLETE,
                  EXIT_INTERRUPT, EXIT_INTERNAL_ERROR}
    BY <2>1, FleetCodeFacts, Zenon
  <2>3. exit' # NoExit
    BY <2>2 DEF NoExit, EXIT_CLEAN, EXIT_CRITICAL, EXIT_DEGRADED, EXIT_COMPROMISED,
                EXIT_INCOMPLETE, EXIT_INTERRUPT, EXIT_INTERNAL_ERROR
  <2> QED BY <1>18, <2>3
    DEF WriterJoined, WriterFailed, DrainTimeout, OutputDone, OutputFails, ReaderGone, Return
<1>19. CASE Signal \/ ThirdSignal \/ Watchdog \/ Kill
  <2>1. CASE Signal
    BY <2>1 DEF Signal
  <2>2. CASE ThirdSignal \/ Watchdog \/ Kill
    <3>1. ProcessEnds /\ exit' # NoExit /\ UNCHANGED <<pc, back, local, received>>
      BY <2>2 DEF ThirdSignal, Watchdog, Kill, ForcedExit, EXIT_INTERRUPT, Killed, NoExit
    <3>2. CASE pc = "open"
      <4>1. disk' = disk /\ writer' = "off" /\ line' = <<>>
            /\ UNCHANGED <<tx, chan, buf, poisoned, ioErrors, opened, sent>>
        BY <3>1, <3>2 DEF ProcessEnds, CrashFiles, Receiving
      <4> QED BY <3>1, <3>2, <4>1
    <3>3. CASE pc # "open"
      BY <3>1, <3>3
    <3> QED BY <3>2, <3>3
  <2> QED BY <1>19, <2>1, <2>2
<1>20. CASE OperatorTruncates
  BY <1>20 DEF OperatorTruncates
<1>21. CASE Rerun
  BY <1>21 DEF Rerun, FreshMain, FreshWriter, StartWith
<1>22. CASE \E h \in Address : TaskEnds(h)
  BY <1>22 DEF TaskEnds, DropPermit
<1>23. CASE WriterTask \/ WriterTaskFails \/ Ended
  <2>1. CASE WriterTask \/ WriterTaskFails
    <3>1. UNCHANGED <<pc, back, local, received, exit>>
      BY <2>1 DEF WriterTask, WriterTaskFails
    <3>2. pc # "open"
      BY <2>1 DEF WriterTask, WriterTaskFails, WriterStep, WriterFault, WriterRecv,
        WriterDiscard, SerializeFails, WriteOk, WriteFails, FlushOk, FlushFails,
        EndPoisoned, WriterPanics, Receiving
    <3> QED BY <3>1, <3>2
  <2>2. CASE Ended
    BY <2>2 DEF Ended, vars
  <2> QED BY <1>23, <2>1, <2>2
<1> QED
  BY <1>1, <1>2, <1>3, <1>4, <1>5, <1>6, <1>7, <1>8, <1>9, <1>10, <1>11, <1>12, <1>13, <1>14, <1>15, <1>16, <1>17, <1>18, <1>19, <1>20, <1>21, <1>22, <1>23, Zenon
  DEF Next, MainTask, Start, LocalScan, Admission, Collect, Deliver, Environment

(* After the flag is set at most one host is admitted: a main task that has *)
(* passed the check and not spawned yet has admitted none.                  *)
LateInv ==
    /\ late \in Nat /\ late <= 1
    /\ ~shutdown => late = 0
    /\ pc \in {"fillSpawn", "nextSpawn"} => late = 0

(* Late admissions: only an admission that passed its check may still spawn. *)
LEMMA LateStep ==
    ASSUME TypeOK, LateInv, [Next]_vars
    PROVE  LateInv'
<1> USE DEF listVars, slotVars, reportVars, signalVars, processVars, LateInv
<1>1. CASE UNCHANGED vars
  BY <1>1 DEF vars
<1>2. CASE OpenOutput
  BY <1>2 DEF OpenOutput
<1>3. CASE RefuseResume \/ OpenFails
  BY <1>3 DEF RefuseResume, OpenFails, GiveUp
<1>4. CASE NoStream \/ LocalSkip \/ LocalStart
  BY <1>4 DEF NoStream, LocalSkip, LocalStart, Goto
<1>5. CASE \E r \in Reports : LocalReport(r)
  BY <1>5 DEF LocalReport, Accept
<1>6. CASE LocalInterrupted
  BY <1>6 DEF LocalInterrupted
<1>7. CASE RemoteStart
  BY <1>7 DEF RemoteStart, Goto
<1>8. CASE FillCheck
  BY <1>8 DEF FillCheck, FillMore, Goto
<1>9. CASE NextCheck
  BY <1>9 DEF NextCheck, AdmitMore, Goto
<1>10. CASE \E h \in Address : FillSpawn(h)
  BY <1>10 DEF FillSpawn, Spawn
<1>11. CASE \E h \in Address : NextSpawn(h)
  BY <1>11 DEF NextSpawn, Spawn
<1>12. CASE AllJoined \/ SelectShutdown
  BY <1>12 DEF AllJoined, SelectShutdown, Goto
<1>13. CASE \E h \in Address : JoinNothing(h) \/ TeardownNothing(h)
  BY <1>13 DEF JoinNothing, TeardownNothing, Join
<1>14. CASE \E h \in Address, r \in Reports : JoinReport(h, r) \/ TeardownReport(h, r)
  BY <1>14 DEF JoinReport, TeardownReport, Join, Accept
<1>15. CASE SecondInterrupt \/ GraceExpired
  BY <1>15 DEF SecondInterrupt, GraceExpired, AbortAll
<1>16. CASE SendReport \/ SendFails
  BY <1>16 DEF SendReport, SendFails, TypeOK
<1>17. CASE CloseStream
  BY <1>17 DEF CloseStream
<1>18. CASE WriterJoined \/ WriterFailed \/ DrainTimeout \/ OutputDone \/ OutputFails \/ ReaderGone
  BY <1>18 DEF WriterJoined, WriterFailed, DrainTimeout, OutputDone, OutputFails, ReaderGone, Return
<1>19. CASE Signal \/ ThirdSignal \/ Watchdog \/ Kill
  BY <1>19 DEF Signal, ThirdSignal, Watchdog, Kill, ForcedExit
<1>20. CASE OperatorTruncates
  BY <1>20 DEF OperatorTruncates
<1>21. CASE Rerun
  BY <1>21 DEF Rerun, FreshMain, FreshWriter, StartWith
<1>22. CASE \E h \in Address : TaskEnds(h)
  BY <1>22 DEF TaskEnds, DropPermit
<1>23. CASE WriterTask \/ WriterTaskFails \/ Ended
  BY <1>23 DEF WriterTask, WriterTaskFails, Ended, vars
<1> QED
  BY <1>1, <1>2, <1>3, <1>4, <1>5, <1>6, <1>7, <1>8, <1>9, <1>10, <1>11, <1>12, <1>13, <1>14, <1>15, <1>16, <1>17, <1>18, <1>19, <1>20, <1>21, <1>22, <1>23, Zenon
  DEF Next, MainTask, Start, LocalScan, Admission, Collect, Deliver, Environment

(* A report accepted is one of the reports, and its host an address. *)
LEMMA AcceptFacts ==
    ASSUME TypeOK, NEW h \in Address, NEW r \in Reports, NEW next, Accept(h, r, next)
    PROVE  /\ agg' \in Aggregate /\ received' \subseteq Record
           /\ out' \in Seq(Record) /\ Len(out') = 1 /\ pc' = "send" /\ back' = next
           /\ agg.verdict = "compromised" => agg'.verdict = "compromised"
           /\ r.verdict = "compromised" => agg'.verdict = "compromised"
<1>1. [host |-> h, report |-> r] \in Record /\ r \in Report
  BY ReportsAssumption DEF Record
<1>2. <<[host |-> h, report |-> r]>> \in Seq(Record) /\ Len(<<[host |-> h, report |-> r]>>) = 1
  BY <1>1
<1>3. agg' = add(agg, r) /\ agg \in Aggregate /\ received \subseteq Record
  BY DEF Accept, TypeOK
<1>4. /\ agg' \in Aggregate
      /\ agg.verdict = "compromised" => agg'.verdict = "compromised"
      /\ r.verdict = "compromised" => agg'.verdict = "compromised"
  BY <1>1, <1>3, AddFacts
<1>5. received' \subseteq Record /\ out' = <<[host |-> h, report |-> r]>>
      /\ pc' = "send" /\ back' = next
  BY <1>1, <1>3 DEF Accept
<1> QED BY <1>2, <1>4, <1>5

(* What resume_scan credits: the records it has read, as one aggregate. *)
LEMMA ResumeFacts ==
    ASSUME NEW recs \in Seq(Record)
    PROVE  /\ ResumedAggregate(recs) \in Aggregate
           /\ Records(recs) \subseteq Record
           /\ (\E rec \in Records(recs) : rec.report.verdict = "compromised") =>
                 ResumedAggregate(recs).verdict = "compromised"
<1>2. \A i \in DOMAIN recs : recs[i] \in Record /\ recs[i].report \in Report
  <2>1. \A i \in DOMAIN recs : recs[i] \in Record
    OBVIOUS
  <2>2. \A x \in Record : x.report \in Report
    BY ReportsAssumption DEF Record
  <2> QED BY <2>1, <2>2
<1>3. Records(recs) \subseteq Record
  BY <1>2 DEF Records
<1>4. ReportsOf(recs) \in Seq(Report)
  <2>1. DOMAIN recs = 1 .. Len(recs) /\ Len(recs) \in Nat
    BY LenProperties
  <2>2. ReportsOf(recs) = [i \in 1 .. Len(recs) |-> recs[i].report]
    BY <2>1 DEF ReportsOf
  <2> QED BY <1>2, <2>1, <2>2, SeqDef
<1>5. /\ DOMAIN ReportsOf(recs) = DOMAIN recs
      /\ \A i \in DOMAIN recs : ReportsOf(recs)[i] = recs[i].report
  BY DEF ReportsOf
<1> DEFINE rs == ReportsOf(recs)
<1>6. /\ AggregateOf(rs) \in Aggregate
      /\ (\E i \in DOMAIN rs : rs[i].verdict = "compromised") =>
            AggregateOf(rs).verdict = "compromised"
  BY <1>4, AggregateOfFacts
<1> HIDE DEF rs
<1>7. (\E rec \in Records(recs) : rec.report.verdict = "compromised") =>
         \E i \in DOMAIN rs : rs[i].verdict = "compromised"
  BY <1>5 DEF Records, rs
<1> QED BY <1>3, <1>6, <1>7 DEF ResumedAggregate, rs

(* A run that gives up before it has a stream ends with what it has read until then. *)
LEMMA GaveUp ==
    ASSUME RefuseResume \/ OpenFails, disk.recs \in Seq(Record)
    PROVE  /\ pc = "open" /\ Streaming /\ pc' = "refused"
           /\ exit' \in {EXIT_USAGE, EXIT_DEGRADED}
           /\ ProcessEnds
           /\ UNCHANGED <<back, out, sendFailures, interrupted, run, listVars, slotVars,
                          signalVars>>
           /\ \E recs \in Seq(Record) :
                 agg' = ResumedAggregate(recs) /\ received' = Records(recs)
<1>1. \A n \in 0 .. Len(disk.recs) : SubSeq(disk.recs, 1, n) \in Seq(Record)
  <2>1. SUFFICES ASSUME NEW n \in 0 .. Len(disk.recs)
                 PROVE  SubSeq(disk.recs, 1, n) \in Seq(Record)
    BY Zenon
  <2>2. Len(disk.recs) \in Nat /\ \A i \in 1 .. n : disk.recs[i] \in Record
    BY LenProperties
  <2> QED BY <2>2, SubSeqProperties
<1>2. CASE RefuseResume
  <2>1. PICK n \in 0 .. Len(disk.recs) : GiveUp(EXIT_USAGE, SubSeq(disk.recs, 1, n))
    BY <1>2 DEF RefuseResume
  <2>2. SubSeq(disk.recs, 1, n) \in Seq(Record)
    BY <1>1
  <2> QED BY <1>2, <2>1, <2>2, Zenon DEF RefuseResume, GiveUp
<1>3. CASE OpenFails
  BY <1>3, Zenon DEF OpenFails, GiveUp
<1> QED BY <1>2, <1>3

(* Every step keeps the types of all variables. *)
LEMMA TypeStep ==
    ASSUME TypeOK, SlotInv, SlotInv', PlaceInv, WriterTypeOK', LateInv', [Next]_vars
    PROVE  TypeOK'
<1> USE DEF listVars, slotVars, reportVars, signalVars, processVars
<1>1. CASE UNCHANGED vars
  BY <1>1 DEF vars, TypeOK
<1>2. CASE OpenOutput
  <2>1. /\ agg' \in Aggregate /\ received' \subseteq Record /\ pc' = "local"
        /\ pending' \subseteq Address
    BY <1>2, ResumeFacts DEF OpenOutput, TypeOK, WriterTypeOK, File
  <2>2. UNCHANGED <<back, running, finished, dropped, permits, fillLeft, out, sendFailures, late,
                    listVars, signalVars, processVars>> /\ pc = "open"
    BY <1>2 DEF OpenOutput
  <2> QED BY <2>1, <2>2 DEF TypeOK
<1>3. CASE RefuseResume \/ OpenFails
  <2>1. /\ exit' \in {EXIT_DEGRADED, EXIT_USAGE} /\ pc' = "refused" /\ pc = "open"
        /\ UNCHANGED <<back, out, sendFailures, interrupted, run, listVars, slotVars, signalVars>>
        /\ \E recs \in Seq(Record) : agg' = ResumedAggregate(recs) /\ received' = Records(recs)
    BY <1>3, GaveUp DEF TypeOK, WriterTypeOK, File
  <2>2. agg' \in Aggregate /\ received' \subseteq Record
    BY <2>1, ResumeFacts
  <2> QED BY <2>1, <2>2 DEF TypeOK
<1>4. CASE NoStream \/ LocalSkip \/ LocalStart
  BY MaxConcurrentAssumption, <1>4 DEF NoStream, LocalSkip, LocalStart, Goto, TypeOK, LateInv
<1>5. CASE \E r \in Reports : LocalReport(r)
  <2>1. PICK r \in Reports : LocalReport(r)
    BY <1>5
  <2>2. Head(local) \in Address
    <3>1. local \in Seq(Address) /\ local # <<>>
      BY <2>1 DEF TypeOK, PlaceInv, LocalReport
    <3> QED BY <3>1, HeadTailProperties
  <2>3. /\ agg' \in Aggregate /\ received' \subseteq Record
        /\ out' \in Seq(Record) /\ Len(out') = 1 /\ pc' = "send" /\ back' = "remote"
    BY <2>1, <2>2, AcceptFacts DEF LocalReport
  <2>4. UNCHANGED <<sendFailures, listVars, slotVars, signalVars, processVars>>
    BY <2>1 DEF LocalReport
  <2> QED BY <2>3, <2>4 DEF TypeOK
<1>6. CASE LocalInterrupted
  BY MaxConcurrentAssumption, <1>6 DEF LocalInterrupted, TypeOK, LateInv
<1>7. CASE RemoteStart
  BY MaxConcurrentAssumption, <1>7 DEF RemoteStart, Goto, TypeOK, LateInv
<1>8. CASE FillCheck
  BY MaxConcurrentAssumption, <1>8 DEF FillCheck, FillMore, Goto, TypeOK, LateInv
<1>9. CASE NextCheck
  BY MaxConcurrentAssumption, <1>9 DEF NextCheck, AdmitMore, Goto, TypeOK, LateInv
<1>10. CASE \E h \in Address : FillSpawn(h)
  <2>1. /\ pending' \subseteq Address /\ running' \subseteq Address /\ pc' = "fill" /\ pc = "fillSpawn"
        /\ permits' = permits - 1 /\ permits > 0 /\ fillLeft' = fillLeft - 1
        /\ UNCHANGED <<finished, dropped, listVars, reportVars, signalVars, processVars>>
    BY <1>10 DEF FillSpawn, Spawn, TypeOK
  <2>2. permits' \in 0 .. MaxConcurrent /\ fillLeft' \in 0 .. MaxConcurrent
    BY <2>1, MaxConcurrentAssumption DEF TypeOK, SlotInv
  <2>3. late' \in Nat
    BY DEF LateInv
  <2> QED BY <2>1, <2>2, <2>3 DEF TypeOK
<1>11. CASE \E h \in Address : NextSpawn(h)
  BY MaxConcurrentAssumption, <1>11 DEF NextSpawn, Spawn, TypeOK, LateInv
<1>12. CASE AllJoined \/ SelectShutdown
  BY MaxConcurrentAssumption, <1>12 DEF AllJoined, SelectShutdown, Goto, TypeOK, LateInv
<1>13. CASE \E h \in Address : JoinNothing(h) \/ TeardownNothing(h)
  BY MaxConcurrentAssumption, <1>13 DEF JoinNothing, TeardownNothing, Join, TypeOK, LateInv
<1>14. CASE \E h \in Address, r \in Reports : JoinReport(h, r) \/ TeardownReport(h, r)
  <2>1. PICK h \in Address, r \in Reports : JoinReport(h, r) \/ TeardownReport(h, r)
    BY <1>14
  <2>2. /\ agg' \in Aggregate /\ received' \subseteq Record
        /\ out' \in Seq(Record) /\ Len(out') = 1 /\ pc' = "send" /\ back' \in {"next", "teardown"}
    BY <2>1, AcceptFacts DEF JoinReport, TeardownReport
  <2>3. /\ finished' \subseteq finished
        /\ UNCHANGED <<pending, running, dropped, permits, fillLeft, sendFailures, late,
                       listVars, signalVars, processVars>>
    BY <2>1 DEF JoinReport, TeardownReport, Join
  <2> QED BY <2>2, <2>3 DEF TypeOK
<1>15. CASE SecondInterrupt \/ GraceExpired
  <2>1. /\ running' = {} /\ finished' = {} /\ pc' = "close" /\ pc = "teardown"
        /\ notify' \in BOOLEAN /\ permits' = MaxConcurrent
        /\ UNCHANGED <<pending, dropped, fillLeft, late, shutdown, hits, listVars,
                       reportVars, processVars>>
    BY <1>15 DEF SecondInterrupt, GraceExpired, AbortAll, TypeOK
  <2>2. permits' \in 0 .. MaxConcurrent
    BY <2>1, MaxConcurrentAssumption
  <2> QED BY <2>1, <2>2 DEF TypeOK
<1>16. CASE SendReport \/ SendFails
  <2>1. /\ pc = "send" /\ pc' = back /\ out' = <<>> /\ sendFailures' \in Nat
        /\ UNCHANGED <<back, agg, received, listVars, slotVars, signalVars, processVars>>
    BY <1>16 DEF SendReport, SendFails, TypeOK
  <2>2. pc' \in {"remote", "next", "teardown"}
    BY <2>1 DEF TypeOK, PlaceInv
  <2>3. out' \in Seq(Record) /\ Len(out') = 0
    BY <2>1, EmptySeq
  <2> QED BY <2>1, <2>2, <2>3 DEF TypeOK
<1>17. CASE CloseStream
  BY MaxConcurrentAssumption, <1>17 DEF CloseStream, TypeOK, LateInv
<1>18. CASE WriterJoined \/ WriterFailed \/ DrainTimeout \/ OutputDone \/ OutputFails \/ ReaderGone
  <2>1. \/ \E lost, failed : exit' = FleetCode(lost, failed)
        \/ exit' \in {EXIT_CLEAN, EXIT_INTERNAL_ERROR}
    BY <1>18, Zenon DEF WriterJoined, WriterFailed, DrainTimeout, OutputDone, OutputFails,
      ReaderGone, Return
  <2>2. exit' \in {EXIT_CLEAN, EXIT_CRITICAL, EXIT_DEGRADED, EXIT_COMPROMISED, EXIT_INCOMPLETE,
                  EXIT_INTERRUPT, EXIT_INTERNAL_ERROR}
    BY <2>1, FleetCodeFacts, Zenon
  <2>3. /\ pc' = "done" /\ pc \in {"joinWait", "joinTimed", "output"}
        /\ UNCHANGED <<interrupted, run, listVars, slotVars, reportVars, signalVars>>
    BY <1>18 DEF WriterJoined, WriterFailed, DrainTimeout, OutputDone, OutputFails, ReaderGone,
      Return
  <2> QED BY <2>2, <2>3 DEF TypeOK
<1>19. CASE Signal \/ ThirdSignal \/ Watchdog \/ Kill
  <2>1. /\ hits' \in 0 .. 3 /\ shutdown' \in BOOLEAN /\ notify' \in BOOLEAN
        /\ exit' \in {exit, EXIT_INTERRUPT, Killed}
        /\ UNCHANGED <<pc, interrupted, run, listVars, slotVars, reportVars>>
    <3>1. CASE Signal \/ ThirdSignal
      <4>1. /\ hits \in 0 .. 3 /\ hits <= 2 /\ hits' = hits + 1
            /\ exit' \in {exit, EXIT_INTERRUPT}
            /\ UNCHANGED <<pc, interrupted, run, listVars, slotVars, reportVars>>
        BY <3>1 DEF Signal, ThirdSignal, ForcedExit, TypeOK
      <4>2. hits' \in 0 .. 3
        BY <4>1
      <4>3. shutdown' = TRUE /\ notify' = TRUE
        BY <3>1, Zenon DEF Signal, ThirdSignal
      <4> QED BY <4>1, <4>2, <4>3, Zenon
    <3>2. CASE Watchdog \/ Kill
      BY <3>2 DEF Watchdog, Kill, ForcedExit, TypeOK
    <3> QED BY <1>19, <3>1, <3>2
  <2> QED BY <2>1 DEF TypeOK
<1>20. CASE OperatorTruncates
  BY MaxConcurrentAssumption, <1>20 DEF OperatorTruncates, TypeOK, LateInv
<1>21. CASE Rerun
  <2>1. /\ run' \in Nat /\ hosts' \in HostLists /\ hosts' \subseteq Address
        /\ pending' \subseteq Address
    BY <1>21, HostListsAssumption DEF Rerun, StartWith, TypeOK
  <2>2. local' \in Seq(Address) /\ Len(local') <= 1
    <3>1. local' = <<>> \/ \E h \in Address : local' = <<h>>
      BY <1>21, AddressAssumption DEF Rerun, StartWith
    <3>2. CASE local' = <<>>
      BY <3>2, EmptySeq
    <3>3. CASE \E h \in Address : local' = <<h>>
      BY <3>3
    <3> QED BY <3>1, <3>2, <3>3
  <2>3. /\ pc' = "open" /\ back' = "open"
        /\ running' = {} /\ finished' = {} /\ dropped' = {}
        /\ permits' = MaxConcurrent /\ fillLeft' = MaxConcurrent
        /\ agg' = EmptyAggregate /\ out' = <<>> /\ sendFailures' = 0
        /\ interrupted' = FALSE /\ exit' = NoExit
        /\ received' = {} /\ late' = 0
        /\ shutdown' = FALSE /\ notify' = FALSE /\ hits' = 0
    BY <1>21 DEF Rerun, FreshMain
  <2>4. out' \in Seq(Record) /\ Len(out') = 0
    BY <2>3, EmptySeq
  <2>5. agg' \in Aggregate /\ permits' \in 0 .. MaxConcurrent /\ fillLeft' \in 0 .. MaxConcurrent
    BY <2>3, MaxConcurrentAssumption DEF EmptyAggregate, Aggregate
  <2>6. /\ sendFailures' \in Nat /\ late' \in Nat /\ hits' \in 0 .. 3
        /\ interrupted' \in BOOLEAN /\ shutdown' \in BOOLEAN /\ notify' \in BOOLEAN
        /\ running' \subseteq Address /\ finished' \subseteq Address /\ dropped' \subseteq Address
        /\ received' \subseteq Record /\ exit' = NoExit /\ pc' = "open" /\ back' = "open"
    <3>1. interrupted' \in BOOLEAN /\ shutdown' \in BOOLEAN /\ notify' \in BOOLEAN
      BY <2>3, Zenon
    <3>2. sendFailures' \in Nat /\ late' \in Nat /\ hits' \in 0 .. 3
      BY <2>3
    <3>3. /\ running' \subseteq Address /\ finished' \subseteq Address
          /\ dropped' \subseteq Address /\ received' \subseteq Record
      BY <2>3, Zenon
    <3> QED BY <2>3, <3>1, <3>2, <3>3, Zenon
  <2> QED BY <2>1, <2>2, <2>4, <2>5, <2>6 DEF TypeOK
<1>22. CASE \E h \in Address : TaskEnds(h)
  <2>1. PICK h \in Address : TaskEnds(h)
    BY <1>22
  <2>2. /\ running' \subseteq Address /\ finished' \subseteq Address /\ permits' = permits + 1
        /\ UNCHANGED <<pc, pending, dropped, fillLeft, late, listVars, reportVars,
                       signalVars, processVars>>
    BY <2>1 DEF TaskEnds, DropPermit, TypeOK
  <2>3. Cardinality(running') \in Nat
    BY <2>2, CardFacts
  <2>4. permits' \in 0 .. MaxConcurrent
    BY <2>2, <2>3, MaxConcurrentAssumption DEF TypeOK, SlotInv
  <2> QED BY <2>2, <2>4 DEF TypeOK
<1>23. CASE WriterTask \/ WriterTaskFails \/ Ended
  BY MaxConcurrentAssumption, <1>23 DEF WriterTask, WriterTaskFails, Ended, vars, TypeOK, LateInv
<1> QED
  BY <1>1, <1>2, <1>3, <1>4, <1>5, <1>6, <1>7, <1>8, <1>9, <1>10, <1>11, <1>12, <1>13, <1>14, <1>15, <1>16, <1>17, <1>18, <1>19, <1>20, <1>21, <1>22, <1>23, Zenon
  DEF Next, MainTask, Start, LocalScan, Admission, Collect, Deliver, Environment

(***************************************************************************)
(* The aggregator has seen every compromise among the reports accepted,    *)
(* the resumed ones included.                                              *)
(***************************************************************************)
VerdictInv ==
    (\E rec \in received : rec.report.verdict = "compromised") => agg.verdict = "compromised"

(* The aggregate is compromised as soon as an accepted report is. *)
LEMMA VerdictStep ==
    ASSUME TypeOK, PlaceInv, VerdictInv, [Next]_vars
    PROVE  VerdictInv'
<1> USE DEF listVars, slotVars, reportVars, signalVars, processVars, VerdictInv
<1>1. CASE UNCHANGED vars
  BY <1>1 DEF vars
<1>2. CASE OpenOutput
  BY <1>2, ResumeFacts DEF OpenOutput, TypeOK, WriterTypeOK, File
<1>3. CASE RefuseResume \/ OpenFails
  BY <1>3, GaveUp, ResumeFacts DEF TypeOK, WriterTypeOK, File
<1>4. CASE NoStream \/ LocalSkip \/ LocalStart
  BY <1>4 DEF NoStream, LocalSkip, LocalStart, Goto
<1>5. CASE \E r \in Reports : LocalReport(r)
  <2>1. PICK r \in Reports : LocalReport(r)
    BY <1>5
  <2>2. Head(local) \in Address
    <3>1. local \in Seq(Address) /\ local # <<>>
      BY <2>1 DEF TypeOK, PlaceInv, LocalReport
    <3> QED BY <3>1, HeadTailProperties
  <2>3. /\ agg.verdict = "compromised" => agg'.verdict = "compromised"
        /\ r.verdict = "compromised" => agg'.verdict = "compromised"
    BY <2>1, <2>2, AcceptFacts DEF LocalReport
  <2>4. received' = received \cup {[host |-> Head(local), report |-> r]}
    BY <2>1 DEF LocalReport, Accept
  <2> QED BY <2>3, <2>4
<1>6. CASE LocalInterrupted
  BY <1>6 DEF LocalInterrupted
<1>7. CASE RemoteStart
  BY <1>7 DEF RemoteStart, Goto
<1>8. CASE FillCheck
  BY <1>8 DEF FillCheck, FillMore, Goto
<1>9. CASE NextCheck
  BY <1>9 DEF NextCheck, AdmitMore, Goto
<1>10. CASE \E h \in Address : FillSpawn(h)
  BY <1>10 DEF FillSpawn, Spawn
<1>11. CASE \E h \in Address : NextSpawn(h)
  BY <1>11 DEF NextSpawn, Spawn
<1>12. CASE AllJoined \/ SelectShutdown
  BY <1>12 DEF AllJoined, SelectShutdown, Goto
<1>13. CASE \E h \in Address : JoinNothing(h) \/ TeardownNothing(h)
  BY <1>13 DEF JoinNothing, TeardownNothing, Join
<1>14. CASE \E h \in Address, r \in Reports : JoinReport(h, r) \/ TeardownReport(h, r)
  <2>1. PICK h \in Address, r \in Reports : JoinReport(h, r) \/ TeardownReport(h, r)
    BY <1>14
  <2>2. /\ agg.verdict = "compromised" => agg'.verdict = "compromised"
        /\ r.verdict = "compromised" => agg'.verdict = "compromised"
    BY <2>1, AcceptFacts DEF JoinReport, TeardownReport
  <2>3. received' = received \cup {[host |-> h, report |-> r]}
    BY <2>1 DEF JoinReport, TeardownReport, Accept
  <2> QED BY <2>2, <2>3
<1>15. CASE SecondInterrupt \/ GraceExpired
  BY <1>15 DEF SecondInterrupt, GraceExpired, AbortAll
<1>16. CASE SendReport \/ SendFails
  BY <1>16 DEF SendReport, SendFails
<1>17. CASE CloseStream
  BY <1>17 DEF CloseStream
<1>18. CASE WriterJoined \/ WriterFailed \/ DrainTimeout \/ OutputDone \/ OutputFails \/ ReaderGone
  BY <1>18 DEF WriterJoined, WriterFailed, DrainTimeout, OutputDone, OutputFails, ReaderGone, Return
<1>19. CASE Signal \/ ThirdSignal \/ Watchdog \/ Kill
  BY <1>19 DEF Signal, ThirdSignal, Watchdog, Kill, ForcedExit
<1>20. CASE OperatorTruncates
  BY <1>20 DEF OperatorTruncates
<1>21. CASE Rerun
  BY <1>21 DEF Rerun, FreshMain, FreshWriter, StartWith
<1>22. CASE \E h \in Address : TaskEnds(h)
  BY <1>22 DEF TaskEnds, DropPermit
<1>23. CASE WriterTask \/ WriterTaskFails \/ Ended
  BY <1>23 DEF WriterTask, WriterTaskFails, Ended, vars
<1> QED
  BY <1>1, <1>2, <1>3, <1>4, <1>5, <1>6, <1>7, <1>8, <1>9, <1>10, <1>11, <1>12, <1>13, <1>14, <1>15, <1>16, <1>17, <1>18, <1>19, <1>20, <1>21, <1>22, <1>23, Zenon
  DEF Next, MainTask, Start, LocalScan, Admission, Collect, Deliver, Environment

(***************************************************************************)
(* Once the output is open nothing but the exit through a lost reader may  *)
(* mask a compromise.                                                      *)
(***************************************************************************)
LEMMA MaskStep ==
    ASSUME ~Pipe, TypeOK, PlaceInv, VerdictInv, AuditNeverMasks, [Next]_vars
    PROVE  AuditNeverMasks'
<1> USE DEF listVars, slotVars, reportVars, signalVars, processVars, AuditNeverMasks, CompromiseAccepted
<1>1. CASE UNCHANGED vars
  BY <1>1 DEF vars
<1>2. CASE OpenOutput
  BY <1>2 DEF OpenOutput
<1>3. CASE RefuseResume \/ OpenFails
  BY <1>3 DEF RefuseResume, OpenFails, GiveUp
<1>4. CASE NoStream \/ LocalSkip \/ LocalStart
  BY <1>4 DEF NoStream, LocalSkip, LocalStart, Goto
<1>5. CASE \E r \in Reports : LocalReport(r)
  BY <1>5 DEF LocalReport, Accept
<1>6. CASE LocalInterrupted
  BY <1>6 DEF LocalInterrupted
<1>7. CASE RemoteStart
  BY <1>7 DEF RemoteStart, Goto
<1>8. CASE FillCheck
  BY <1>8 DEF FillCheck, FillMore, Goto
<1>9. CASE NextCheck
  BY <1>9 DEF NextCheck, AdmitMore, Goto
<1>10. CASE \E h \in Address : FillSpawn(h)
  BY <1>10 DEF FillSpawn, Spawn
<1>11. CASE \E h \in Address : NextSpawn(h)
  BY <1>11 DEF NextSpawn, Spawn
<1>12. CASE AllJoined \/ SelectShutdown
  BY <1>12 DEF AllJoined, SelectShutdown, Goto
<1>13. CASE \E h \in Address : JoinNothing(h) \/ TeardownNothing(h)
  BY <1>13 DEF JoinNothing, TeardownNothing, Join
<1>14. CASE \E h \in Address, r \in Reports : JoinReport(h, r) \/ TeardownReport(h, r)
  BY <1>14 DEF JoinReport, TeardownReport, Join, Accept
<1>15. CASE SecondInterrupt \/ GraceExpired
  BY <1>15 DEF SecondInterrupt, GraceExpired, AbortAll
<1>16. CASE SendReport \/ SendFails
  <2>1. pc = "send" /\ pc' = back
    BY <1>16 DEF SendReport, SendFails
  <2> QED BY <2>1 DEF TypeOK
<1>17. CASE CloseStream
  BY <1>17 DEF CloseStream
<1>18. CASE WriterJoined \/ WriterFailed \/ DrainTimeout \/ OutputDone \/ OutputFails \/ ReaderGone
  <2>1. PICK lost, failed : exit' = FleetCode(lost, failed)
    BY <1>18, Zenon DEF WriterJoined, WriterFailed, DrainTimeout, OutputDone, OutputFails,
      ReaderGone, Return
  <2>2. agg.verdict = "compromised" => exit' = EXIT_COMPROMISED
    BY <2>1, FleetCodeFacts, Zenon
  <2>3. received' = received
    BY <1>18 DEF WriterJoined, WriterFailed, DrainTimeout, OutputDone, OutputFails,
      ReaderGone, Return
  <2> QED BY <2>2, <2>3 DEF VerdictInv
<1>19. CASE Signal \/ ThirdSignal \/ Watchdog \/ Kill
  <2>1. pc # "done"
    BY <1>19 DEF Signal, ThirdSignal, Watchdog, Kill, Alive, PlaceInv
  <2> QED BY <1>19, <2>1 DEF Signal, ThirdSignal, Watchdog, Kill, ForcedExit
<1>20. CASE OperatorTruncates
  BY <1>20 DEF OperatorTruncates
<1>21. CASE Rerun
  BY <1>21 DEF Rerun, FreshMain, FreshWriter, StartWith
<1>22. CASE \E h \in Address : TaskEnds(h)
  BY <1>22 DEF TaskEnds, DropPermit
<1>23. CASE WriterTask \/ WriterTaskFails \/ Ended
  BY <1>23 DEF WriterTask, WriterTaskFails, Ended, vars
<1> QED
  BY <1>1, <1>2, <1>3, <1>4, <1>5, <1>6, <1>7, <1>8, <1>9, <1>10, <1>11, <1>12, <1>13, <1>14, <1>15, <1>16, <1>17, <1>18, <1>19, <1>20, <1>21, <1>22, <1>23, Zenon
  DEF Next, MainTask, Start, LocalScan, Admission, Collect, Deliver, Environment

-------------------------------------------------------------------------------
(* The inductive invariant of the fleet. *)
FleetInv == TypeOK /\ WriterInv /\ SlotInv /\ PlaceInv /\ LateInv /\ VerdictInv

(* The inductive invariant holds when the program starts. *)
LEMMA InitFleetInv == Init => FleetInv
<1>1. SUFFICES ASSUME Init PROVE FleetInv
  BY Zenon
<1> USE DEF Init
<1>2. /\ <<>> \in Seq(Record) /\ <<>> \in Seq(Address) /\ Len(<<>>) = 0
      /\ 0 <= ChannelCap /\ Cardinality({}) = 0
  BY EmptySeq, ChannelCapAssumption, CardFacts
<1>3. disk \in File /\ disk.tail = "ok" /\ disk.fused = FALSE
  BY <1>1, <1>2 DEF EmptyFile, File, Tail_
<1>4. WriterTypeOK
  <2>1. /\ chan \in Seq(Record) /\ Len(chan) <= ChannelCap
        /\ line \in Seq(Record) /\ Len(line) = 0 /\ buf \in Seq(Record)
        /\ opened \in Seq(Record) /\ sent \in Seq(Record)
    BY <1>1, <1>2, Zenon
  <2>2. tx \in BOOLEAN /\ poisoned \in BOOLEAN /\ ioErrors \in Nat /\ writer = "off"
    BY <1>1
  <2> QED BY <1>3, <2>1, <2>2 DEF WriterTypeOK
<1>5. WriterInv
  BY <1>1, <1>3, <1>4
  DEF WriterInv, NeverFused, Undamaged, InOrder, PoisonCounted, DeliveredOrCounted, Receiving
<1>6. TypeOK
  <2>1. hosts \in HostLists /\ pending \subseteq Address
    BY <1>1, HostListsAssumption
  <2>2. local \in Seq(Address) /\ Len(local) <= 1
    <3>1. local = <<>> \/ \E h \in Address : local = <<h>>
      BY <1>1, AddressAssumption
    <3>2. CASE local = <<>>
      BY <1>2, <3>2
    <3>3. CASE \E h \in Address : local = <<h>>
      BY <3>3
    <3> QED BY <3>1, <3>2, <3>3
  <2>3. out \in Seq(Record) /\ Len(out) = 0
    BY <1>1, <1>2, Zenon
  <2>4. agg \in Aggregate /\ permits \in 0 .. MaxConcurrent /\ fillLeft \in 0 .. MaxConcurrent
    BY <1>1, MaxConcurrentAssumption DEF EmptyAggregate, Aggregate
  <2>5. interrupted \in BOOLEAN /\ shutdown \in BOOLEAN /\ notify \in BOOLEAN
    BY <1>1, Zenon
  <2>6. /\ running \subseteq Address /\ finished \subseteq Address /\ dropped \subseteq Address
        /\ received \subseteq Record
    BY <1>1, Zenon
  <2>7. /\ sendFailures \in Nat /\ late \in Nat /\ hits \in 0 .. 3 /\ run \in Nat
        /\ exit = NoExit /\ pc = "open" /\ back = "open"
    BY <1>1
  <2> QED BY <1>4, <2>1, <2>2, <2>3, <2>4, <2>5, <2>6, <2>7 DEF TypeOK
<1>7. SlotInv
  BY <1>1, <1>2, MaxConcurrentAssumption DEF SlotInv, Idle, SlotFree, Filling
<1>8. PlaceInv /\ LateInv /\ VerdictInv
  BY <1>1 DEF PlaceInv, LateInv, VerdictInv
<1> QED BY <1>5, <1>6, <1>7, <1>8 DEF FleetInv

(* Every step of every process keeps the inductive invariant. *)
LEMMA NextFleetInv == FleetInv /\ [Next]_vars => FleetInv'
<1>1. SUFFICES ASSUME FleetInv, [Next]_vars PROVE FleetInv'
  BY Zenon
<1> USE DEF FleetInv
<1>2. WriterInv' /\ WriterTypeOK'
  BY <1>1, StreamStep DEF WriterInv
<1>3. SlotInv'
  BY <1>1, SlotStep DEF PlaceInv
<1>4. PlaceInv' /\ LateInv' /\ VerdictInv'
  BY <1>1, PlaceStep, LateStep, VerdictStep
<1>5. TypeOK'
  BY <1>1, <1>2, <1>3, <1>4, TypeStep
<1> QED BY <1>2, <1>3, <1>4, <1>5

(* The inductive invariant of a fleet audit, for any hosts, slots and signals. *)
THEOREM FleetInvariance == Spec => []FleetInv
  BY InitFleetInv, NextFleetInv, PTL DEF Spec

(* Type correctness of the fleet audit. *)
THEOREM FleetTypeCorrect == Spec => []TypeOK
<1>1. FleetInv => TypeOK
  BY DEF FleetInv
<1> QED BY <1>1, FleetInvariance, PTL

(***************************************************************************)
(* Admission control: whatever the number of hosts, the concurrency limit  *)
(* and the timing of signals, no permit is lost or invented and the        *)
(* JoinSet never holds more than MaxConcurrent tasks.                      *)
(***************************************************************************)
THEOREM SlotsBounded == Spec => []AdmissionBound
<1>1. FleetInv => AdmissionBound
  BY DEF FleetInv, SlotInv, AdmissionBound
<1> QED BY <1>1, FleetInvariance, PTL

(* The branch of try_acquire_owned that gives a host up is dead code. *)
THEOREM NoneDropped == Spec => []NoHostDropped
<1>1. FleetInv => NoHostDropped
  BY DEF FleetInv, SlotInv, NoHostDropped
<1> QED BY <1>1, FleetInvariance, PTL

(* At most one host is admitted after the shutdown flag was set. *)
THEOREM LateAdmissionBounded == Spec => []AtMostOneLateAdmission
<1>1. FleetInv => AtMostOneLateAdmission
  BY DEF FleetInv, LateInv, AtMostOneLateAdmission
<1> QED BY <1>1, FleetInvariance, PTL

(***************************************************************************)
(* The stream of a fleet, over any number of runs, kills and resumes:      *)
(* nothing fuses two records, and a writer that returned without an error  *)
(* delivered everything sent.                                              *)
(***************************************************************************)
THEOREM FleetStream == Spec => [](NeverFused /\ DeliveredOrCounted)
<1>1. FleetInv => NeverFused /\ DeliveredOrCounted
  BY DEF FleetInv, WriterInv
<1> QED BY <1>1, FleetInvariance, PTL

(***************************************************************************)
(* Once its output is open, a run that returns after it accepted a         *)
(* compromised report, new or resumed, exits 3: a lost record, a failed    *)
(* delivery, an interrupt or a missing host mask nothing, provided the     *)
(* reader of stdout does not go away.  The runs fleet_reader_gone and      *)
(* fleet_resume_refused show that neither condition can be dropped: the    *)
(* README's promise, CompromiseNeverMasked, has none.                      *)
(***************************************************************************)
THEOREM CompromiseReported == ASSUME ~Pipe PROVE Spec => []AuditNeverMasks
<1>1. Init => AuditNeverMasks
  BY DEF Init, AuditNeverMasks
<1>2. FleetInv /\ AuditNeverMasks /\ [Next]_vars => AuditNeverMasks'
  BY MaskStep DEF FleetInv
<1> QED BY <1>1, <1>2, FleetInvariance, PTL DEF Spec

-------------------------------------------------------------------------------
(* One record per host. *)

(* No two records of s are about the same host. *)
Distinct(s) == \A i, j \in DOMAIN s : s[i].host = s[j].host => i = j

(* Records that are in the file or still on their way into it: a writer    *)
(* that has ended takes nothing there any more.                            *)
Live == IF Receiving THEN Cat(Cat(disk.recs, buf), Cat(line, chan)) ELSE disk.recs

(* Hosts and records of a concatenation. *)
LEMMA CatRecords ==
    ASSUME NEW s \in Seq(Record), NEW t \in Seq(Record)
    PROVE  /\ Records(Cat(s, t)) = Records(s) \cup Records(t)
           /\ HostsOf(Cat(s, t)) = HostsOf(s) \cup HostsOf(t)
           /\ Distinct(Cat(s, t)) <=>
                 Distinct(s) /\ Distinct(t) /\ HostsOf(s) \cap HostsOf(t) = {}
<1> DEFINE u == Cat(s, t)
<1>1. /\ Len(s) \in Nat /\ Len(t) \in Nat /\ DOMAIN s = 1 .. Len(s) /\ DOMAIN t = 1 .. Len(t)
      /\ DOMAIN u = 1 .. Len(s) + Len(t)
      /\ \A i \in 1 .. Len(s) : u[i] = s[i]
      /\ \A i \in 1 .. Len(t) : u[Len(s) + i] = t[i]
  BY ConcatProperties, LenProperties DEF Cat
<1>2. \A k \in 1 .. Len(s) + Len(t) :
         \/ k \in 1 .. Len(s) /\ u[k] = s[k]
         \/ k - Len(s) \in 1 .. Len(t) /\ u[k] = t[k - Len(s)]
  <2>1. SUFFICES ASSUME NEW k \in 1 .. Len(s) + Len(t), k \notin 1 .. Len(s)
                 PROVE  k - Len(s) \in 1 .. Len(t) /\ u[k] = t[k - Len(s)]
    BY <1>1
  <2>2. k - Len(s) \in 1 .. Len(t) /\ Len(s) + (k - Len(s)) = k
    BY <1>1, <2>1
  <2> QED BY <1>1, <2>2
<1>3. \A i \in 1 .. Len(t) : Len(s) + i \in 1 .. Len(s) + Len(t)
  BY <1>1
<1>4. \A i \in 1 .. Len(s) : i \in 1 .. Len(s) + Len(t)
  BY <1>1
<1> HIDE DEF u
<1>5. Records(u) = Records(s) \cup Records(t)
  <2>1. /\ \A x \in Records(u) : \E k \in 1 .. Len(s) + Len(t) : x = u[k]
        /\ \A k \in 1 .. Len(s) + Len(t) : u[k] \in Records(u)
    BY <1>1 DEF Records
  <2>2. /\ \A x \in Records(s) : \E k \in 1 .. Len(s) : x = s[k]
        /\ \A k \in 1 .. Len(s) : s[k] \in Records(s)
    BY <1>1 DEF Records
  <2>3. /\ \A x \in Records(t) : \E k \in 1 .. Len(t) : x = t[k]
        /\ \A k \in 1 .. Len(t) : t[k] \in Records(t)
    BY <1>1 DEF Records
  <2>4. Records(u) \subseteq Records(s) \cup Records(t)
    BY <1>2, <2>1, <2>2, <2>3
  <2>5. Records(s) \subseteq Records(u)
    BY <1>1, <1>4, <2>1, <2>2
  <2>6. Records(t) \subseteq Records(u)
    BY <1>1, <1>3, <2>1, <2>3
  <2> QED BY <2>4, <2>5, <2>6
<1>6. HostsOf(u) = HostsOf(s) \cup HostsOf(t)
  <2>1. /\ \A x \in HostsOf(u) : \E k \in 1 .. Len(s) + Len(t) : x = u[k].host
        /\ \A k \in 1 .. Len(s) + Len(t) : u[k].host \in HostsOf(u)
    BY <1>1 DEF HostsOf
  <2>2. /\ \A x \in HostsOf(s) : \E k \in 1 .. Len(s) : x = s[k].host
        /\ \A k \in 1 .. Len(s) : s[k].host \in HostsOf(s)
    BY <1>1 DEF HostsOf
  <2>3. /\ \A x \in HostsOf(t) : \E k \in 1 .. Len(t) : x = t[k].host
        /\ \A k \in 1 .. Len(t) : t[k].host \in HostsOf(t)
    BY <1>1 DEF HostsOf
  <2>4. HostsOf(u) \subseteq HostsOf(s) \cup HostsOf(t)
    BY <1>2, <2>1, <2>2, <2>3
  <2>5. HostsOf(s) \subseteq HostsOf(u)
    BY <1>1, <1>4, <2>1, <2>2
  <2>6. HostsOf(t) \subseteq HostsOf(u)
    BY <1>1, <1>3, <2>1, <2>3
  <2> QED BY <2>4, <2>5, <2>6
<1>7. ASSUME Distinct(u)
      PROVE  Distinct(s) /\ Distinct(t) /\ HostsOf(s) \cap HostsOf(t) = {}
  <2>1. Distinct(s)
    BY <1>1, <1>4, <1>7 DEF Distinct
  <2>2. Distinct(t)
    <3>1. SUFFICES ASSUME NEW i \in 1 .. Len(t), NEW j \in 1 .. Len(t), t[i].host = t[j].host
                   PROVE  i = j
      BY <1>1 DEF Distinct
    <3>2. Len(s) + i = Len(s) + j
      BY <1>1, <1>3, <1>7, <3>1 DEF Distinct
    <3> QED BY <1>1, <3>2
  <2>3. ASSUME NEW i \in 1 .. Len(s), NEW j \in 1 .. Len(t), s[i].host = t[j].host
        PROVE  FALSE
    <3>1. u[i].host = u[Len(s) + j].host
      BY <1>1, <2>3
    <3>2. i = Len(s) + j
      BY <1>1, <1>3, <1>4, <1>7, <3>1 DEF Distinct
    <3> QED BY <1>1, <3>2
  <2> QED BY <1>1, <2>1, <2>2, <2>3 DEF HostsOf
<1>8. ASSUME Distinct(s), Distinct(t), HostsOf(s) \cap HostsOf(t) = {}
      PROVE  Distinct(u)
  <2>1. SUFFICES ASSUME NEW i \in 1 .. Len(s) + Len(t), NEW j \in 1 .. Len(s) + Len(t),
                        u[i].host = u[j].host
                 PROVE  i = j
    BY <1>1 DEF Distinct
  <2>2. \A k \in 1 .. Len(s), l \in 1 .. Len(t) : s[k].host # t[l].host
    BY <1>1, <1>8 DEF HostsOf
  <2>3. CASE i \in 1 .. Len(s) /\ j \in 1 .. Len(s)
    BY <1>1, <1>8, <2>1, <2>3 DEF Distinct
  <2>4. CASE i \notin 1 .. Len(s) /\ j \notin 1 .. Len(s)
    <3>1. /\ i - Len(s) \in 1 .. Len(t) /\ u[i] = t[i - Len(s)]
          /\ j - Len(s) \in 1 .. Len(t) /\ u[j] = t[j - Len(s)]
      BY <1>2, <2>4
    <3>2. i - Len(s) = j - Len(s)
      BY <1>1, <1>8, <2>1, <3>1 DEF Distinct
    <3> QED BY <1>1, <3>2
  <2>5. CASE i \in 1 .. Len(s) /\ j \notin 1 .. Len(s)
    BY <1>1, <1>2, <2>1, <2>2, <2>5
  <2>6. CASE i \notin 1 .. Len(s) /\ j \in 1 .. Len(s)
    BY <1>1, <1>2, <2>1, <2>2, <2>6
  <2> QED BY <2>3, <2>4, <2>5, <2>6
<1> QED BY <1>5, <1>6, <1>7, <1>8 DEF u

(* Hosts and records of short sequences. *)
LEMMA ShortRecords ==
    /\ Records(<<>>) = {} /\ HostsOf(<<>>) = {} /\ Distinct(<<>>)
    /\ \A r \in Record : /\ Records(<<r>>) = {r} /\ HostsOf(<<r>>) = {r.host} /\ Distinct(<<r>>)
                         /\ <<r>> \in Seq(Record)
<1>1. DOMAIN <<>> = {}
  BY EmptySeq
<1>3. \A r \in Record : <<r>> \in Seq(Record)
  OBVIOUS
<1>4. Records(<<>>) = {} /\ HostsOf(<<>>) = {} /\ Distinct(<<>>)
  BY <1>1 DEF Records, HostsOf, Distinct
<1>5. ASSUME NEW r \in Record
      PROVE  Records(<<r>>) = {r} /\ HostsOf(<<r>>) = {r.host} /\ Distinct(<<r>>)
  <2> DEFINE q == <<r>>
  <2>1. DOMAIN q = {1} /\ q[1] = r
    OBVIOUS
  <2> HIDE DEF q
  <2>2. Records(q) = {r} /\ HostsOf(q) = {r.host} /\ Distinct(q)
    BY <2>1 DEF Records, HostsOf, Distinct
  <2> QED BY <2>2 DEF q
<1> QED BY <1>3, <1>4, <1>5

(* Appending one record. *)
LEMMA AppendRecords ==
    ASSUME NEW s \in Seq(Record), NEW r \in Record
    PROVE  /\ Append(s, r) = Cat(s, <<r>>)
           /\ Records(Append(s, r)) = Records(s) \cup {r}
           /\ HostsOf(Append(s, r)) = HostsOf(s) \cup {r.host}
           /\ Distinct(Append(s, r)) <=> Distinct(s) /\ r.host \notin HostsOf(s)
<1>1. <<r>> \in Seq(Record) /\ Append(s, r) = Cat(s, <<r>>)
  BY ShortRecords, AppendIsConcat DEF Cat
<1>2. /\ Records(<<r>>) = {r} /\ HostsOf(<<r>>) = {r.host} /\ Distinct(<<r>>)
  BY ShortRecords
<1> DEFINE q == <<r>>
<1> HIDE DEF q
<1>3. /\ Records(Cat(s, q)) = Records(s) \cup Records(q)
      /\ HostsOf(Cat(s, q)) = HostsOf(s) \cup HostsOf(q)
      /\ Distinct(Cat(s, q)) <=> Distinct(s) /\ Distinct(q) /\ HostsOf(s) \cap HostsOf(q) = {}
  BY <1>1, CatRecords DEF q
<1>4. HostsOf(s) \cap {r.host} = {} <=> r.host \notin HostsOf(s)
  OBVIOUS
<1> QED BY <1>1, <1>2, <1>3, <1>4 DEF q

(* s holds no host that t does not, and no host twice unless t does. *)
Thins(s, t) == HostsOf(s) \subseteq HostsOf(t) /\ (Distinct(t) => Distinct(s))

(* A part of a sequence thins it, and thinning a part thins the whole. *)
LEMMA ThinFacts ==
    ASSUME NEW a \in Seq(Record), NEW b \in Seq(Record), NEW c \in Seq(Record)
    PROVE  /\ Thins(a, Cat(a, b)) /\ Thins(b, Cat(a, b))
           /\ Thins(b, c) => Thins(Cat(a, b), Cat(a, c)) /\ Thins(Cat(b, a), Cat(c, a))
<1>1. /\ HostsOf(Cat(a, b)) = HostsOf(a) \cup HostsOf(b)
      /\ Distinct(Cat(a, b)) <=> Distinct(a) /\ Distinct(b) /\ HostsOf(a) \cap HostsOf(b) = {}
  BY CatRecords
<1>2. /\ HostsOf(Cat(b, a)) = HostsOf(b) \cup HostsOf(a)
      /\ Distinct(Cat(b, a)) <=> Distinct(b) /\ Distinct(a) /\ HostsOf(b) \cap HostsOf(a) = {}
  BY CatRecords
<1>3. /\ HostsOf(Cat(a, c)) = HostsOf(a) \cup HostsOf(c)
      /\ Distinct(Cat(a, c)) <=> Distinct(a) /\ Distinct(c) /\ HostsOf(a) \cap HostsOf(c) = {}
  BY CatRecords
<1>4. /\ HostsOf(Cat(c, a)) = HostsOf(c) \cup HostsOf(a)
      /\ Distinct(Cat(c, a)) <=> Distinct(c) /\ Distinct(a) /\ HostsOf(c) \cap HostsOf(a) = {}
  BY CatRecords
<1> QED BY <1>1, <1>2, <1>3, <1>4 DEF Thins

(* Where a write is cut, the two parts make up the whole. *)
LEMMA CutFacts ==
    ASSUME NEW d \in File, NEW s \in Seq(Record), NEW c \in Cuts(s)
    PROVE  \E a, b \in Seq(Record) :
              /\ Cat(a, b) = s /\ Rest(s, c) = b
              /\ PartialWrite(d, s, c).recs = Cat(d.recs, a)
<1>1. c.n \in 0 .. Len(s)
  BY DEF Cuts
<1>2. /\ SubSeq(s, 1, c.n) \in Seq(Record) /\ SubSeq(s, c.n + 1, Len(s)) \in Seq(Record)
      /\ Cat(SubSeq(s, 1, c.n), SubSeq(s, c.n + 1, Len(s))) = s
  BY <1>1, SplitConcat DEF Cat
<1>3. PartialWrite(d, s, c).recs = Cat(d.recs, SubSeq(s, 1, c.n))
  BY DEF PartialWrite, Cat
<1> QED BY <1>2, <1>3, Zenon DEF Rest

(* The file is the front part of what is live. *)
LEMMA FileThinsLive ==
    ASSUME WriterTypeOK
    PROVE  /\ Live \in Seq(Record) /\ disk.recs \in Seq(Record)
           /\ Thins(disk.recs, Live)
<1>1. /\ disk.recs \in Seq(Record) /\ buf \in Seq(Record) /\ line \in Seq(Record)
      /\ chan \in Seq(Record)
  BY DEF WriterTypeOK, File
<1>2. Cat(disk.recs, buf) \in Seq(Record) /\ Cat(line, chan) \in Seq(Record)
  BY <1>1, CatFacts
<1>3. Thins(disk.recs, Cat(disk.recs, buf))
  BY <1>1, ThinFacts
<1>4. Thins(Cat(disk.recs, buf), Cat(Cat(disk.recs, buf), Cat(line, chan)))
  BY <1>2, ThinFacts
<1>5. Cat(Cat(disk.recs, buf), Cat(line, chan)) \in Seq(Record)
  BY <1>2, CatFacts
<1> QED BY <1>1, <1>3, <1>4, <1>5 DEF Live, Thins

(* No step of the writer and no end of the process makes a record out of   *)
(* nothing: what is live afterwards was live before.                       *)
LEMMA WriterThinsLive ==
    ASSUME WriterTypeOK, WriterStep \/ WriterFault \/ ProcessEnds
    PROVE  Thins(Live', Live)
<1>0. PICK D \in Seq(Record) : D = disk.recs
  BY DEF WriterTypeOK, File
<1> DEFINE q == Cat(Cat(D, buf), Cat(line, chan))
<1>1. /\ disk \in File /\ D \in Seq(Record) /\ buf \in Seq(Record) /\ line \in Seq(Record)
      /\ chan \in Seq(Record) /\ <<>> \in Seq(Record)
  BY <1>0, EmptySeq DEF WriterTypeOK, File
<1>2. /\ Cat(D, buf) \in Seq(Record) /\ Cat(line, chan) \in Seq(Record)
      /\ Cat(buf, line) \in Seq(Record) /\ Cat(D, Cat(buf, line)) \in Seq(Record)
  BY <1>1, CatFacts
<1>3. q = Cat(Cat(D, Cat(buf, line)), chan)
  <2>1. Cat(Cat(D, buf), Cat(line, chan)) = Cat(Cat(Cat(D, buf), line), chan)
    BY <1>1, <1>2, CatAssociative
  <2>2. Cat(Cat(D, buf), line) = Cat(D, Cat(buf, line))
    BY <1>1, <1>2, CatAssociative
  <2> QED BY <2>1, <2>2
<1>4. /\ Receiving => Live = q
      /\ ~Receiving => Live = D
      /\ Receiving' => Live' = Cat(Cat(disk'.recs, buf'), Cat(line', chan'))
      /\ ~Receiving' => Live' = disk'.recs
  BY <1>0 DEF Live
<1>5. Thins(Cat(D, buf), q) /\ Thins(D, q)
  <2>1. Thins(Cat(D, buf), q)
    BY <1>2, ThinFacts
  <2>2. Thins(D, Cat(D, buf))
    BY <1>1, ThinFacts
  <2> QED BY <2>1, <2>2 DEF Thins
<1>6. ASSUME NEW a \in Seq(Record), NEW b \in Seq(Record), Cat(a, b) = Cat(buf, line)
      PROVE  Thins(Cat(D, a), q)
  <2>1. Thins(a, Cat(buf, line))
    BY <1>1, <1>6, ThinFacts
  <2>2. Thins(Cat(D, a), Cat(D, Cat(buf, line)))
    BY <1>1, <1>2, <2>1, ThinFacts
  <2>3. Thins(Cat(D, Cat(buf, line)), q)
    BY <1>1, <1>2, <1>3, ThinFacts
  <2> QED BY <2>2, <2>3 DEF Thins
<1>7. ASSUME NEW a \in Seq(Record), NEW b \in Seq(Record), Cat(a, b) = buf
      PROVE  Thins(Cat(D, a), q)
  <2>1. Thins(a, buf)
    BY <1>7, ThinFacts
  <2>2. Thins(Cat(D, a), Cat(D, buf))
    BY <1>1, <2>1, ThinFacts
  <2> QED BY <1>5, <2>2 DEF Thins
<1>8. ASSUME NEW d \in File, NEW r \in Seq(Record), disk' \in AfterDrop(d, r)
      PROVE  disk'.recs \in {d.recs, Cat(d.recs, r)}
  BY <1>8 DEF AfterDrop, Cat
<1>9. \A s : Thins(s, s)
  BY DEF Thins
<1> HIDE DEF q
<1>10. CASE WriterRecv
  <2>1. Receiving /\ Receiving' /\ line = <<>> /\ disk'.recs = D /\ buf' = buf
    BY <1>0, <1>10, EmptySeq DEF WriterRecv, Receiving, WriterTypeOK
  <2>2. Cat(line', chan') = chan
    BY <1>1, <1>10, HeadAndTail DEF WriterRecv
  <2>3. Cat(line, chan) = chan
    BY <1>1, <2>1, CatFacts
  <2> QED BY <1>4, <1>9, <2>1, <2>2, <2>3 DEF q
<1>11. CASE WriterDiscard
  <2>1. /\ Receiving /\ Receiving' /\ disk'.recs = D /\ buf' = buf /\ line' = line
        /\ chan # <<>> /\ chan' = Tail(chan)
    BY <1>0, <1>11 DEF WriterDiscard, Receiving
  <2>2. /\ <<Head(chan)>> \in Seq(Record) /\ chan' \in Seq(Record)
        /\ Cat(<<Head(chan)>>, chan') = chan
    BY <1>1, <2>1, HeadAndTail
  <2>3. Thins(chan', chan)
    BY <2>2, ThinFacts
  <2>4. Thins(Cat(line, chan'), Cat(line, chan))
    BY <1>1, <2>2, <2>3, ThinFacts
  <2>5. Cat(line, chan') \in Seq(Record)
    BY <1>1, <2>2, CatFacts
  <2>6. Thins(Cat(Cat(D, buf), Cat(line, chan')), q)
    BY <1>2, <2>4, <2>5, ThinFacts DEF q
  <2> QED BY <1>4, <2>1, <2>6
<1>12. CASE SerializeFails
  <2>1. Receiving /\ Receiving' /\ disk'.recs = D /\ buf' = buf /\ line' = <<>> /\ chan' = chan
    BY <1>0, <1>12 DEF SerializeFails, Receiving
  <2>2. Cat(line', chan') = chan /\ Thins(chan, Cat(line, chan))
    BY <1>1, <2>1, CatFacts, ThinFacts
  <2>3. Thins(Cat(Cat(D, buf), chan), q)
    BY <1>1, <1>2, <2>2, ThinFacts DEF q
  <2> QED BY <1>4, <2>1, <2>2, <2>3
<1>13. CASE WriteOk
  <2>1. /\ Receiving /\ Receiving' /\ line' = <<>> /\ chan' = chan
        /\ Len(line) = 1 /\ Len(buf) \in Nat
    BY <1>1, <1>13, LenProperties DEF WriteOk, Receiving, WriterTypeOK
  <2>2. PICK k \in {0, Len(buf), Len(buf) + 1} :
          /\ disk' = AppendTo(disk, SubSeq(buf \o line, 1, k))
          /\ buf' = SubSeq(buf \o line, k + 1, Len(buf) + 1)
    BY <1>13 DEF WriteOk
  <2>3. Len(Cat(buf, line)) = Len(buf) + 1
    <3>1. Len(Cat(buf, line)) = Len(buf) + Len(line)
      BY <1>1, CatFacts
    <3> QED BY <2>1, <3>1
  <2> DEFINE a == SubSeq(Cat(buf, line), 1, k)
  <2>4. k \in 0 .. Len(Cat(buf, line))
    BY <2>1, <2>2, <2>3
  <2>5. a \in Seq(Record) /\ buf' \in Seq(Record) /\ Cat(a, buf') = Cat(buf, line)
    BY <1>2, <2>2, <2>3, <2>4, SplitConcat DEF Cat
  <2>6. disk'.recs = Cat(D, a)
    BY <1>0, <1>1, <2>2, <2>5, AppendToFacts DEF Cat
  <2> HIDE DEF a
  <2>7. Cat(Cat(D, a), buf') = Cat(D, Cat(buf, line))
    BY <1>1, <2>5, CatAssociative
  <2>8. Cat(line', chan') = chan
    BY <1>1, <2>1, CatFacts
  <2>9. Live' = q
    BY <1>3, <1>4, <2>1, <2>6, <2>7, <2>8
  <2> QED BY <1>4, <1>9, <2>1, <2>9
<1>14. CASE WriteFails
  <2>1. Receiving /\ Receiving' /\ line' = <<>> /\ chan' = chan
    BY <1>14 DEF WriteFails, Receiving
  <2>2. Cat(line', chan') = chan
    BY <1>1, <2>1, CatFacts
  <2>3. CASE \E c \in Cuts(buf) : disk' = PartialWrite(disk, buf, c) /\ buf' = Rest(buf, c)
    <3>1. PICK c \in Cuts(buf) : disk' = PartialWrite(disk, buf, c) /\ buf' = Rest(buf, c)
      BY <2>3
    <3>2. PICK a, b \in Seq(Record) : /\ Cat(a, b) = buf /\ buf' = b
                                      /\ disk'.recs = Cat(D, a)
      BY <1>0, <1>1, <3>1, CutFacts
    <3>3. Cat(Cat(D, a), b) = Cat(D, Cat(a, b))
      BY <1>1, <3>2, CatAssociative
    <3>4. Live' = Cat(Cat(D, buf), chan)
      BY <1>4, <2>1, <2>2, <3>2, <3>3
    <3>5. Thins(Cat(Cat(D, buf), chan), q)
      BY <1>1, <1>2, ThinFacts DEF q
    <3> QED BY <1>4, <2>1, <3>4, <3>5
  <2>4. CASE \E c \in Cuts(line) :
               disk' = PartialWrite(AppendTo(disk, buf), line, c) /\ buf' = <<>>
    <3>1. PICK c \in Cuts(line) :
             disk' = PartialWrite(AppendTo(disk, buf), line, c) /\ buf' = <<>>
      BY <2>4
    <3>2. AppendTo(disk, buf) \in File /\ AppendTo(disk, buf).recs = Cat(D, buf)
      BY <1>0, <1>1, AppendToFacts DEF Cat
    <3>3. PICK a, b \in Seq(Record) : /\ Cat(a, b) = line
                                      /\ disk'.recs = Cat(Cat(D, buf), a)
      BY <1>1, <3>1, <3>2, CutFacts
    <3>4. Cat(Cat(D, buf), a) = Cat(D, Cat(buf, a)) /\ Cat(Cat(D, buf), line) = Cat(D, Cat(buf, line))
      BY <1>1, <3>3, CatAssociative
    <3>5. Cat(Cat(D, buf), a) \in Seq(Record) /\ Thins(Cat(Cat(D, buf), a), Cat(Cat(D, buf), line))
      BY <1>1, <1>2, <3>3, CatFacts, ThinFacts
    <3>6. Live' = Cat(Cat(Cat(D, buf), a), chan)
      BY <1>4, <2>1, <2>2, <3>1, <3>3, <3>5, CatFacts
    <3>7. q = Cat(Cat(Cat(D, buf), line), chan)
      BY <1>3, <3>4
    <3>8. Cat(Cat(D, buf), line) \in Seq(Record)
      BY <1>2, <3>4
    <3>9. Thins(Live', q)
      BY <1>1, <3>5, <3>6, <3>7, <3>8, ThinFacts
    <3> QED BY <1>4, <2>1, <3>9
  <2> QED BY <1>14, <2>3, <2>4 DEF WriteFails
<1>15. CASE FlushOk
  <2>1. Receiving /\ ~Receiving' /\ disk'.recs = Cat(D, buf)
    BY <1>0, <1>1, <1>15, AppendToFacts DEF FlushOk, Receiving, Cat
  <2> QED BY <1>4, <1>5, <2>1
<1>16. CASE FlushFails
  <2>1. Receiving /\ ~Receiving'
    BY <1>16 DEF FlushFails, Receiving
  <2>2. PICK c \in Cuts(buf) : disk' \in AfterDrop(PartialWrite(disk, buf, c), Rest(buf, c))
    BY <1>16 DEF FlushFails
  <2>3. PICK a, b \in Seq(Record) : /\ Cat(a, b) = buf /\ Rest(buf, c) = b
                                    /\ PartialWrite(disk, buf, c).recs = Cat(D, a)
    BY <1>0, <1>1, CutFacts
  <2>4. PartialWrite(disk, buf, c) \in File
    BY <1>1, PartialWriteFacts
  <2>5. disk'.recs \in {Cat(D, a), Cat(Cat(D, a), b)}
    BY <1>8, <2>2, <2>3, <2>4
  <2>6. Cat(Cat(D, a), b) = Cat(D, buf)
    BY <1>1, <2>3, CatAssociative
  <2> QED BY <1>4, <1>5, <1>7, <2>1, <2>3, <2>5, <2>6
<1>17. CASE EndPoisoned \/ WriterPanics
  <2>1. Receiving /\ ~Receiving' /\ disk' \in AfterDrop(disk, buf)
    BY <1>17 DEF EndPoisoned, WriterPanics, Receiving
  <2>2. disk'.recs \in {D, Cat(D, buf)}
    BY <1>0, <1>1, <1>8, <2>1
  <2> QED BY <1>4, <1>5, <2>1, <2>2
<1>18. CASE ProcessEnds
  <2>1. ~Receiving' /\ disk' \in CrashFiles
    BY <1>18 DEF ProcessEnds, Receiving
  <2>2. CASE disk' = disk
    BY <1>0, <1>4, <1>5, <1>9, <2>1, <2>2
  <2>3. CASE Receiving /\ \E c \in Cuts(buf \o line) : disk' = PartialWrite(disk, buf \o line, c)
    <3>1. PICK c \in Cuts(Cat(buf, line)) : disk' = PartialWrite(disk, Cat(buf, line), c)
      BY <2>3 DEF Cat
    <3>2. PICK a, b \in Seq(Record) : /\ Cat(a, b) = Cat(buf, line)
                                      /\ disk'.recs = Cat(D, a)
      <4> DEFINE s == Cat(buf, line)
      <4>1. s \in Seq(Record) /\ c \in Cuts(s) /\ disk \in File
        BY <1>1, <1>2, <3>1
      <4> HIDE DEF s
      <4>2. PICK a, b \in Seq(Record) : /\ Cat(a, b) = s
                                        /\ PartialWrite(disk, s, c).recs = Cat(disk.recs, a)
        BY <4>1, CutFacts
      <4> QED BY <1>0, <3>1, <4>2 DEF s
    <3> QED BY <1>4, <1>6, <2>1, <2>3, <3>2
  <2> QED BY <2>1, <2>2, <2>3 DEF CrashFiles
<1> QED
  BY <1>10, <1>11, <1>12, <1>13, <1>14, <1>15, <1>16, <1>17, <1>18, Zenon
  DEF WriterStep, WriterFault

(* A record that the channel accepts is the one record that becomes live. *)
LEMMA SendExtendsLive ==
    ASSUME WriterTypeOK, NEW r \in Record, Send(r)
    PROVE  /\ HostsOf(Live') = HostsOf(Live) \cup {r.host}
           /\ Distinct(Live) /\ r.host \notin HostsOf(Live) => Distinct(Live')
<1>1. /\ disk.recs \in Seq(Record) /\ buf \in Seq(Record) /\ line \in Seq(Record)
      /\ chan \in Seq(Record)
  BY DEF WriterTypeOK, File
<1>2. Cat(disk.recs, buf) \in Seq(Record) /\ Cat(line, chan) \in Seq(Record)
  BY <1>1, CatFacts
<1>3. /\ Live = Cat(Cat(disk.recs, buf), Cat(line, chan))
      /\ Live' = Cat(Cat(disk.recs, buf), Cat(line, Append(chan, r)))
  BY DEF Send, Live, Receiving
<1>4. Cat(line, Append(chan, r)) = Append(Cat(line, chan), r)
  BY <1>1, CatAppend, Zenon
<1>5. Cat(Cat(disk.recs, buf), Append(Cat(line, chan), r)) = Append(Live, r)
  BY <1>2, <1>3, CatAppend, Zenon
<1>6. Live' = Append(Live, r) /\ Live \in Seq(Record)
  BY <1>3, <1>4, <1>5, FileThinsLive
<1> QED BY <1>6, AppendRecords

(* Steps that leave the stream alone, and closing the channel, leave Live alone. *)
LEMMA LiveUnchanged ==
    ASSUME DropTx \/ UNCHANGED writerVars
    PROVE  Live' = Live
  BY DEF DropTx, writerVars, Live, Receiving

-------------------------------------------------------------------------------
(* Who may still report. *)

(* Remote hosts that are not admitted, not finished or not joined yet. *)
Remote == pending \cup running \cup finished

(* Every run over the file is asked for the same hosts. *)
OneList == \A A, B \in HostLists : A = B

(***************************************************************************)
(* The strengthening of FileStaysClean.  A record on its way counts like   *)
(* one in the file: no host has two.  A remote host is in one of three     *)
(* sets and leaves them with its report, so a host that may still report,  *)
(* or whose report is being handed over, has no record yet; the local scan *)
(* starts only for an alias without one.  When every run is asked for the  *)
(* same hosts, no other host has a record.                                 *)
(***************************************************************************)
ClaimInv ==
    /\ Distinct(Live)
    /\ Remote \subseteq hosts \ LocalAlias
    /\ pending \cap finished = {} /\ running \cap finished = {}
    /\ local # <<>> => Head(local) \in hosts \cap LocalAlias
    /\ HostsOf(out) \subseteq hosts \ Remote
    /\ Streaming /\ pc \notin {"open", "done", "refused"} =>
          (Remote \cup HostsOf(out)) \cap HostsOf(Live) = {}
    /\ Streaming /\ pc \in {"local", "localScan"} => HostsOf(Live) \subseteq HostsOf(opened)
    /\ pc = "localScan" => LocalDue
    /\ OneList => HostsOf(Live) \subseteq hosts

(* The record a report becomes. *)
LEMMA AcceptedRecord ==
    ASSUME NEW h \in Address, NEW r \in Reports, NEW next, Accept(h, r, next)
    PROVE  LET rec == [host |-> h, report |-> r] IN
           /\ rec \in Record /\ rec.host = h /\ rec.report = r
           /\ HostsOf(out') = {h} /\ Records(out') = {rec} /\ Len(out') = 1
           /\ received' = received \cup {rec}
           /\ agg' = add(agg, r) /\ pc' = "send" /\ back' = next
<1> DEFINE rec == [host |-> h, report |-> r]
<1>1. rec \in Record /\ rec.host = h /\ rec.report = r
  BY DEF Record
<1>2. out' = <<rec>> /\ received' = received \cup {rec} /\ agg' = add(agg, r)
      /\ pc' = "send" /\ back' = next
  BY DEF Accept
<1> HIDE DEF rec
<1>3. HostsOf(<<rec>>) = {rec.host} /\ Records(<<rec>>) = {rec} /\ Len(<<rec>>) = 1
  BY <1>1, ShortRecords
<1> QED BY <1>1, <1>2, <1>3 DEF rec

(* The record that is being handed over, if any: o stands for out, before or after a step. *)
LEMMA HandedOver ==
    \A o \in Seq(Record) :
        /\ Len(o) = 0 => o = <<>> /\ HostsOf(o) = {} /\ Records(o) = {}
        /\ Len(o) = 1 => /\ Head(o) \in Record /\ HostsOf(o) = {Head(o).host}
                         /\ Records(o) = {Head(o)}
<1>1. SUFFICES ASSUME NEW o \in Seq(Record)
               PROVE  /\ Len(o) = 0 => o = <<>> /\ HostsOf(o) = {} /\ Records(o) = {}
                      /\ Len(o) = 1 => /\ Head(o) \in Record /\ HostsOf(o) = {Head(o).host}
                                       /\ Records(o) = {Head(o)}
  BY Zenon
<1>2. CASE Len(o) = 1
  <2>1. Head(o) \in Record /\ o = <<Head(o)>>
    BY <1>2
  <2> QED BY <1>2, <2>1, ShortRecords
<1>3. CASE Len(o) = 0
  <2>1. o = <<>>
    BY <1>3
  <2> QED BY <1>3, <2>1, ShortRecords
<1> QED BY <1>2, <1>3

(* No step gives a host a second record: whoever may still report has none. *)
LEMMA ClaimStep ==
    ASSUME TypeOK, TypeOK', SlotInv, PlaceInv, ClaimInv, [Next]_vars
    PROVE  ClaimInv'
<1> USE DEF listVars, slotVars, reportVars, signalVars, processVars, ClaimInv, Remote
<1>0. WriterTypeOK /\ pending \cap running = {}
  BY DEF TypeOK, SlotInv
<1>h. /\ pc # "send" => HostsOf(out) = {}
      /\ pc' # "send" => HostsOf(out') = {}
  BY HandedOver DEF TypeOK
<1>l. UNCHANGED writerVars => Live' = Live /\ opened' = opened
  BY LiveUnchanged DEF writerVars
<1>e. ASSUME ProcessEnds, pc' \in {pc, "done", "refused"}, UNCHANGED <<listVars, slotVars, out>>
      PROVE  ClaimInv'
  <2>1. HostsOf(Live') \subseteq HostsOf(Live) /\ Distinct(Live')
    BY <1>0, <1>e, WriterThinsLive DEF Thins
  <2>2. opened' = opened
    BY <1>e DEF ProcessEnds
  <2> QED BY <1>e, <2>1, <2>2 DEF LocalDue
<1>1. CASE UNCHANGED vars
  BY <1>1, <1>l DEF vars, LocalDue
<1>2. CASE OpenOutput
  <2>1. /\ Live = disk.recs /\ Live' = disk.recs
    <3>1. Live = disk.recs
      BY <1>2 DEF OpenOutput, PlaceInv, Live, Receiving
    <3>2. disk'.recs = disk.recs /\ disk.recs \in Seq(Record)
      BY <1>0, <1>2 DEF OpenOutput, Terminated, WriterTypeOK, File
    <3>3. /\ buf' = <<>> /\ line' = <<>> /\ chan' = <<>> /\ Receiving'
      BY <1>2 DEF OpenOutput, PlaceInv, Receiving
    <3>4. Cat(disk.recs, <<>>) = disk.recs /\ Cat(<<>>, <<>>) = <<>>
      BY <3>2, CatFacts, EmptySeq
    <3> QED BY <3>1, <3>2, <3>3, <3>4 DEF Live
  <2>2. /\ running' = {} /\ finished' = {} /\ pending' = pending \ HostsOf(disk.recs)
        /\ opened' = disk.recs /\ pc' = "local" /\ UNCHANGED <<hosts, local>>
    BY <1>2 DEF OpenOutput, SlotInv, Idle
  <2> QED BY <1>h, <2>1, <2>2
<1>3. CASE RefuseResume \/ OpenFails
  BY <1>3, <1>e DEF RefuseResume, OpenFails, GiveUp
<1>4. CASE NoStream \/ LocalSkip \/ LocalStart
  <2>1. /\ UNCHANGED <<hosts, local, pending, running, finished, out>>
        /\ Live' = Live /\ opened' = opened
    BY <1>4, <1>l DEF NoStream, LocalSkip, LocalStart, Goto
  <2>2. \/ ~Streaming /\ pc' = "local"
        \/ pc = "local" /\ pc' = "remote"
        \/ pc = "local" /\ pc' = "localScan" /\ LocalDue
    BY <1>4 DEF NoStream, LocalSkip, LocalStart, Goto
  <2> QED BY <2>1, <2>2 DEF LocalDue
<1>5. CASE \E r \in Reports : LocalReport(r)
  <2>1. PICK r \in Reports : LocalReport(r)
    BY <1>5
  <2>2. Head(local) \in hosts \cap LocalAlias /\ Head(local) \notin HostsOf(opened)
    BY <2>1 DEF LocalReport, LocalDue
  <2>3. Head(local) \in Address
    BY <2>2, AddressAssumption
  <2>4. HostsOf(out') = {Head(local)} /\ pc' = "send"
    BY <2>1, <2>3, AcceptedRecord DEF LocalReport
  <2>5. /\ UNCHANGED <<hosts, local, pending, running, finished>> /\ Live' = Live /\ pc = "localScan"
    BY <2>1, <1>l DEF LocalReport
  <2> QED BY <2>2, <2>4, <2>5
<1>6. CASE LocalInterrupted
  BY <1>6, <1>l DEF LocalInterrupted
<1>7. CASE RemoteStart
  BY <1>7, <1>l DEF RemoteStart, Goto
<1>8. CASE FillCheck
  BY <1>8, <1>l DEF FillCheck, Goto
<1>9. CASE NextCheck
  BY <1>9, <1>l DEF NextCheck, Goto
<1>10. CASE \E h \in Address : FillSpawn(h)
  <2>1. PICK h \in Address : FillSpawn(h)
    BY <1>10
  <2>2. /\ h \in pending /\ pending' = pending \ {h} /\ running' = running \cup {h}
        /\ UNCHANGED <<hosts, local, finished, out>> /\ Live' = Live /\ pc' = "fill"
        /\ pc = "fillSpawn"
    BY <2>1, <1>l DEF FillSpawn, Spawn
  <2> QED BY <1>0, <2>2
<1>11. CASE \E h \in Address : NextSpawn(h)
  <2>1. PICK h \in Address : NextSpawn(h)
    BY <1>11
  <2>2. /\ h \in pending /\ pending' = pending \ {h} /\ running' \in {running, running \cup {h}}
        /\ UNCHANGED <<hosts, local, finished, out>> /\ Live' = Live /\ pc' = "select"
        /\ pc = "nextSpawn"
    BY <2>1, <1>l DEF NextSpawn, Spawn
  <2> QED BY <1>0, <2>2
<1>12. CASE AllJoined \/ SelectShutdown
  BY <1>12, <1>l DEF AllJoined, SelectShutdown, Goto
<1>13. CASE \E h \in Address : JoinNothing(h) \/ TeardownNothing(h)
  <2>1. PICK h \in Address : JoinNothing(h) \/ TeardownNothing(h)
    BY <1>13
  <2>2. /\ finished' = finished \ {h} /\ UNCHANGED <<hosts, local, pending, running, out>>
        /\ Live' = Live /\ pc \in {"select", "teardown"} /\ pc' \in {"next", "teardown"}
    BY <2>1, <1>l DEF JoinNothing, TeardownNothing, Join
  <2> QED BY <2>2
<1>14. CASE \E h \in Address, r \in Reports : JoinReport(h, r) \/ TeardownReport(h, r)
  <2>1. PICK h \in Address, r \in Reports : JoinReport(h, r) \/ TeardownReport(h, r)
    BY <1>14
  <2>2. /\ h \in finished /\ finished' = finished \ {h}
        /\ UNCHANGED <<hosts, local, pending, running>>
        /\ Live' = Live /\ pc \in {"select", "teardown"}
    BY <2>1, <1>l DEF JoinReport, TeardownReport, Join
  <2>3. HostsOf(out') = {h} /\ pc' = "send"
    BY <2>1, AcceptedRecord DEF JoinReport, TeardownReport
  <2> QED BY <1>0, <2>2, <2>3
<1>15. CASE SecondInterrupt \/ GraceExpired
  <2>1. /\ running' = {} /\ finished' = {} /\ UNCHANGED <<hosts, local, pending, out>>
        /\ Live' = Live /\ pc = "teardown" /\ pc' = "close"
    BY <1>15, <1>l DEF SecondInterrupt, GraceExpired, AbortAll
  <2> QED BY <2>1
<1>16. CASE SendReport \/ SendFails
  <2>1. /\ pc = "send" /\ pc' = back /\ UNCHANGED <<hosts, local, pending, running, finished>>
        /\ Streaming => Send(Head(out)) \/ UNCHANGED writerVars
        /\ ~Streaming => UNCHANGED writerVars
    BY <1>16 DEF SendReport, SendFails, SendClosed
  <2>2. pc' \in {"remote", "next", "teardown"}
    BY <2>1 DEF TypeOK, PlaceInv
  <2>3. Head(out) \in Record /\ HostsOf(out) = {Head(out).host}
    BY <2>1, HandedOver DEF TypeOK
  <2>4. CASE UNCHANGED writerVars
    BY <1>h, <1>l, <2>1, <2>2, <2>4
  <2>5. CASE Streaming /\ Send(Head(out))
    <3>1. /\ HostsOf(Live') = HostsOf(Live) \cup {Head(out).host}
          /\ Distinct(Live) /\ Head(out).host \notin HostsOf(Live) => Distinct(Live')
      BY <1>0, <2>3, <2>5, SendExtendsLive
    <3> QED BY <1>h, <2>1, <2>2, <2>3, <2>5, <3>1
  <2> QED BY <2>1, <2>4, <2>5
<1>17. CASE CloseStream
  <2>1. Live' = Live
    BY <1>17, LiveUnchanged DEF CloseStream, CloseTx
  <2> QED BY <1>17, <2>1 DEF CloseStream
<1>18. CASE WriterJoined \/ WriterFailed \/ DrainTimeout \/ OutputDone \/ OutputFails \/ ReaderGone
  BY <1>18, <1>e DEF WriterJoined, WriterFailed, DrainTimeout, OutputDone, OutputFails, ReaderGone,
                     Return
<1>19. CASE Signal \/ ThirdSignal \/ Watchdog \/ Kill
  <2>1. CASE Signal
    BY <2>1, <1>l DEF Signal, LocalDue
  <2>2. CASE ThirdSignal \/ Watchdog \/ Kill
    BY <2>2, <1>e DEF ThirdSignal, Watchdog, Kill, ForcedExit
  <2> QED BY <1>19, <2>1, <2>2
<1>20. CASE OperatorTruncates
  <2>1. disk'.recs = disk.recs /\ UNCHANGED <<chan, writer, line, buf, opened>>
    BY <1>0, <1>20 DEF OperatorTruncates, WriterTypeOK, File
  <2>2. Live' = Live
    BY <2>1 DEF Live, Receiving
  <2> QED BY <1>20, <2>1, <2>2 DEF OperatorTruncates, LocalDue
<1>21. CASE Rerun
  <2>1. /\ running' = {} /\ finished' = {} /\ pending' = hosts' \ LocalAlias
        /\ local' = <<>> \/ \E h \in hosts' \cap LocalAlias : local' = <<h>>
        /\ pc' = "open"
    BY <1>21 DEF Rerun, FreshMain, StartWith
  <2>2. Live' = disk.recs
    BY <1>21 DEF Rerun, FreshWriter, Live, Receiving
  <2>3. Distinct(Live')
    BY <1>0, <2>2, FileThinsLive DEF Thins
  <2>4. local' # <<>> => Head(local') \in hosts' \cap LocalAlias
    BY <2>1
  <2>5. OneList => HostsOf(Live') \subseteq hosts'
    <3>1. hosts \in HostLists /\ hosts' \in HostLists
      BY DEF TypeOK
    <3>2. HostsOf(Live') \subseteq HostsOf(Live)
      BY <1>0, <2>2, FileThinsLive DEF Thins
    <3> QED BY <3>1, <3>2 DEF OneList
  <2> QED BY <1>h, <2>1, <2>3, <2>4, <2>5
<1>22. CASE \E h \in Address : TaskEnds(h)
  <2>1. PICK h \in Address : TaskEnds(h)
    BY <1>22
  <2>2. /\ h \in running /\ running' = running \ {h} /\ finished' = finished \cup {h}
        /\ UNCHANGED <<pc, hosts, local, pending, out>> /\ Live' = Live /\ opened' = opened
    BY <2>1, <1>l DEF TaskEnds
  <2> QED BY <1>0, <2>2 DEF LocalDue
<1>23. CASE WriterTask \/ WriterTaskFails \/ Ended
  <2>1. CASE WriterTask \/ WriterTaskFails
    <3>1. HostsOf(Live') \subseteq HostsOf(Live) /\ Distinct(Live')
      BY <1>0, <2>1, WriterThinsLive DEF Thins, WriterTask, WriterTaskFails
    <3>2. opened' = opened
      BY <2>1 DEF WriterTask, WriterTaskFails, WriterStep, WriterFault, WriterRecv,
        WriterDiscard, SerializeFails, WriteOk, WriteFails, FlushOk, FlushFails,
        EndPoisoned, WriterPanics
    <3> QED BY <2>1, <3>1, <3>2 DEF WriterTask, WriterTaskFails, LocalDue
  <2>2. CASE Ended
    BY <2>2, <1>l DEF Ended, vars, LocalDue
  <2> QED BY <1>23, <2>1, <2>2
<1> QED
  BY <1>1, <1>2, <1>3, <1>4, <1>5, <1>6, <1>7, <1>8, <1>9, <1>10, <1>11, <1>12, <1>13, <1>14, <1>15, <1>16, <1>17, <1>18, <1>19, <1>20, <1>21, <1>22, <1>23, Zenon
  DEF Next, MainTask, Start, LocalScan, Admission, Collect, Deliver, Environment

-------------------------------------------------------------------------------
(* What the aggregator knows of the records. *)

(* A sequence of records has at most as many hosts as records, and as many if they differ. *)
LEMMA HostCount ==
    ASSUME NEW s \in Seq(Record)
    PROVE  /\ IsFiniteSet(HostsOf(s)) /\ Cardinality(HostsOf(s)) \in Nat
           /\ Cardinality(HostsOf(s)) <= Len(s)
           /\ Distinct(s) => Cardinality(HostsOf(s)) = Len(s)
<1> DEFINE H == HostsOf(s)
           f == [i \in 1 .. Len(s) |-> s[i].host]
<1>1. Len(s) \in Nat /\ DOMAIN s = 1 .. Len(s)
  BY LenProperties
<1>2. f \in Surjection(1 .. Len(s), H)
  BY <1>1 DEF Surjection, HostsOf
<1>3. IsFiniteSet(1 .. Len(s)) /\ Cardinality(1 .. Len(s)) = Len(s)
  BY <1>1, FS_Interval
<1>4. Distinct(s) => f \in Injection(1 .. Len(s), H)
  BY <1>1, <1>2 DEF Surjection, Injection, IsInjective, Distinct
<1> HIDE DEF H, f
<1>5. /\ IsFiniteSet(H) /\ Cardinality(H) <= Cardinality(1 .. Len(s))
      /\ Cardinality(H) = Cardinality(1 .. Len(s)) <=> f \in Injection(1 .. Len(s), H)
  BY <1>2, <1>3, FS_Surjection
<1>6. Cardinality(H) \in Nat
  BY <1>5, FS_CardinalityType
<1> QED BY <1>3, <1>4, <1>5, <1>6 DEF H

(* a is at least as bad as every report of the records in S, and no        *)
(* coverage flag of a is without such a report.                            *)
Covers(a, S) ==
    /\ \A rec \in S : /\ a.verdict \in Verdict /\ rank(rec.report.verdict) <= rank(a.verdict)
                      /\ rec.report.scanners_failed => a.scanners_failed
                      /\ rec.report.non_root => a.non_root
                      /\ rec.report.warnings => a.warnings
    /\ a.scanners_failed => \E rec \in S : rec.report.scanners_failed
    /\ a.non_root => \E rec \in S : rec.report.non_root
    /\ a.warnings => \E rec \in S : rec.report.warnings

(* OutcomeBuilder::add covers one more report. *)
LEMMA AddCovers ==
    ASSUME NEW a \in Aggregate, NEW S \in SUBSET Record, Covers(a, S),
           NEW rec \in Record
    PROVE  /\ Covers(add(a, rec.report), S \cup {rec})
           /\ add(a, rec.report).reports_seen = a.reports_seen + 1
<1> DEFINE r == rec.report
           b == add(a, r)
<1>1. /\ r \in Report /\ r.verdict \in Verdict
      /\ \A x \in S : x.report \in Report /\ x.report.verdict \in Verdict
  <2>1. \A x \in Record : x.report \in Report
    BY ReportsAssumption DEF Record
  <2>2. \A x \in Report : x.verdict \in Verdict
    BY DEF Report
  <2> QED BY <2>1, <2>2
<1>2. /\ b.verdict = IF a.verdict = NoVerdict THEN r.verdict ELSE worse(a.verdict, r.verdict)
      /\ b.scanners_failed = (a.scanners_failed \/ r.scanners_failed)
      /\ b.non_root = (a.non_root \/ r.non_root)
      /\ b.warnings = (a.warnings \/ r.warnings)
      /\ b.reports_seen = a.reports_seen + 1
  BY DEF add
<1>3. /\ a.verdict \in Verdict \cup {NoVerdict}
      /\ a.scanners_failed \in BOOLEAN /\ a.non_root \in BOOLEAN /\ a.warnings \in BOOLEAN
      /\ r.scanners_failed \in BOOLEAN /\ r.non_root \in BOOLEAN /\ r.warnings \in BOOLEAN
  BY <1>1 DEF Aggregate, Report
<1> HIDE DEF b
<1>4. /\ b.verdict \in Verdict /\ rank(r.verdict) <= rank(b.verdict)
      /\ a.verdict \in Verdict => rank(a.verdict) <= rank(b.verdict)
  BY <1>1, <1>2, <1>3 DEF Verdict, NoVerdict, worse, rank
<1>5. \A x \in S : rank(x.report.verdict) <= rank(b.verdict)
  <2>1. SUFFICES ASSUME NEW x \in S PROVE rank(x.report.verdict) <= rank(b.verdict)
    BY Zenon
  <2>2. a.verdict \in Verdict /\ rank(x.report.verdict) <= rank(a.verdict)
    BY DEF Covers
  <2>3. rank(x.report.verdict) \in 0 .. 2 /\ rank(a.verdict) \in 0 .. 2 /\ rank(b.verdict) \in 0 .. 2
    BY <1>1, <1>4, <2>2, WorseFacts
  <2> QED BY <1>4, <2>2, <2>3
<1>6. /\ \A x \in S \cup {rec} :
            /\ x.report.scanners_failed => b.scanners_failed
            /\ x.report.non_root => b.non_root
            /\ x.report.warnings => b.warnings
      /\ b.scanners_failed => \E x \in S \cup {rec} : x.report.scanners_failed
      /\ b.non_root => \E x \in S \cup {rec} : x.report.non_root
      /\ b.warnings => \E x \in S \cup {rec} : x.report.warnings
  BY <1>2, <1>3 DEF Covers
<1> QED BY <1>2, <1>4, <1>5, <1>6 DEF Covers, b

(* What resume_scan feeds the aggregator covers the records it has read. *)
LEMMA ResumeCovers ==
    ASSUME NEW recs \in Seq(Record)
    PROVE  /\ Covers(ResumedAggregate(recs), Records(recs))
           /\ ResumedAggregate(recs).reports_seen = Len(recs)
<1> DEFINE rs == ReportsOf(recs)
           S == Fed(rs)
           b == AggregateOf(rs)
<1>2. \A i \in DOMAIN recs : recs[i] \in Record /\ recs[i].report \in Report
  <2>1. \A i \in DOMAIN recs : recs[i] \in Record
    OBVIOUS
  <2>2. \A x \in Record : x.report \in Report
    BY ReportsAssumption DEF Record
  <2> QED BY <2>1, <2>2
<1>3. /\ DOMAIN rs = DOMAIN recs /\ \A i \in DOMAIN recs : rs[i] = recs[i].report
      /\ Len(rs) = Len(recs)
  <2>1. DOMAIN recs = 1 .. Len(recs) /\ Len(recs) \in Nat
    BY LenProperties
  <2>2. rs = [i \in 1 .. Len(recs) |-> recs[i].report]
    BY <2>1 DEF ReportsOf
  <2>3. rs \in Seq(Report)
    BY <1>2, <2>1, <2>2, SeqDef
  <2>4. DOMAIN rs = 1 .. Len(rs) /\ Len(rs) \in Nat
    BY <2>3, LenProperties
  <2>5. DOMAIN rs = 1 .. Len(recs)
    BY <2>2
  <2>6. Len(rs) = Len(recs)
    <3>1. \A m, n \in Nat : 1 .. m = 1 .. n => m = n
      OBVIOUS
    <3> QED BY <2>1, <2>4, <2>5, <3>1, Zenon
  <2> QED BY <2>1, <2>2, <2>6
<1>4. S \in SUBSET Report /\ S = {rec.report : rec \in Records(recs)}
  BY <1>2, <1>3 DEF Fed, Records
<1>5. /\ b.verdict = (IF S = {} THEN NoVerdict ELSE Worst(S))
      /\ b.scanners_failed = (\E r \in S : r.scanners_failed)
      /\ b.non_root = (\E r \in S : r.non_root)
      /\ b.warnings = (\E r \in S : r.warnings)
      /\ b.reports_seen = Len(rs)
  BY DEF AggregateOf, Worst, Fed
<1> HIDE DEF S, b, rs
<1>6. \A rec \in Records(recs) :
         b.verdict \in Verdict /\ rank(rec.report.verdict) <= rank(b.verdict)
  <2>1. SUFFICES ASSUME NEW rec \in Records(recs)
                 PROVE  b.verdict \in Verdict /\ rank(rec.report.verdict) <= rank(b.verdict)
    BY Zenon
  <2>2. S # {} /\ rec.report \in S /\ rec.report.verdict \in Verdict
    BY <1>4 DEF Report
  <2>3. Worst(S) \in Verdict /\ rank(Worst(S)) >= rank(rec.report.verdict)
    BY <1>4, <2>2, WorstFacts
  <2>4. rank(rec.report.verdict) \in 0 .. 2 /\ rank(Worst(S)) \in 0 .. 2
    BY <2>2, <2>3, WorseFacts
  <2> QED BY <1>5, <2>2, <2>3, <2>4
<1>7. \A rec \in Records(recs) :
         /\ rec.report.scanners_failed => b.scanners_failed
         /\ rec.report.non_root => b.non_root
         /\ rec.report.warnings => b.warnings
  BY <1>4, <1>5
<1>8. /\ b.scanners_failed => \E rec \in Records(recs) : rec.report.scanners_failed
      /\ b.non_root => \E rec \in Records(recs) : rec.report.non_root
      /\ b.warnings => \E rec \in Records(recs) : rec.report.warnings
  BY <1>4, <1>5
<1> QED BY <1>3, <1>5, <1>6, <1>7, <1>8 DEF Covers, ResumedAggregate, b, rs

Answered == {rec.host : rec \in received}

(***************************************************************************)
(* The books of a run: every record resumed, sent or being sent is one     *)
(* that the aggregator has counted, and what it has counted is exactly     *)
(* those and the failed sends, unless the run gave up while it resumed; it *)
(* has counted at least one report for each host that answered, and covers *)
(* every report accepted.                                                  *)
(***************************************************************************)
LedgerInv ==
    /\ Records(opened) \cup Records(sent) \cup Records(out) \subseteq received
    /\ Streaming /\ pc # "refused" =>
          agg.reports_seen = Len(opened) + Len(sent) + Len(out) + sendFailures
    /\ Cardinality(Answered) <= agg.reports_seen
    /\ Covers(agg, received)

ledgerVars == <<agg, received, out, opened, sent, sendFailures>>

(* The end of the process and the writer's own steps leave the books alone. *)
LEMMA WriterKeepsLedger ==
    ASSUME WriterStep \/ WriterFault \/ ProcessEnds \/ DropTx \/ UNCHANGED writerVars
    PROVE  UNCHANGED <<opened, sent>>
  BY DEF WriterStep, WriterFault, WriterRecv, WriterDiscard, SerializeFails, WriteOk, WriteFails,
         FlushOk, FlushFails, EndPoisoned, WriterPanics, ProcessEnds, DropTx, writerVars

(* The steps that write into the books. *)
LEMMA LedgerSteps ==
    ASSUME [Next]_vars
    PROVE  \/ UNCHANGED ledgerVars /\ (pc = "refused" => pc' = "refused")
           \/ OpenOutput \/ RefuseResume \/ OpenFails \/ SendReport \/ SendFails \/ Rerun
           \/ \E r \in Reports : LocalReport(r)
           \/ \E h \in Address, r \in Reports : JoinReport(h, r) \/ TeardownReport(h, r)
<1> USE WriterKeepsLedger DEF ledgerVars, reportVars
<1>1. CASE UNCHANGED vars
  BY <1>1 DEF vars
<1>2. CASE NoStream \/ LocalSkip \/ LocalStart \/ RemoteStart \/ FillCheck \/ NextCheck \/ AllJoined
  BY <1>2 DEF NoStream, LocalSkip, LocalStart, RemoteStart, FillCheck, NextCheck, AllJoined, Goto
<1>3. CASE LocalInterrupted \/ SelectShutdown \/ SecondInterrupt \/ GraceExpired
  BY <1>3 DEF LocalInterrupted, SelectShutdown, SecondInterrupt, GraceExpired, AbortAll
<1>4. CASE \E h \in Address : FillSpawn(h) \/ NextSpawn(h) \/ TaskEnds(h)
  BY <1>4 DEF FillSpawn, NextSpawn, TaskEnds
<1>5. CASE \E h \in Address : JoinNothing(h) \/ TeardownNothing(h)
  BY <1>5 DEF JoinNothing, TeardownNothing, Join
<1>6. CASE CloseStream
  BY <1>6 DEF CloseStream, CloseTx
<1>7. CASE WriterJoined \/ WriterFailed \/ DrainTimeout \/ OutputDone \/ OutputFails \/ ReaderGone
  BY <1>7 DEF WriterJoined, WriterFailed, DrainTimeout, OutputDone, OutputFails, ReaderGone, Return
<1>8. CASE Signal \/ ThirdSignal \/ Watchdog \/ Kill
  BY <1>8 DEF Signal, ThirdSignal, Watchdog, Kill, ForcedExit
<1>9. CASE OperatorTruncates
  BY <1>9 DEF OperatorTruncates
<1>10. CASE WriterTask \/ WriterTaskFails \/ Ended
  BY <1>10 DEF WriterTask, WriterTaskFails, Ended, vars
<1> QED
  BY <1>1, <1>2, <1>3, <1>4, <1>5, <1>6, <1>7, <1>8, <1>9, <1>10, Zenon
  DEF Next, MainTask, Start, LocalScan, Admission, Collect, Deliver, Environment

(***************************************************************************)
(* What the books hold where the main task is: nothing when a run starts,  *)
(* and only a run that streams has a writer to wait for.                   *)
(***************************************************************************)
CloseInv ==
    /\ pc = "open" => agg = EmptyAggregate /\ sendFailures = 0 /\ out = <<>>
    /\ pc = "output" => ~Streaming
    /\ pc \in {"joinWait", "joinTimed"} => Streaming
    /\ ~Streaming => writer = "off"

(* Control: the books are empty where a run starts, and a writer exists only for a stream. *)
LEMMA CloseStep ==
    ASSUME TypeOK, PlaceInv, CloseInv, [Next]_vars
    PROVE  CloseInv'
<1> USE DEF listVars, slotVars, reportVars, signalVars, processVars, writerVars, CloseInv
<1>e. ASSUME ProcessEnds PROVE ~Streaming => writer' = "off"
  BY <1>e DEF ProcessEnds, Receiving
<1>1. CASE UNCHANGED vars
  BY <1>1 DEF vars
<1>2. CASE OpenOutput
  BY <1>2 DEF OpenOutput
<1>3. CASE RefuseResume \/ OpenFails
  BY <1>3, <1>e DEF RefuseResume, OpenFails, GiveUp
<1>4. CASE NoStream \/ LocalSkip \/ LocalStart
  BY <1>4 DEF NoStream, LocalSkip, LocalStart, Goto
<1>5. CASE \E r \in Reports : LocalReport(r)
  BY <1>5 DEF LocalReport, Accept
<1>6. CASE LocalInterrupted
  BY <1>6 DEF LocalInterrupted
<1>7. CASE RemoteStart
  BY <1>7 DEF RemoteStart, Goto
<1>8. CASE FillCheck
  BY <1>8 DEF FillCheck, FillMore, Goto
<1>9. CASE NextCheck
  BY <1>9 DEF NextCheck, AdmitMore, Goto
<1>10. CASE \E h \in Address : FillSpawn(h)
  BY <1>10 DEF FillSpawn, Spawn
<1>11. CASE \E h \in Address : NextSpawn(h)
  BY <1>11 DEF NextSpawn, Spawn
<1>12. CASE AllJoined \/ SelectShutdown
  BY <1>12 DEF AllJoined, SelectShutdown, Goto
<1>13. CASE \E h \in Address : JoinNothing(h) \/ TeardownNothing(h)
  BY <1>13 DEF JoinNothing, TeardownNothing, Join
<1>14. CASE \E h \in Address, r \in Reports : JoinReport(h, r) \/ TeardownReport(h, r)
  BY <1>14 DEF JoinReport, TeardownReport, Join, Accept
<1>15. CASE SecondInterrupt \/ GraceExpired
  BY <1>15 DEF SecondInterrupt, GraceExpired, AbortAll
<1>16. CASE SendReport \/ SendFails
  <2>1. pc = "send" /\ pc' = back /\ (~Streaming => UNCHANGED writer)
    BY <1>16 DEF SendReport, SendFails
  <2>2. pc' \in {"remote", "next", "teardown"}
    BY <2>1 DEF TypeOK, PlaceInv
  <2> QED BY <2>1, <2>2
<1>17. CASE CloseStream
  BY <1>17 DEF CloseStream, CloseTx, DropTx
<1>18. CASE WriterJoined \/ WriterFailed \/ DrainTimeout \/ OutputDone \/ OutputFails \/ ReaderGone
  BY <1>18, <1>e DEF WriterJoined, WriterFailed, DrainTimeout, OutputDone, OutputFails, ReaderGone, Return
<1>19. CASE Signal \/ ThirdSignal \/ Watchdog \/ Kill
  BY <1>19, <1>e DEF Signal, ThirdSignal, Watchdog, Kill, ForcedExit
<1>20. CASE OperatorTruncates
  BY <1>20 DEF OperatorTruncates
<1>21. CASE Rerun
  BY <1>21 DEF Rerun, FreshMain, FreshWriter, StartWith
<1>22. CASE \E h \in Address : TaskEnds(h)
  BY <1>22 DEF TaskEnds, DropPermit
<1>23. CASE WriterTask \/ WriterTaskFails \/ Ended
  <2>1. CASE WriterTask \/ WriterTaskFails
    <3>1. Streaming
      BY <2>1 DEF WriterTask, WriterTaskFails, WriterStep, WriterFault, WriterRecv,
        WriterDiscard, SerializeFails, WriteOk, WriteFails, FlushOk, FlushFails,
        EndPoisoned, WriterPanics, Receiving
    <3> QED BY <2>1, <3>1 DEF WriterTask, WriterTaskFails
  <2>2. CASE Ended
    BY <2>2 DEF Ended, vars
  <2> QED BY <1>23, <2>1, <2>2
<1> QED
  BY <1>1, <1>2, <1>3, <1>4, <1>5, <1>6, <1>7, <1>8, <1>9, <1>10, <1>11, <1>12, <1>13, <1>14, <1>15, <1>16, <1>17, <1>18, <1>19, <1>20, <1>21, <1>22, <1>23, Zenon
  DEF Next, MainTask, Start, LocalScan, Admission, Collect, Deliver, Environment

(* A report that is accepted is entered into the books. *)
LEMMA AcceptLedger ==
    ASSUME TypeOK, LedgerInv, NEW h \in Address, NEW r \in Reports, NEW next,
           Accept(h, r, next), pc \notin {"send", "refused"}, UNCHANGED <<opened, sent, sendFailures>>
    PROVE  LedgerInv'
<1> DEFINE rec == [host |-> h, report |-> r]
<1>1. /\ rec \in Record /\ rec.host = h /\ rec.report = r
      /\ Records(out') = {rec} /\ Len(out') = 1
      /\ received' = received \cup {rec} /\ agg' = add(agg, r)
  BY AcceptedRecord
<1> HIDE DEF rec
<1>2. /\ agg \in Aggregate /\ received \in SUBSET Record /\ Len(out) = 0
      /\ agg.reports_seen \in Nat
  BY DEF TypeOK, Aggregate
<1>3. Covers(agg', received') /\ agg'.reports_seen = agg.reports_seen + 1
  BY <1>1, <1>2, AddCovers DEF LedgerInv
<1>4. Cardinality(Answered') <= agg'.reports_seen
  <2>1. Answered' = Answered \cup {h} /\ Answered \in SUBSET Address
    <3>1. \A x \in Record : x.host \in Address
      BY DEF Record
    <3> QED BY <1>1, <1>2, <3>1 DEF Answered
  <2>2. Cardinality(Answered') <= Cardinality(Answered) + 1 /\ Cardinality(Answered) \in Nat
        /\ Cardinality(Answered') \in Nat
    BY <2>1, CardFacts
  <2> QED BY <1>2, <1>3, <2>2 DEF LedgerInv
<1>5. Records(opened') \cup Records(sent') \cup Records(out') \subseteq received'
  BY <1>1 DEF LedgerInv
<1>6. Streaming => agg'.reports_seen = Len(opened') + Len(sent') + Len(out') + sendFailures'
  <2>1. Len(opened) \in Nat /\ Len(sent) \in Nat /\ sendFailures \in Nat
    BY LenProperties DEF TypeOK, WriterTypeOK
  <2> QED BY <1>1, <1>2, <1>3, <2>1 DEF LedgerInv
<1> QED BY <1>3, <1>4, <1>5, <1>6 DEF LedgerInv

(* The books stay right. *)
LEMMA LedgerStep ==
    ASSUME TypeOK, TypeOK', PlaceInv, CloseInv, LedgerInv, [Next]_vars
    PROVE  LedgerInv'
<1>0. /\ opened \in Seq(Record) /\ sent \in Seq(Record) /\ Len(opened) \in Nat /\ Len(sent) \in Nat
      /\ sendFailures \in Nat /\ Records(<<>>) = {} /\ Len(<<>>) = 0
  BY LenProperties, ShortRecords DEF TypeOK, WriterTypeOK
<1>1. CASE UNCHANGED ledgerVars /\ (pc = "refused" => pc' = "refused")
  BY <1>1 DEF ledgerVars, LedgerInv, Answered
<1>2. CASE OpenOutput
  <2>1. disk \in File /\ disk.recs \in Seq(Record)
    BY DEF TypeOK, WriterTypeOK, File
  <2>2. /\ opened' = disk.recs /\ received' = Records(disk.recs) /\ agg' = ResumedAggregate(disk.recs)
        /\ sent' = <<>> /\ out' = <<>> /\ sendFailures' = 0
    BY <1>2 DEF OpenOutput, PlaceInv, CloseInv
  <2>3. Covers(agg', received') /\ agg'.reports_seen = Len(disk.recs)
    BY <2>1, <2>2, ResumeCovers
  <2>4. Answered' = HostsOf(disk.recs)
    BY <2>2 DEF Answered, Records, HostsOf
  <2>5. Cardinality(HostsOf(disk.recs)) <= Len(disk.recs) /\ Len(disk.recs) \in Nat
    BY <2>1, HostCount, LenProperties
  <2>6. Records(opened') \cup Records(sent') \cup Records(out') \subseteq received'
    BY <1>0, <2>2
  <2>7. agg'.reports_seen = Len(opened') + Len(sent') + Len(out') + sendFailures'
    BY <1>0, <2>2, <2>3, <2>5
  <2> QED BY <2>3, <2>4, <2>5, <2>6, <2>7 DEF LedgerInv
<1>3. CASE SendReport \/ SendFails
  <2>1. /\ pc = "send" /\ out' = <<>> /\ agg' = agg /\ received' = received
        /\ \/ Streaming /\ SendReport /\ Send(Head(out)) /\ sendFailures' = sendFailures
           \/ ~Streaming /\ UNCHANGED <<opened, sent>>
           \/ Streaming /\ SendFails /\ UNCHANGED <<opened, sent>> /\ sendFailures' = sendFailures + 1
    BY <1>3 DEF SendReport, SendFails, SendClosed, writerVars
  <2>2. Head(out) \in Record /\ Records(out) = {Head(out)} /\ Len(out) = 1
    BY <2>1, HandedOver DEF TypeOK
  <2>3. Answered' = Answered
    BY <2>1 DEF Answered
  <2>4. CASE Send(Head(out)) /\ sendFailures' = sendFailures
    <3>1. sent' = Append(sent, Head(out)) /\ opened' = opened
      BY <2>4 DEF Send
    <3>2. Records(sent') = Records(sent) \cup {Head(out)} /\ Len(sent') = Len(sent) + 1
      <4>1. \A x \in Record : /\ Records(Append(sent, x)) = Records(sent) \cup {x}
                               /\ Len(Append(sent, x)) = Len(sent) + 1
        BY <1>0, AppendRecords, AppendProperties
      <4> QED BY <2>2, <3>1, <4>1
    <3>3. Records(opened') \cup Records(sent') \cup Records(out') \subseteq received'
      BY <1>0, <2>1, <2>2, <3>1, <3>2 DEF LedgerInv
    <3>4. Len(opened') + Len(sent') + Len(out') + sendFailures'
            = Len(opened) + Len(sent) + Len(out) + sendFailures
      BY <1>0, <2>1, <2>2, <2>4, <3>1, <3>2
    <3> QED BY <2>1, <2>3, <3>3, <3>4 DEF LedgerInv
  <2>5. CASE UNCHANGED <<opened, sent>> /\ (Streaming => sendFailures' = sendFailures + 1)
    <3>1. Records(opened') \cup Records(sent') \cup Records(out') \subseteq received'
      BY <1>0, <2>1, <2>5 DEF LedgerInv
    <3>2. Streaming => Len(opened') + Len(sent') + Len(out') + sendFailures'
                         = Len(opened) + Len(sent) + Len(out) + sendFailures
      BY <1>0, <2>1, <2>2, <2>5
    <3> QED BY <2>1, <2>3, <3>1, <3>2 DEF LedgerInv
  <2> QED BY <2>1, <2>4, <2>5
<1>4. CASE Rerun
  <2>1. /\ opened' = <<>> /\ received' = {} /\ agg' = EmptyAggregate
        /\ sent' = <<>> /\ out' = <<>> /\ sendFailures' = 0
    BY <1>4 DEF Rerun, FreshMain, FreshWriter
  <2>2. Answered' = {} /\ Cardinality({}) = 0
    BY <2>1, CardFacts DEF Answered
  <2>3. agg'.reports_seen = 0 /\ Covers(agg', received')
    BY <2>1 DEF EmptyAggregate, Covers
  <2> QED BY <1>0, <2>1, <2>2, <2>3 DEF LedgerInv
<1>5. CASE \E r \in Reports : LocalReport(r)
  <2>1. PICK r \in Reports : LocalReport(r)
    BY <1>5
  <2>2. local \in Seq(Address) /\ local # <<>>
    BY <2>1 DEF TypeOK, PlaceInv, LocalReport
  <2>3. Head(local) \in Address
    BY <2>2, HeadTailProperties
  <2> QED BY <2>1, <2>3, AcceptLedger DEF LocalReport, writerVars
<1>6. CASE \E h \in Address, r \in Reports : JoinReport(h, r) \/ TeardownReport(h, r)
  <2>1. PICK h \in Address, r \in Reports : JoinReport(h, r) \/ TeardownReport(h, r)
    BY <1>6
  <2> QED BY <2>1, AcceptLedger DEF JoinReport, TeardownReport, Join, writerVars
<1>7. CASE RefuseResume \/ OpenFails
  <2>1. disk.recs \in Seq(Record)
    BY DEF TypeOK, WriterTypeOK, File
  <2>2. PICK recs \in Seq(Record) : agg' = ResumedAggregate(recs) /\ received' = Records(recs)
    BY <1>7, <2>1, GaveUp
  <2>3. pc = "open" /\ pc' = "refused" /\ out' = out /\ UNCHANGED <<opened, sent>>
    BY <1>7, <2>1, GaveUp, WriterKeepsLedger
  <2>4. opened = <<>> /\ sent = <<>> /\ out = <<>>
    BY <2>3 DEF PlaceInv, CloseInv
  <2>5. Covers(agg', received') /\ agg'.reports_seen = Len(recs)
    BY <2>2, ResumeCovers
  <2>6. Answered' = HostsOf(recs)
    BY <2>2 DEF Answered, Records, HostsOf
  <2>7. Cardinality(HostsOf(recs)) <= Len(recs)
    BY <2>2, HostCount
  <2>8. Records(opened') \cup Records(sent') \cup Records(out') \subseteq received'
    BY <1>0, <2>3, <2>4
  <2> QED BY <2>3, <2>5, <2>6, <2>7, <2>8 DEF LedgerInv
<1> QED BY <1>1, <1>2, <1>3, <1>4, <1>5, <1>6, <1>7, LedgerSteps

(* The inductive invariant of the records: who may report, and what the books say. *)
BooksInv == ClaimInv /\ CloseInv /\ LedgerInv

(* The books are right when the program starts on a new file. *)
LEMMA InitBooksInv == Init => BooksInv
<1>1. SUFFICES ASSUME Init PROVE BooksInv
  BY Zenon
<1> USE DEF Init
<1>2. /\ Records(<<>>) = {} /\ HostsOf(<<>>) = {} /\ Distinct(<<>>) /\ Len(<<>>) = 0
      /\ Cardinality({}) = 0
  BY ShortRecords, CardFacts, EmptySeq
<1>3. Live = <<>>
  BY <1>1 DEF Live, Receiving, EmptyFile
<1>4. local # <<>> => Head(local) \in hosts \cap LocalAlias
  <2>1. local = <<>> \/ \E h \in hosts \cap LocalAlias : local = <<h>>
    BY <1>1
  <2> QED BY <2>1
<1>5. ClaimInv
  BY <1>1, <1>2, <1>3, <1>4 DEF ClaimInv, Remote
<1>6. CloseInv
  BY <1>1 DEF CloseInv
<1>7. Covers(agg, received) /\ agg.reports_seen = 0 /\ Answered = {}
  BY <1>1 DEF Covers, EmptyAggregate, Answered
<1>8. LedgerInv
  BY <1>1, <1>2, <1>7 DEF LedgerInv
<1> QED BY <1>5, <1>6, <1>8 DEF BooksInv

(* Every step of every process keeps the books right. *)
LEMMA NextBooksInv == FleetInv /\ BooksInv /\ [Next]_vars => BooksInv'
<1>1. SUFFICES ASSUME FleetInv, BooksInv, [Next]_vars PROVE BooksInv'
  BY Zenon
<1>2. FleetInv'
  BY <1>1, NextFleetInv
<1>3. /\ TypeOK /\ TypeOK' /\ SlotInv /\ PlaceInv /\ ClaimInv /\ CloseInv /\ LedgerInv
  BY <1>1, <1>2 DEF FleetInv, BooksInv
<1>4. ClaimInv'
  BY <1>1, <1>3, ClaimStep
<1>5. CloseInv'
  BY <1>1, <1>3, CloseStep
<1>6. LedgerInv'
  BY <1>1, <1>3, LedgerStep
<1> QED BY <1>4, <1>5, <1>6 DEF BooksInv

(* The books stay right over any number of runs, crashes and resumes. *)
THEOREM BooksInvariance == Spec => []BooksInv
  BY InitBooksInv, NextBooksInv, FleetInvariance, PTL DEF Spec

(***************************************************************************)
(* Over any number of runs of any lists, kills at any moment, failed       *)
(* writes and resumes, the file holds at most one record per address and   *)
(* no line with two.                                                       *)
(***************************************************************************)
THEOREM FileClean == Spec => []FileStaysClean
<1>1. FleetInv /\ BooksInv => FileStaysClean
  <2>1. SUFFICES ASSUME FleetInv, BooksInv PROVE FileStaysClean
    BY Zenon
  <2>2. Distinct(disk.recs)
    BY <2>1, FileThinsLive DEF FleetInv, WriterInv, BooksInv, ClaimInv, Thins
  <2>3. ~disk.fused
    BY <2>1 DEF FleetInv, WriterInv, NeverFused
  <2> QED BY <2>2, <2>3 DEF FileStaysClean, Distinct
<1> QED BY <1>1, FleetInvariance, BooksInvariance, PTL

(* The steps that end the process or come after its end. *)
LEMMA ExitSteps ==
    ASSUME PlaceInv', [Next]_vars
    PROVE  \/ exit' = NoExit /\ pc' # "done"
           \/ UNCHANGED vars \/ OperatorTruncates
           \/ RefuseResume \/ OpenFails \/ WriterJoined \/ WriterFailed \/ DrainTimeout
           \/ OutputDone \/ OutputFails \/ ReaderGone
           \/ ThirdSignal \/ Watchdog \/ Kill
<1> USE DEF processVars, Alive
<1>0. exit' = NoExit => pc' # "done"
  BY DEF PlaceInv
<1>1. CASE OpenOutput
  BY <1>0, <1>1 DEF OpenOutput
<1>2. CASE NoStream \/ LocalSkip \/ LocalStart \/ RemoteStart \/ FillCheck \/ NextCheck \/ AllJoined
  BY <1>0, <1>2 DEF NoStream, LocalSkip, LocalStart, RemoteStart, FillCheck, NextCheck, AllJoined, Goto
<1>3. CASE (\E r \in Reports : LocalReport(r)) \/ LocalInterrupted \/ SelectShutdown
  BY <1>0, <1>3 DEF LocalReport, LocalInterrupted, SelectShutdown
<1>4. CASE SecondInterrupt \/ GraceExpired
  BY <1>0, <1>4 DEF SecondInterrupt, GraceExpired, AbortAll
<1>5. CASE \E h \in Address : FillSpawn(h) \/ NextSpawn(h) \/ TaskEnds(h)
  BY <1>0, <1>5 DEF FillSpawn, NextSpawn, TaskEnds
<1>6. CASE \E h \in Address : JoinNothing(h) \/ TeardownNothing(h)
  BY <1>0, <1>6 DEF JoinNothing, TeardownNothing, Join
<1>7. CASE \E h \in Address, r \in Reports : JoinReport(h, r) \/ TeardownReport(h, r)
  BY <1>0, <1>7 DEF JoinReport, TeardownReport, Join
<1>8. CASE SendReport \/ SendFails \/ CloseStream
  BY <1>0, <1>8 DEF SendReport, SendFails, CloseStream
<1>9. CASE Signal
  BY <1>0, <1>9 DEF Signal
<1>10. CASE Rerun
  BY <1>0, <1>10 DEF Rerun, FreshMain
<1>11. CASE WriterTask \/ WriterTaskFails
  BY <1>0, <1>11 DEF WriterTask, WriterTaskFails
<1>12. CASE Ended
  BY <1>12 DEF Ended
<1> QED
  BY <1>1, <1>2, <1>3, <1>4, <1>5, <1>6, <1>7, <1>8, <1>9, <1>10, <1>11, <1>12, Zenon
  DEF Next, MainTask, Start, LocalScan, Admission, Collect, Deliver, Environment

(***************************************************************************)
(* What FleetCode says of the outcome: 0 and 1 need full coverage and a    *)
(* verdict no worse than the code; 2 and 4 need a gap in the coverage or   *)
(* no verdict at all.                                                      *)
(***************************************************************************)
LEMMA FleetCodeMeaning ==
    ASSUME TypeOK, NEW lost \in Nat, NEW failed \in BOOLEAN
    PROVE  LET code == FleetCode(lost, failed)
               full == /\ Cardinality(hosts) <= agg.reports_seen /\ lost = 0 /\ ~failed
                       /\ ~agg.scanners_failed /\ ~agg.non_root /\ ~agg.warnings
           IN  /\ code \in {EXIT_CLEAN, EXIT_CRITICAL} =>
                     full /\ (code = EXIT_CLEAN => agg.verdict = "clean")
                          /\ (code = EXIT_CRITICAL => agg.verdict = "critical")
               /\ code \in {EXIT_DEGRADED, EXIT_INCOMPLETE} => ~full \/ agg.verdict = NoVerdict
<1> DEFINE o == finish(agg, Cardinality(hosts), lost, failed)
           full == /\ Cardinality(hosts) <= agg.reports_seen /\ lost = 0 /\ ~failed
                   /\ ~agg.scanners_failed /\ ~agg.non_root /\ ~agg.warnings
<1>1. /\ agg.verdict \in Verdict \cup {NoVerdict} /\ agg.reports_seen \in Nat
      /\ interrupted \in BOOLEAN /\ FailOnIncomplete \in BOOLEAN /\ hosts \in SUBSET Address
  BY FlagsAssumption, HostListsAssumption DEF TypeOK, Aggregate
<1>2. Cardinality(hosts) \in Nat
  BY <1>1, CardFacts
<1>3. /\ o.verdict = agg.verdict
      /\ o.hosts_missing = saturating_sub(Cardinality(hosts), agg.reports_seen)
      /\ o.records_lost = lost /\ o.output_failed = failed
      /\ o.scanners_failed = agg.scanners_failed /\ o.non_root = agg.non_root
      /\ o.warnings = agg.warnings
  BY DEF finish
<1>4. FleetCode(lost, failed) = fleet_code(o, interrupted, FailOnIncomplete)
  BY DEF FleetCode
<1> HIDE DEF o
<1>5. is_full(o) <=> full
  <2>1. saturating_sub(Cardinality(hosts), agg.reports_seen) = 0
          <=> Cardinality(hosts) <= agg.reports_seen
    BY <1>1, <1>2 DEF saturating_sub
  <2> QED BY <1>3, <2>1 DEF is_full
<1> HIDE DEF full
<1>6. /\ FleetCode(lost, failed) \in {EXIT_CLEAN, EXIT_CRITICAL} =>
            /\ is_full(o)
            /\ FleetCode(lost, failed) = EXIT_CLEAN => o.verdict = "clean"
            /\ FleetCode(lost, failed) = EXIT_CRITICAL => o.verdict = "critical"
      /\ FleetCode(lost, failed) \in {EXIT_DEGRADED, EXIT_INCOMPLETE} =>
            ~is_full(o) \/ o.verdict = NoVerdict
  BY <1>1, <1>3, <1>4 DEF fleet_code, exit_code, Verdict, NoVerdict, EXIT_CLEAN, EXIT_CRITICAL,
     EXIT_DEGRADED, EXIT_COMPROMISED, EXIT_INCOMPLETE, EXIT_INTERRUPT
<1> QED BY <1>3, <1>5, <1>6 DEF full

(* The code of a run whose writer returned: 0 and 1 are only for a complete file. *)
LEMMA HonestJoin ==
    ASSUME OneList, FleetInv, BooksInv, WriterJoined
    PROVE  HonestExit'
<1>1. SUFFICES ASSUME exit' \in {EXIT_CLEAN, EXIT_CRITICAL}
               PROVE  /\ disk'.tail = "ok"
                      /\ \A h \in hosts' : \E rec \in Records(disk'.recs) :
                            rec.host = h /\ FullReport(rec.report)
                      /\ \A rec \in Records(disk'.recs) :
                            rank(rec.report.verdict) <= (IF exit' = EXIT_CLEAN THEN 0 ELSE 1)
  BY Zenon DEF HonestExit
<1>2. /\ TypeOK /\ WriterTypeOK /\ LedgerInv /\ ClaimInv /\ Streaming
      /\ writer = "done" /\ pc # "send"
  BY DEF FleetInv, TypeOK, BooksInv, CloseInv, WriterJoined
<1>3. /\ exit' = FleetCode(TotalLost, FALSE) /\ disk' = disk /\ hosts' = hosts
  BY <1>2 DEF WriterJoined, Return, ProcessEnds, CrashFiles, Receiving, listVars
<1>4. /\ ioErrors \in Nat /\ sendFailures \in Nat /\ TotalLost \in Nat
  BY <1>2 DEF TypeOK, WriterTypeOK, TotalLost
<1>5. /\ Cardinality(hosts) <= agg.reports_seen /\ TotalLost = 0
      /\ ~agg.scanners_failed /\ ~agg.non_root /\ ~agg.warnings
      /\ exit' = EXIT_CLEAN => agg.verdict = "clean"
      /\ exit' = EXIT_CRITICAL => agg.verdict = "critical"
  BY <1>1, <1>2, <1>3, <1>4, FleetCodeMeaning
<1>6. ioErrors = 0 /\ sendFailures = 0
  BY <1>4, <1>5 DEF TotalLost
<1>7. disk.recs = Cat(opened, sent) /\ disk.tail = "ok"
  BY <1>2, <1>6 DEF FleetInv, WriterInv, DeliveredOrCounted, Cat
<1>8. opened \in Seq(Record) /\ sent \in Seq(Record) /\ disk.recs \in Seq(Record)
  BY <1>2 DEF WriterTypeOK, File
<1>9. Records(disk.recs) \subseteq received
  <2>1. Records(disk.recs) = Records(opened) \cup Records(sent)
    BY <1>7, <1>8, CatRecords
  <2> QED BY <1>2, <2>1 DEF LedgerInv
<1>10. HostsOf(disk.recs) = hosts
  <2>1. Live = disk.recs
    BY <1>2 DEF Live, Receiving
  <2>2. Distinct(disk.recs) /\ HostsOf(disk.recs) \subseteq hosts
    BY <1>2, <2>1 DEF ClaimInv
  <2>3. Len(opened) \in Nat /\ Len(sent) \in Nat /\ Len(disk.recs) = Len(opened) + Len(sent)
    BY <1>7, <1>8, CatFacts, LenProperties
  <2>4. Len(out) = 0
    BY <1>2 DEF TypeOK
  <2>5. agg.reports_seen = Len(disk.recs)
    BY <1>2, <1>6, <2>3, <2>4 DEF LedgerInv, WriterJoined
  <2>6. Cardinality(HostsOf(disk.recs)) = Len(disk.recs)
    BY <1>8, <2>2, HostCount
  <2>7. hosts \in SUBSET Address
    BY <1>2, HostListsAssumption DEF TypeOK
  <2>8. IsFiniteSet(hosts) /\ Cardinality(hosts) \in Nat
    BY <2>7, CardFacts, AddressAssumption, FS_Subset
  <2>9. Cardinality(HostsOf(disk.recs)) <= Cardinality(hosts)
    BY <2>2, <2>8, FS_Subset
  <2>10. Cardinality(HostsOf(disk.recs)) = Cardinality(hosts)
    BY <1>5, <2>3, <2>5, <2>6, <2>8, <2>9
  <2> QED BY <2>2, <2>8, <2>10, FS_Subset
<1>11. \A rec \in Records(disk.recs) : FullReport(rec.report)
  BY <1>2, <1>5, <1>9 DEF LedgerInv, Covers, FullReport
<1>12. \A h \in hosts : \E rec \in Records(disk.recs) : rec.host = h
  BY <1>10 DEF HostsOf, Records
<1>13. \A rec \in Records(disk.recs) :
          rank(rec.report.verdict) <= (IF exit' = EXIT_CLEAN THEN 0 ELSE 1)
  <2>1. SUFFICES ASSUME NEW rec \in Records(disk.recs)
                 PROVE  rank(rec.report.verdict) <= (IF exit' = EXIT_CLEAN THEN 0 ELSE 1)
    BY Zenon
  <2>2. rank(rec.report.verdict) <= rank(agg.verdict)
    BY <1>2, <1>9 DEF LedgerInv, Covers
  <2>3. rank(agg.verdict) = (IF exit' = EXIT_CLEAN THEN 0 ELSE 1)
    BY <1>1, <1>5 DEF rank, EXIT_CLEAN, EXIT_CRITICAL
  <2> QED BY <2>2, <2>3
<1> QED BY <1>3, <1>7, <1>11, <1>12, <1>13

(***************************************************************************)
(* A run that streams and exits 0 or 1 leaves a complete file: one record  *)
(* with full coverage for each host asked for, no worse than the code      *)
(* says, whatever was lost, retried, interrupted or resumed.  The proviso  *)
(* is that every run over the file is asked for the same hosts: a record   *)
(* that an earlier run left for a host no longer asked for stands in for   *)
(* one that is missing (hosts_missing is a difference of two counts).      *)
(***************************************************************************)
THEOREM ExitIsHonest == ASSUME OneList PROVE Spec => []HonestExit
<1>1. Init => HonestExit
  BY DEF Init, HonestExit, NoExit, EXIT_CLEAN, EXIT_CRITICAL
<1>2. FleetInv /\ BooksInv /\ HonestExit /\ [Next]_vars => HonestExit'
  <2>1. SUFFICES ASSUME FleetInv, BooksInv, HonestExit, [Next]_vars PROVE HonestExit'
    BY Zenon
  <2>2. PlaceInv' /\ TypeOK
    BY <2>1, NextFleetInv DEF FleetInv
  <2> USE DEF EXIT_CLEAN, EXIT_CRITICAL
  <2>3. CASE exit' = NoExit
    BY <2>3 DEF HonestExit, NoExit
  <2>4. CASE UNCHANGED vars
    BY <2>1, <2>4 DEF vars, HonestExit, listVars, processVars, writerVars
  <2>5. CASE OperatorTruncates \/ RefuseResume \/ OpenFails \/ ThirdSignal \/ Watchdog \/ Kill
    <3>1. exit' \in {EXIT_USAGE, EXIT_DEGRADED, EXIT_INTERRUPT, Killed}
      BY <2>5 DEF OperatorTruncates, RefuseResume, OpenFails, ThirdSignal, Watchdog, Kill, GiveUp,
                  ForcedExit, processVars
    <3> QED BY <3>1 DEF HonestExit, EXIT_USAGE, EXIT_DEGRADED, EXIT_INTERRUPT, Killed
  <2>6. CASE WriterJoined
    BY <2>1, <2>6, HonestJoin
  <2>7. CASE WriterFailed \/ DrainTimeout
    <3>1. exit' = FleetCode(sendFailures, TRUE) /\ sendFailures \in Nat
      BY <2>2, <2>7 DEF WriterFailed, DrainTimeout, Return, TypeOK
    <3>2. exit' \notin {EXIT_CLEAN, EXIT_CRITICAL}
      BY <2>2, <3>1, FleetCodeMeaning
    <3> QED BY <3>2 DEF HonestExit
  <2>8. CASE OutputDone \/ OutputFails \/ ReaderGone
    <3>1. ~Streaming
      BY <2>1, <2>8 DEF OutputDone, OutputFails, ReaderGone, BooksInv, CloseInv
    <3> QED BY <3>1 DEF HonestExit
  <2> QED BY <2>1, <2>2, <2>3, <2>4, <2>5, <2>6, <2>7, <2>8, ExitSteps
<1> QED BY <1>1, <1>2, FleetInvariance, BooksInvariance, PTL DEF Spec

(* No list names this host twice. *)
OneAliasPerList == \A L \in HostLists : \A g, h \in L \cap LocalAlias : g = h

(* The code of a run whose writer returned: 2 and 4 are not for a run without a gap. *)
LEMMA CreditedJoin ==
    ASSUME OneAliasPerList, FleetInv, BooksInv, WriterJoined
    PROVE  CreditedIsNotMissing'
<1>1. SUFFICES ASSUME missing_of' = {}, \A rec \in received' : FullReport(rec.report),
                      ioErrors' + sendFailures' = 0
               PROVE  exit' \notin {EXIT_DEGRADED, EXIT_INCOMPLETE}
  BY Zenon DEF CreditedIsNotMissing
<1>2. TypeOK /\ LedgerInv /\ ClaimInv
  BY DEF FleetInv, BooksInv
<1>3. /\ exit' = FleetCode(TotalLost, FALSE)
      /\ UNCHANGED <<hosts, local, received, ioErrors, sendFailures>>
  BY DEF WriterJoined, Return, ProcessEnds, listVars, reportVars
<1>4. TotalLost \in Nat /\ TotalLost = 0
  BY <1>1, <1>2, <1>3 DEF TypeOK, WriterTypeOK, TotalLost
<1>5. hosts \subseteq Answered
  <2>1. hosts \subseteq Answered \cup (IF local # <<>> /\ Head(local) \in Answered
                                       THEN hosts \cap LocalAlias ELSE {})
    BY <1>1, <1>3 DEF missing_of, successful_hosts, Answered
  <2>2. local # <<>> => hosts \cap LocalAlias = {Head(local)}
    <3>1. hosts \in HostLists
      BY <1>2 DEF TypeOK
    <3> QED BY <1>2, <3>1 DEF ClaimInv, OneAliasPerList
  <2> QED BY <2>1, <2>2
<1>6. Cardinality(hosts) <= agg.reports_seen
  <2>1. Answered \in SUBSET Address /\ IsFiniteSet(Answered)
    <3>1. \A x \in Record : x.host \in Address
      BY DEF Record
    <3>2. Answered \in SUBSET Address
      BY <1>2, <3>1 DEF TypeOK, Answered
    <3> QED BY <3>2, AddressAssumption, FS_Subset
  <2>2. Cardinality(hosts) <= Cardinality(Answered)
    BY <1>5, <2>1, FS_Subset
  <2>3. Cardinality(Answered) \in Nat /\ Cardinality(hosts) \in Nat /\ agg.reports_seen \in Nat
    <3>1. hosts \in SUBSET Address
      BY <1>5, <2>1
    <3> QED BY <1>2, <2>1, <3>1, CardFacts DEF TypeOK, Aggregate
  <2> QED BY <1>2, <2>2, <2>3 DEF LedgerInv
<1>7. ~agg.scanners_failed /\ ~agg.non_root /\ ~agg.warnings
  BY <1>1, <1>2, <1>3 DEF LedgerInv, Covers, FullReport
<1>8. agg.verdict # NoVerdict
  <2>1. hosts # {}
    BY <1>2, HostListsAssumption DEF TypeOK
  <2>2. PICK rec \in received : TRUE
    BY <1>5, <2>1 DEF Answered
  <2>3. agg.verdict \in Verdict
    BY <1>2, <2>2 DEF LedgerInv, Covers
  <2> QED BY <2>3 DEF Verdict, NoVerdict
<1> QED BY <1>2, <1>3, <1>4, <1>6, <1>7, <1>8, FleetCodeMeaning

(***************************************************************************)
(* A run in which every host asked for is credited, every report is full   *)
(* and every record was written is not reported as degraded or incomplete. *)
(* The proviso is that no list names this host under two aliases, of which *)
(* only one is scanned and counted.                                        *)
(***************************************************************************)
THEOREM CreditedIsCounted == ASSUME OneAliasPerList PROVE Spec => []CreditedIsNotMissing
<1>1. Init => CreditedIsNotMissing
  BY DEF Init, CreditedIsNotMissing
<1>2. FleetInv /\ BooksInv /\ CreditedIsNotMissing /\ [Next]_vars => CreditedIsNotMissing'
  <2>1. SUFFICES ASSUME FleetInv, BooksInv, CreditedIsNotMissing, [Next]_vars
                 PROVE  CreditedIsNotMissing'
    BY Zenon
  <2>2. PlaceInv' /\ PlaceInv /\ CloseInv
    BY <2>1, NextFleetInv DEF FleetInv, BooksInv
  <2>3. CASE pc' # "done"
    BY <2>3 DEF CreditedIsNotMissing
  <2>4. CASE UNCHANGED vars \/ OperatorTruncates
    <3>1. UNCHANGED <<pc, exit, writer, hosts, local, received, ioErrors, sendFailures>>
      BY <2>4 DEF vars, OperatorTruncates, listVars, processVars, writerVars, reportVars
    <3>2. missing_of' = missing_of
      BY <3>1 DEF missing_of, successful_hosts
    <3> QED BY <2>1, <3>1, <3>2, Zenon DEF CreditedIsNotMissing
  <2>5. CASE RefuseResume \/ OpenFails \/ ThirdSignal \/ Watchdog \/ Kill
    <3>1. pc' = "refused" \/ exit' \in {EXIT_INTERRUPT, Killed}
      BY <2>5 DEF RefuseResume, OpenFails, GiveUp, ThirdSignal, Watchdog, Kill, ForcedExit
    <3> QED BY <3>1 DEF CreditedIsNotMissing, EXIT_INTERRUPT, Killed, EXIT_DEGRADED,
                        EXIT_INCOMPLETE
  <2>6. CASE WriterJoined
    BY <2>1, <2>6, CreditedJoin
  <2>7. CASE WriterFailed \/ DrainTimeout \/ OutputDone \/ OutputFails \/ ReaderGone
    <3>1. writer \in {"off", "panicked", "recv", "write"}
      BY <2>2, <2>7 DEF WriterFailed, DrainTimeout, OutputDone, OutputFails, ReaderGone,
                        PlaceInv, CloseInv, Receiving
    <3>2. writer' # "done"
      BY <2>7, <3>1 DEF WriterFailed, DrainTimeout, OutputDone, OutputFails, ReaderGone,
                        Return, ProcessEnds, Receiving
    <3> QED BY <3>2 DEF CreditedIsNotMissing
  <2> QED BY <2>1, <2>2, <2>3, <2>4, <2>5, <2>6, <2>7, ExitSteps
<1> QED BY <1>1, <1>2, FleetInvariance, BooksInvariance, PTL DEF Spec
===============================================================================
