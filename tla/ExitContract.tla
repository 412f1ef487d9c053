----------------------------- MODULE ExitContract -----------------------------
(***************************************************************************)
(* The two-axis outcome model of src/main.rs (R25-74): a SecurityVerdict   *)
(* says what the scan FOUND, a Coverage record what it could SEE, and the  *)
(* two meet only in exit_code.  Pure operators, no state.                  *)
(***************************************************************************)
EXTENDS Naturals, Sequences

(* scoring::SecurityVerdict; NoVerdict is Option::None of OutcomeBuilder. *)
Verdict == {"clean", "critical", "compromised"}
NoVerdict == "none"

rank(v) == CASE v = "clean" -> 0 [] v = "critical" -> 1 [] v = "compromised" -> 2

(* Mutant: the last verdict wins. *)
worse_last(a, b) == b

worse(a, b) == IF rank(a) >= rank(b) THEN a ELSE b

(***************************************************************************)
(* What the aggregator reads off an AgentReport: the verdict of its        *)
(* findings (after --accept) and the three coverage facts it carries.      *)
(***************************************************************************)
Report == [verdict : Verdict, scanners_failed : BOOLEAN,
           non_root : BOOLEAN, warnings : BOOLEAN]

Aggregate == [verdict : Verdict \cup {NoVerdict}, scanners_failed : BOOLEAN,
              non_root : BOOLEAN, warnings : BOOLEAN, reports_seen : Nat]

(* OutcomeBuilder::default(). *)
EmptyAggregate == [verdict |-> NoVerdict, scanners_failed |-> FALSE,
                   non_root |-> FALSE, warnings |-> FALSE, reports_seen |-> 0]

(* OutcomeBuilder::add. *)
add(agg, r) ==
    [verdict         |-> IF agg.verdict = NoVerdict THEN r.verdict
                         ELSE worse(agg.verdict, r.verdict),
     scanners_failed |-> agg.scanners_failed \/ r.scanners_failed,
     non_root        |-> agg.non_root \/ r.non_root,
     warnings        |-> agg.warnings \/ r.warnings,
     reports_seen    |-> agg.reports_seen + 1]

(* add over all the records of a sequence, as one expression. *)
AggregateOf(rs) ==
    LET S == {rs[i] : i \in DOMAIN rs} IN
    [verdict         |-> IF S = {} THEN NoVerdict
                         ELSE CHOOSE v \in {r.verdict : r \in S} :
                                \A r \in S : rank(v) >= rank(r.verdict),
     scanners_failed |-> \E r \in S : r.scanners_failed,
     non_root        |-> \E r \in S : r.non_root,
     warnings        |-> \E r \in S : r.warnings,
     reports_seen    |-> Len(rs)]

saturating_sub(m, n) == IF m >= n THEN m - n ELSE 0

(* OutcomeBuilder::finish; output_failed is set afterwards by the callers. *)
finish(agg, hosts_requested, records_lost, output_failed) ==
    [verdict         |-> agg.verdict,
     hosts_missing   |-> saturating_sub(hosts_requested, agg.reports_seen),
     records_lost    |-> records_lost,
     scanners_failed |-> agg.scanners_failed,
     non_root        |-> agg.non_root,
     warnings        |-> agg.warnings,
     output_failed   |-> output_failed]

is_full(c) ==
    /\ c.hosts_missing = 0
    /\ c.records_lost = 0
    /\ ~c.scanners_failed
    /\ ~c.non_root
    /\ ~c.warnings
    /\ ~c.output_failed

EXIT_CLEAN == 0
EXIT_CRITICAL == 1
EXIT_DEGRADED == 2
EXIT_COMPROMISED == 3
EXIT_INCOMPLETE == 4
EXIT_USAGE == 64
EXIT_INTERNAL_ERROR == 70
EXIT_INTERRUPT == 130

(* Mutant: incomplete coverage is looked at before the verdict. *)
exit_code_coverageFirst(o, fail_on_incomplete) ==
    CASE o.verdict = NoVerdict -> EXIT_INCOMPLETE
      [] ~is_full(o) -> IF fail_on_incomplete THEN EXIT_INCOMPLETE ELSE EXIT_DEGRADED
      [] OTHER -> CASE o.verdict = "compromised" -> EXIT_COMPROMISED
                    [] o.verdict = "critical" -> EXIT_CRITICAL
                    [] OTHER -> EXIT_CLEAN

exit_code(o, fail_on_incomplete) ==
    CASE o.verdict = NoVerdict                -> EXIT_INCOMPLETE
      [] o.verdict = "compromised"            -> EXIT_COMPROMISED
      [] o.verdict \in {"clean", "critical"} ->
            IF ~is_full(o)
            THEN IF fail_on_incomplete THEN EXIT_INCOMPLETE ELSE EXIT_DEGRADED
            ELSE IF o.verdict = "critical" THEN EXIT_CRITICAL ELSE EXIT_CLEAN

(***************************************************************************)
(* The return paths of the fleet branch: an interrupted local scan turns   *)
(* every code but a compromise into 130.                                   *)
(***************************************************************************)
fleet_code(o, interrupted, fail_on_incomplete) ==
    IF interrupted
    THEN IF o.verdict = "compromised" THEN EXIT_COMPROMISED ELSE EXIT_INTERRUPT
    ELSE exit_code(o, fail_on_incomplete)
===============================================================================
