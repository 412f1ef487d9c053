---------------------------- MODULE OutcomeBuilder ----------------------------
(***************************************************************************)
(* The aggregator of src/main.rs on its own: any reports are fed to it, in *)
(* any order, and after each one finish and exit_code are asked.           *)
(***************************************************************************)
EXTENDS ExitContract

CONSTANTS Feeds,     \* the reports fed
          Requested,   \* hosts_requested
          MaxFed       \* bound: reports fed

ASSUME FeedsAssumption == Feeds \subseteq Report
ASSUME RequestedAssumption == Requested \in Nat /\ MaxFed \in Nat

VARIABLES builder, \* OutcomeBuilder
          fed      \* history: the reports fed, in order

outcomeVars == <<builder, fed>>

OutcomeInit == builder = EmptyAggregate /\ fed = <<>>

Feed(r) ==
    /\ Len(fed) < MaxFed
    /\ builder' = add(builder, r)
    /\ fed' = Append(fed, r)

OutcomeNext == (\E r \in Feeds : Feed(r)) \/ (Len(fed) = MaxFed /\ UNCHANGED outcomeVars)

OutcomeSpec == OutcomeInit /\ [][OutcomeNext]_outcomeVars

-------------------------------------------------------------------------------
(***************************************************************************)
(* Feeding reports one by one with add gives the aggregate of all of them, *)
(* whatever their order: the worst verdict, each coverage fact if any      *)
(* report has it, and their number.                                        *)
(***************************************************************************)
AggregateAgrees == builder = AggregateOf(fed)

Outcome(lost, failed) == finish(builder, Requested, lost, failed)

(***************************************************************************)
(* The exit-code table of README.md ("a stable public contract"), over     *)
(* every outcome the aggregate can lead to: 3 exactly for a compromise     *)
(* among the reports, 4 for no report at all, 0 and 1 only when nothing    *)
(* was missed, lost or undelivered, and a gap in coverage is 2, or 4 under *)
(* --fail-on-incomplete.                                                   *)
(***************************************************************************)
PublicContract ==
    \A lost \in 0 .. 1, failed, strict \in BOOLEAN :
        LET code   == exit_code(Outcome(lost, failed), strict)
            found  == {fed[i].verdict : i \in DOMAIN fed}
            gap    == \/ Len(fed) < Requested \/ lost > 0 \/ failed
                      \/ \E i \in DOMAIN fed : \/ fed[i].scanners_failed
                                               \/ fed[i].non_root \/ fed[i].warnings
        IN /\ code = EXIT_COMPROMISED <=> "compromised" \in found
           /\ code = EXIT_CLEAN <=> found = {"clean"} /\ ~gap
           /\ code = EXIT_CRITICAL <=>
                "critical" \in found /\ "compromised" \notin found /\ ~gap
           /\ code = EXIT_DEGRADED <=>
                found # {} /\ "compromised" \notin found /\ gap /\ ~strict
           /\ code = EXIT_INCOMPLETE <=>
                found = {} \/ ("compromised" \notin found /\ gap /\ strict)
===============================================================================
