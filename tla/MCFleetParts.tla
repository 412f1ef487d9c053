----------------------------- MODULE MCFleetParts -----------------------------
(* Two parts of the fleet branch that share nothing, each on its own: a behaviour either
   feeds the aggregator any reports or runs the JSONL stream. *)
EXTENDS OutcomeBuilder, JsonlStream

CONSTANTS a, b

FullReport == [verdict |-> "clean", scanners_failed |-> FALSE,
               non_root |-> FALSE, warnings |-> FALSE]

MCAddress == {a, b}
MCReports == {FullReport}
MCInitialFiles ==
    {EmptyFile, [EmptyFile EXCEPT !.recs = <<[host |-> a, report |-> FullReport]>>]}

NothingFed == fed = <<>>
NothingStreamed == tx /\ sent = <<>> /\ writer = "recv"

Aggregates == NothingStreamed /\ OutcomeNext /\ UNCHANGED writerVars
Streams == NothingFed /\ StreamNext /\ UNCHANGED outcomeVars

PartsInit == OutcomeInit /\ StreamInit
PartsSpec ==
    /\ PartsInit
    /\ [][Aggregates \/ Streams]_<<outcomeVars, writerVars>>
    /\ WF_writerVars(NothingFed /\ WriterStep /\ UNCHANGED outcomeVars)
    /\ WF_writerVars(NothingFed /\ DropTx /\ UNCHANGED outcomeVars)
===============================================================================
