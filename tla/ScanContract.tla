----------------------------- MODULE ScanContract -----------------------------
(***************************************************************************)
(* What a scan of this machine promises about its own gaps: whatever got in*)
(* the way of a scanner while it ran is told in the report, by name, or the*)
(* report says that there was more than it could hold; and one report is   *)
(* delivered, after which nothing changes.  Nothing is said of how many    *)
(* scanners run, in which order, or how they reach the report.             *)
(***************************************************************************)
CONSTANTS
    Gap,            \* what can get in the way of a scanner
    nothing         \* no report yet

VARIABLES
    met,            \* the gaps met so far
    delivered       \* the report: what it tells, and whether it says that there is more

vars == <<met, delivered>>

Report == [told : SUBSET Gap, more : BOOLEAN]

Init == met = {} /\ delivered = nothing

Meet ==
    /\ delivered = nothing
    /\ met' \in SUBSET Gap /\ met \subseteq met'
    /\ UNCHANGED delivered

Deliver ==
    /\ delivered = nothing
    /\ delivered' \in Report
    /\ delivered'.told \subseteq met
    /\ delivered'.told # met => delivered'.more
    /\ UNCHANGED met

Next == Meet \/ Deliver

Spec == Init /\ [][Next]_vars
===============================================================================
