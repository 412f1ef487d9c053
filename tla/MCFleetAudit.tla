----------------------------- MODULE MCFleetAudit -----------------------------
(* Small instances of FleetAudit. *)
EXTENDS FleetAudit

CONSTANTS l1, l2, r1, r2, r3

Clean == [verdict |-> "clean", scanners_failed |-> FALSE,
          non_root |-> FALSE, warnings |-> FALSE]
CriticalNonRoot == [Clean EXCEPT !.verdict = "critical", !.non_root = TRUE]
Critical == [Clean EXCEPT !.verdict = "critical"]
Compromised == [Clean EXCEPT !.verdict = "compromised"]

CleanOrCompromised == {Clean, Compromised}

(* One local and two remote hosts, the same list in every run. *)
MixedAddress == {l1, r1, r2}
MixedLists == {{l1, r1, r2}}
OneAlias == {l1}

OneReport == {CriticalNonRoot}
ThreeReports == {Clean, Critical, Compromised}

(* One local and one remote host, over two runs. *)
PairAddress == {l1, r1}
PairLists == {{l1, r1}}

(* Three remote hosts, two slots. *)
RemoteAddress == {r1, r2, r3}
RemoteLists == {{r1, r2, r3}}
NoAlias == {}
===============================================================================
