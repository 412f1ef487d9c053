---------------------------- MODULE MCChildRegistry ----------------------------
(* Two workers that compete for two pids. *)
EXTENDS ChildRegistry

CONSTANTS w1, w2, p1, p2

MCWorker == {w1, w2}
MCPid == {p1, p2}
===============================================================================
