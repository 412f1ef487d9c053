------------------------------ MODULE MCRemoteScan -----------------------------
(* Budgets of no tick or one: each stage can end before or at its deadline. *)
EXTENDS RemoteScan

Opt(copy, keep, path, pass) == [copy |-> copy, keep |-> keep, path |-> path, pass |-> pass]

MCOptions ==
    { Opt(TRUE, FALSE, FALSE, TRUE),    \* --copy-binary, sudo with a password
      Opt(TRUE, FALSE, TRUE, FALSE),    \* --copy-binary --remote-path
      Opt(TRUE, TRUE, TRUE, FALSE),     \* ... --keep-binary
      Opt(FALSE, FALSE, TRUE, FALSE) }  \* --remote-path: an installed binary
===============================================================================
