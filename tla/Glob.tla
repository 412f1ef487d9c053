--------------------------------- MODULE Glob ---------------------------------
(* glob_match of src/acceptance.rs, used for the hosts of accept.json and for the Host
   blocks of ssh_config.  Names and patterns are sequences of characters. *)
EXTENDS Integers, Sequences

glob_match(pattern, s) ==
    LET go[at \in (1 .. Len(pattern) + 1) \X (1 .. Len(s) + 1)] ==
            LET i == at[1]
                j == at[2]
            IN  IF i > Len(pattern) THEN j > Len(s)
                ELSE IF pattern[i] = "*" THEN go[<<i + 1, j>>] \/ (j <= Len(s) /\ go[<<i, j + 1>>])
                ELSE j <= Len(s) /\ pattern[i] \in {"?", s[j]} /\ go[<<i + 1, j + 1>>]
    IN go[<<1, 1>>]
===============================================================================
