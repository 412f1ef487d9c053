------------------------------- MODULE SshConfig -------------------------------
(***************************************************************************)
(* --hosts-from-ssh-config: extract_hosts of src/ssh_config.rs reads the   *)
(* file line by line and gives the hosts of the blocks that the operator's *)
(* patterns ask for.  A line is [kind, args], args a sequence of words.    *)
(***************************************************************************)
EXTENDS Glob, SequencesExt

CONSTANTS
    Lines,      \* the lines a file may have
    MaxLines,   \* bound on its length
    Asked       \* the patterns of --hosts-from-ssh-config

(* A word is a sequence of characters, and not empty. *)
Word == Seq(STRING) \ {<<>>}
ASSUME LinesAssumption == \A l \in Lines : l.args \in Seq(Word)

VARIABLES
    reading,    \* FALSE once the end of the file was reached
    lines,      \* what was read
    blocks,     \* the Host blocks that are complete
    current,    \* the block being read, NoBlock outside of any
    warnings,   \* what was said about the file
    targets     \* the hosts to scan

configVars == <<reading, lines, blocks, current, warnings, targets>>

NoName == <<>>
NoBlock == [aliases |-> <<>>, host_name |-> NoName, open |-> FALSE]
Close(bs, b) == IF b.open THEN Append(bs, b) ELSE bs

StartReading ==
    /\ reading = TRUE
    /\ lines = <<>> /\ blocks = <<>> /\ current = NoBlock
    /\ warnings = {} /\ targets = <<>>

TakeHost(l) ==
    /\ l.kind = "host"
    /\ blocks' = Close(blocks, current)
    /\ current' = [aliases |-> l.args, host_name |-> NoName, open |-> TRUE]
    /\ UNCHANGED warnings

(* The first HostName of a block counts. *)
TakeHostName(l) ==
    /\ l.kind = "hostname"
    /\ IF ~current.open THEN warnings' = warnings \cup {"stray"} /\ UNCHANGED current
       ELSE /\ current' = IF current.host_name = NoName /\ l.args # <<>>
                          THEN [current EXCEPT !.host_name = l.args[1]] ELSE current
            /\ UNCHANGED warnings
    /\ UNCHANGED blocks

TakeInclude(l) ==
    /\ l.kind = "include"
    /\ warnings' = warnings \cup {"include"}
    /\ UNCHANGED <<blocks, current>>

TakeMatch_within(l) ==
    /\ l.kind = "match"
    /\ warnings' = warnings \cup {"match"}
    /\ UNCHANGED <<blocks, current>>
(* A Match ends the block before it. *)
TakeMatch(l) ==
    /\ l.kind = "match"
    /\ warnings' = warnings \cup {"match"}
    /\ blocks' = Close(blocks, current)
    /\ current' = NoBlock

TakeOther(l) == l.kind = "other" /\ UNCHANGED <<blocks, current, warnings>>

ReadLine(l) ==
    /\ reading /\ Len(lines) < MaxLines
    /\ TakeHost(l) \/ TakeHostName(l) \/ TakeInclude(l) \/ TakeMatch(l) \/ TakeOther(l)
    /\ lines' = Append(lines, l)
    /\ UNCHANGED <<reading, targets>>

-------------------------------------------------------------------------------
is_glob(name) == \E i \in DOMAIN name : name[i] \in {"*", "?"}
asked_for(alias) == alias[1] # "!" /\ \E p \in Asked : glob_match(p, alias)

(* The host of a block: its HostName, else the first alias asked for if that is a name. *)
host_of(b) ==
    LET asked == {i \in DOMAIN b.aliases : asked_for(b.aliases[i])}
        alias == b.aliases[Min(asked)]
    IN IF asked = {} THEN NoName
       ELSE IF b.host_name # NoName THEN b.host_name
       ELSE IF is_glob(alias) THEN NoName ELSE alias

(* Of the hosts there are, first occurrences only. *)
dedup(s) ==
    LET kept[n \in 0 .. Len(s)] ==
            IF n = 0 THEN <<>>
            ELSE IF s[n] \in {NoName} \cup ToSet(kept[n - 1]) THEN kept[n - 1]
            ELSE Append(kept[n - 1], s[n])
    IN kept[Len(s)]

EndOfFile ==
    /\ reading
    /\ reading' = FALSE
    /\ LET all == Close(blocks, current)
       IN targets' = dedup([i \in DOMAIN all |-> host_of(all[i])])
    /\ lines' = <<>> /\ blocks' = <<>> /\ current' = NoBlock /\ warnings' = {}
===============================================================================
