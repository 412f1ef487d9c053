-------------------------------- MODULE SafeIo --------------------------------
(***************************************************************************)
(* src/safe_io.rs: how a scanner reads the files of a host.  A host h is a *)
(* record: h.file gives the files by path, h.dir the directory of a path   *)
(* where that matters, h.link the target of a symbolic link, h.cap the     *)
(* number of lines the capped readers keep of each file.  A path without a *)
(* file is missing.                                                        *)
(***************************************************************************)
EXTENDS Naturals, Sequences, SequencesExt, FiniteSetsExt

(* kind: file, dir, or special (a fifo or a device); open: whether the scanner may read it;
   unsafe: someone else than root may write it (unsafe_mode of scanners/integrity.rs). *)
Text(lines) ==
    [kind |-> "file", open |-> TRUE, lines |-> lines, children |-> {}, unsafe |-> FALSE]
Dir(paths) == [Text(<<>>) EXCEPT !.kind = "dir", !.children = paths]

exists(h, p) == p \in DOMAIN h.file
is_dir(h, p) == exists(h, p) /\ h.file[p].kind = "dir"
is_file(h, p) == exists(h, p) /\ h.file[p].kind = "file"
lines_in(h, files) == UNION {ToSet(h.file[p].lines) : p \in files \cap DOMAIN h.file}

(* std::fs::read_dir(p) is Ok, and the entries it gives. *)
listable(h, p) == is_dir(h, p) /\ h.file[p].open
children(h, p) == IF is_dir(h, p) THEN h.file[p].children ELSE {}
dir_entries(h, p) == IF listable(h, p) THEN children(h, p) ELSE {}

Result(err, lines, truncated) == [err |-> err, lines |-> lines, truncated |-> truncated]

(* For the kernel's own files: the first h.cap[p] lines. *)
read_procfs_capped(h, p) ==
    IF ~exists(h, p) THEN Result("NotFound", <<>>, FALSE)
    ELSE IF ~h.file[p].open THEN Result("PermissionDenied", <<>>, FALSE)
    ELSE LET lines == h.file[p].lines
         IN Result("none", SubSeq(lines, 1, Min({h.cap[p], Len(lines)})), Len(lines) > h.cap[p])
(* For files a host may have replaced: opens without blocking and refuses a fifo or a device. *)
read_file_capped_regular_waits(h, p) ==
    LET r == read_procfs_capped(h, p)
    IN IF r.err = "none" /\ ~is_file(h, p) THEN Result("Blocked", <<>>, FALSE) ELSE r
read_file_capped_regular(h, p) ==
    LET r == read_procfs_capped(h, p)
    IN IF r.err = "none" /\ ~is_file(h, p) THEN Result("InvalidData", <<>>, FALSE) ELSE r

(* What the callers do with the result: a note for a truncated file and for the errors in
   noted, silence for the others.  A read that never returns is noted to be told apart. *)
AnyError == {"NotFound", "PermissionDenied", "InvalidData"}
ErrorsButMissing == {"PermissionDenied", "InvalidData"}
Notes_whole(p, r, noted) == {<<p, e>> : e \in {r.err} \cap (noted \cup {"Blocked"})}
Notes(p, r, noted) ==
    {<<p, e>> : e \in {r.err} \cap (noted \cup {"Blocked"})}
    \cup (IF r.truncated THEN {<<p, "truncated">>} ELSE {})

(* scanners/integrity.rs: a closed directory hides even whether the file exists. *)
hidden_by_dir(h, p) == p \in DOMAIN h.dir /\ exists(h, h.dir[p]) /\ ~h.file[h.dir[p]].open
unsafe_dir(h, p) == p \in DOMAIN h.dir /\ exists(h, h.dir[p]) /\ h.file[h.dir[p]].unsafe
assess_writability(h, p) ==
    IF hidden_by_dir(h, p) THEN "Unknown"
    ELSE IF ~exists(h, p) THEN "Missing"
    ELSE IF h.file[p].unsafe \/ unsafe_dir(h, p) THEN "NonRootWritable"
    ELSE "RootOnly"

canonical(h, p) == IF p \in DOMAIN h.link THEN h.link[p] ELSE p

(* What a scanner returns: entries of the report (tuples: the list, the key, the rest), the
   warnings it records, and the paths whose package it asks for. *)
Asking(found, warns, ask) == [found |-> found, warns |-> warns, ask |-> ask]
Piece(found, warns) == Asking(found, warns, {})
All(pieces) ==
    Asking(UNION {p.found : p \in pieces}, UNION {p.warns : p \in pieces},
           UNION {p.ask : p \in pieces})
Where(cond, found) == IF cond THEN found ELSE {}

(* A list with a cap keeps the first entries it meets and says that there were more. *)
Capped(found, max, name) ==
    LET order == SetToSeq(found)
        more == Cardinality(found) > max
    IN Piece(IF more THEN {f \in found : \E i \in 1..max : order[i] = f} ELSE found,
             Where(more, {<<name, "cap">>}))

(* The same host with nothing in the scanner's way, except errors at the paths in errors and
   cuts at the paths in cuts. *)
unhindered(h, errors, cuts) ==
    [h EXCEPT
        !.cap = [p \in DOMAIN h.file |-> IF p \in cuts THEN h.cap[p] ELSE Len(h.file[p].lines)],
        !.file = [p \in DOMAIN h.file |->
                    [h.file[p] EXCEPT !.open = IF p \in errors THEN @ ELSE TRUE]]]
===============================================================================
