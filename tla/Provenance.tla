------------------------------ MODULE Provenance ------------------------------
(***************************************************************************)
(* src/scanners/provenance.rs: which package owns a file.  A dpkg list is a*)
(* file named after its package, with a line <<"owns", path>> per file; the*)
(* apk database one file with lines <<"R", path, package>>; the rpm tool   *)
(* answers from h.rpm, a function, and a query of it may fail.             *)
(***************************************************************************)
EXTENDS SafeIo

(* A batch resolved: the database, the owners found, the warnings. *)
Index(source, map, warns) == [source |-> source, map |-> map, warns |-> warns]
NoOwners == [p \in {} |-> "none"]
unavailable(warns) == Index("Unavailable", NoOwners, warns \cup {<<"provenance", "unavailable">>})

(* Lists are read until every candidate has an owner; one that cannot be read is counted. *)
resolve_dpkg_quiet(h, candidates) ==
    LET read == {p \in dir_entries(h, "dpkg_info") : read_file_capped_regular(h, p).err = "none"}
        owners(p) == {q \in read : <<"owns", p>> \in ToSet(read_file_capped_regular(h, q).lines)}
    IN Index("Dpkg", [p \in {q \in candidates : owners(q) # {}} |-> CHOOSE o \in owners(p) : TRUE],
             {})
resolve_dpkg(h, candidates) ==
    LET lists == SetToSeq(dir_entries(h, "dpkg_info"))
        result(i) == read_file_capped_regular(h, lists[i])
        owner(n, p) == {i \in 1..n : <<"owns", p>> \in ToSet(result(i).lines)}
        done(n) == \A p \in candidates : owner(n, p) # {}
        last == Min({n \in 1..Len(lists) : done(n)} \cup {Len(lists)})
        read == {i \in 1..last : result(i).err = "none"}
        warns == {<<"provenance", e>> : e \in {result(i).err : i \in 1..last} \ {"none"}}
                 \cup Where(\E i \in read : result(i).truncated, {<<"provenance", "truncated">>})
    IN IF candidates = {} THEN Index("Dpkg", NoOwners, {})
       ELSE IF read = {} THEN unavailable(warns)
       ELSE Index("Dpkg", [p \in {q \in candidates : owner(last, q) # {}} |->
                                lists[Max(owner(last, p))]], warns)

resolve_apk(h, candidates) ==
    LET r == read_file_capped_regular(h, "apk_installed")
        owned == {l \in ToSet(r.lines) : l[2] \in candidates}
    IN IF candidates = {} THEN Index("Apk", NoOwners, {})
       ELSE IF r.err # "none" THEN unavailable({<<"provenance", r.err>>})
       ELSE Index(IF r.truncated THEN "PartialApk" ELSE "Apk",
                  [p \in {l[2] : l \in owned} |-> (CHOOSE l \in owned : l[2] = p)[3]],
                  Where(r.truncated, {<<"provenance", "truncated">>}))

(* One query per file; failing are the files whose query fails or takes too long. *)
resolve_rpm(h, candidates, failing) ==
    LET failed == candidates \cap failing
        owned == (candidates \ failed) \cap DOMAIN h.rpm
        unowned == (candidates \ failed) \ DOMAIN h.rpm
    IN IF candidates = {} THEN Index("Rpm", NoOwners, {})
       ELSE IF ~is_dir(h, "rpmdb") THEN unavailable({<<"provenance", "no rpmdb">>})
       ELSE IF ~h.rpm_tool THEN unavailable({<<"provenance", "no rpm">>})
       ELSE IF failed = candidates THEN unavailable({<<"provenance", "queries failed">>})
       ELSE Index("Rpm", [p \in owned |-> h.rpm[p]],
                  Where(failed # {}, {<<"provenance", "queries failed">>})
                  \cup Where(unowned # {}, {<<"provenance", "not owned">>}))

(* dpkg before apk before rpm: the first database that is there. *)
resolve_batch_uncached(h, candidates, failing) ==
    IF is_dir(h, "dpkg_info") THEN resolve_dpkg(h, candidates)
    ELSE IF is_file(h, "apk_installed") THEN resolve_apk(h, candidates)
    ELSE resolve_rpm(h, candidates, failing)

(* Who really owns a file. *)
owned(h, p) ==
    \/ is_dir(h, "dpkg_info")
       /\ \E q \in children(h, "dpkg_info") : <<"owns", p>> \in ToSet(h.file[q].lines)
    \/ is_file(h, "apk_installed")
       /\ \E l \in ToSet(h.file["apk_installed"].lines) : l[2] = p
    \/ is_dir(h, "rpmdb") /\ p \in DOMAIN h.rpm
===============================================================================
