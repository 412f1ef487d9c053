--------------------------- MODULE PersistenceScan ----------------------------
(***************************************************************************)
(* What the persistence task reads (src/scanners/preload.rs, ld_so_conf.rs,*)
(* generators.rs, pam.rs, exec_provenance.rs, kernel_facts.rs): the ways a *)
(* program is started or loaded without anybody asking.  Of a host, also:  *)
(* h.volatile, the paths on volatile file systems; h.proc, the processes   *)
(* with what they map and what a capped read of it shows; h.pam_dirs, the  *)
(* modules in PAM's own directories; h.vendor, the units in the vendor's.  *)
(***************************************************************************)
EXTENDS SafeIo

CONSTANTS
    MAX_CONF_FILES,
    MAX_QUEUE_LEN,
    MAX_GENERATORS,
    MAX_PAM_FINDINGS,
    MAX_EXEC_FINDINGS
ASSUME LoaderLimits == {MAX_CONF_FILES, MAX_QUEUE_LEN} \subseteq Nat

volatile(h, p) == p \in h.volatile
parent_takeable(h, p) == assess_writability(h, p) = "Missing" /\ unsafe_dir(h, p)

-------------------------------------------------------------------------------
(* /etc/ld.so.preload, and how many processes map each entry. *)
readable_pids(h) == {p \in DOMAIN h.proc : h.proc[p].open}
mapping(h, path) ==
    Cardinality({p \in readable_pids(h) : canonical(h, path) \in h.proc[p].read})
hindered(h) == \E p \in DOMAIN h.proc : ~h.proc[p].open \/ h.proc[p].read # h.proc[p].maps
(* When a process could not be read, or not to the end, a count of zero is dropped: unknown, not
   none. *)
count_mapped(h, paths) ==
    LET counted == {p \in paths : ~hindered(h) \/ mapping(h, p) > 0}
    IN Piece(Where(readable_pids(h) # {}, {<<"mapped_by_pids", p, mapping(h, p)>> : p \in counted}),
             Where(hindered(h) /\ paths # {}, {<<"maps", "partial">>}))

scan_ld_preload(h) ==
    LET r == read_file_capped_regular(h, "ld.so.preload")
        paths == {l[2] : l \in ToSet(r.lines)}
        mapped == count_mapped(h, paths)
    IN Asking({<<"preload_injections", p, volatile(h, p)>> : p \in paths} \cup mapped.found,
              Notes("ld.so.preload", r, ErrorsButMissing) \cup mapped.warns, paths)

-------------------------------------------------------------------------------
(* The directories of the dynamic loader: a worklist of files, last in first out. *)
Worklist(queue, seen, dirs, warns) ==
    [queue |-> queue, seen |-> seen, dirs |-> dirs, warns |-> warns]
Grow(w, files) ==
    LET room == IF MAX_QUEUE_LEN > Len(w.queue) THEN MAX_QUEUE_LEN - Len(w.queue) ELSE 0
    IN Worklist(w.queue \o SubSeq(files, 1, Min({room, Len(files)})), w.seen, w.dirs,
                w.warns \cup Where(Len(files) > room, {<<"ld.so.conf", "queue">>}))
Warned(w, warning) == Worklist(w.queue, w.seen, w.dirs, w.warns \cup {warning})
(* A line <<"include", path>> or, with a pattern, <<"includeglob", directory>>; to name a directory
   is to name all that is in it. *)
expand_include(h, w, line) ==
    IF Len(w.queue) >= MAX_QUEUE_LEN THEN Warned(w, <<"ld.so.conf", "queue">>)
    ELSE IF line[1] = "include" /\ ~is_dir(h, line[2])
         THEN Worklist(Append(w.queue, line[2]), w.seen, w.dirs, w.warns)
    ELSE IF listable(h, line[2]) THEN Grow(w, SetToSeq(dir_entries(h, line[2])))
    ELSE Warned(w, <<line[2], "unreadable">>)
expand_all(h, w, lines) ==
    LET upto[i \in 0..Len(lines)] ==
            IF i = 0 THEN w
            ELSE IF lines[i][1] = "dir" THEN upto[i - 1]
            ELSE expand_include(h, upto[i - 1], lines[i])
    IN upto[Len(lines)]

next_conf(h, w) ==
    LET f == Last(w.queue)
        popped == Front(w.queue)
        r == read_file_capped_regular(h, f)
        read == Worklist(popped, w.seen \cup {f},
                         w.dirs \cup {l[2] : l \in {m \in ToSet(r.lines) : m[1] = "dir"}},
                         w.warns \cup Notes(f, r, ErrorsButMissing))
    IN IF w.queue = <<>> THEN w
       ELSE IF Cardinality(w.seen) >= MAX_CONF_FILES
            THEN Worklist(<<>>, w.seen, w.dirs, w.warns \cup {<<"ld.so.conf", "files">>})
       ELSE IF f \in w.seen THEN Worklist(popped, w.seen, w.dirs, w.warns)
       ELSE expand_all(h, read, r.lines)
(* Each of at most MAX_CONF_FILES files fills the queue at most once more. *)
conf_turns == (MAX_CONF_FILES + 1) * (MAX_QUEUE_LEN + 1)
conf_worklist(h, start) ==
    LET after[n \in 0..conf_turns] == IF n = 0 THEN start ELSE next_conf(h, after[n - 1])
    IN after[conf_turns]

(* A directory is reported when it is volatile or others may write it; one that is missing,
   when that holds of the directory it would be created in. *)
classify_dir(h, d) ==
    IF hidden_by_dir(h, d) THEN FALSE
    ELSE IF ~exists(h, d) THEN d \in DOMAIN h.dir /\ (volatile(h, h.dir[d]) \/ unsafe_dir(h, d))
    ELSE is_dir(h, d) /\ (volatile(h, d) \/ h.file[d].unsafe)
scan_ld_so_conf(h) ==
    LET fresh == Worklist(<<>>, {}, {}, {})
        conf_d == expand_include(h, fresh, <<"includeglob", "ld.so.conf.d">>)
        w == conf_worklist(h, Worklist(Append(conf_d.queue, "ld.so.conf"), conf_d.seen, conf_d.dirs,
                                       conf_d.warns))
    IN Piece({<<"ld_so_conf_injections", d>> : d \in {e \in w.dirs : classify_dir(h, e)}}, w.warns)

-------------------------------------------------------------------------------
(* systemd generators: programs that run as root at every boot. *)
GENERATOR_DIRS == [etc_generators |-> "Admin", run_generators |-> "Runtime",
                   usr_generators |-> "Vendor"]
inspect_entry(h, p, origin) ==
    LET target == canonical(h, p) IN
    Piece(Where(exists(h, target) => h.file[target].kind = "file",
                {<<"generators", p, origin, assess_writability(h, target), volatile(h, target)>>}),
          Where(hidden_by_dir(h, target), {<<p, "unresolvable">>}))
inspect_dir(h, dir, origin) ==
    Where(exists(h, dir) /\ h.file[dir].unsafe,
          {<<"generators", dir, origin, "search_dir", FALSE>>})
scan_generators(h) ==
    LET dirs == DOMAIN GENERATOR_DIRS
        seen == All(UNION {{inspect_entry(h, p, GENERATOR_DIRS[d]) : p \in dir_entries(h, d)} :
                            d \in dirs})
        kept == Capped(seen.found \cup UNION {inspect_dir(h, d, GENERATOR_DIRS[d]) : d \in dirs},
                       MAX_GENERATORS, "generators")
        programs == {f \in kept.found : f[4] # "search_dir"}
    IN Asking(kept.found,
              seen.warns \cup kept.warns
              \cup {<<d, "unreadable">> : d \in {e \in dirs : exists(h, e) /\ ~listable(h, e)}},
              {canonical(h, f[2]) : f \in programs})

-------------------------------------------------------------------------------
(* PAM: the services' files, the modules they load and the programs pam_exec runs.  A line:
   <<"module", path>> or <<"exec", path>>. *)
pam_entry(kind, h, p) ==
    {<<"pam_injections", p, kind, assess_writability(h, p), volatile(h, p), parent_takeable(h, p)>>}
pam_line(h, line) ==
    LET p == canonical(h, line[2])
        suspect == \/ p \notin h.pam_dirs
                   \/ assess_writability(h, p) = "NonRootWritable"
                   \/ volatile(h, p) \/ parent_takeable(h, p)
    IN IF line[1] = "exec" THEN pam_entry("ExecScript", h, line[2])
       ELSE Where(suspect, pam_entry("Module", h, p))
scan_pam(h) ==
    LET services == {p \in dir_entries(h, "pam.d") : is_file(h, p)}
        read(p) == read_file_capped_regular(h, p)
        slots == UNION {pam_entry("Config", h, p) :
                            p \in {q \in services : assess_writability(h, q) # "RootOnly"}}
        lines == UNION {ToSet(read(p).lines) : p \in services}
        kept == Capped(slots \cup UNION {pam_line(h, l) : l \in lines}, MAX_PAM_FINDINGS, "pam")
    IN IF ~listable(h, "pam.d") THEN Piece({}, {<<"pam.d", "unreadable">>})
       ELSE Asking(kept.found,
                   kept.warns \cup UNION {Notes(p, read(p), {}) : p \in services},
                   {f[2] : f \in kept.found})

-------------------------------------------------------------------------------
(* Units and cron tables: what they start, as whom.  Lines: <<"Exec", path>>, <<"User", name>>
   of a unit, <<"cron", path, user>> of a table. *)
UNIT_DIRS ==
    [etc_units |-> "System", usr_units |-> "System", user_units |-> "User", root_units |-> "Root"]
unit_runs_as_root(lines) ==
    LET set == SelectSeq(lines, LAMBDA l : l[1] = "User")
    IN set = <<>> \/ Last(set)[2] = "root"
runs_as_root(scope, lines) == scope = "Root" \/ (scope = "System" /\ unit_runs_as_root(lines))
exec_entry(h, p, unit, as_root) ==
    <<"exec_start", p, unit, as_root, volatile(h, canonical(h, p)), assess_writability(h, p)>>

scan_service_file(h, unit, scope) ==
    LET r == read_file_capped_regular(h, unit)
        started == {l \in ToSet(r.lines) : l[1] = "Exec"}
    IN Piece({exec_entry(h, l[2], unit, runs_as_root(scope, r.lines)) : l \in started},
             Notes(unit, r, AnyError))
(* A drop-in directory of a unit is read like the unit. *)
units_of(h, dir) ==
    LET inside == dir_entries(h, dir)
    IN {p \in inside : ~is_dir(h, p)}
       \cup UNION {dir_entries(h, p) : p \in {q \in inside : is_dir(h, q)}}
scan_cron_files(h) ==
    LET tables == {"crontab"} \cup dir_entries(h, "cron.d")
        lines(p) == ToSet(read_file_capped_regular(h, p).lines)
    IN Piece(UNION {{exec_entry(h, l[2], p, l[3] = "root") : l \in lines(p)} : p \in tables}, {})

scan_exec_provenance(h) ==
    LET units == All(UNION {{scan_service_file(h, u, UNIT_DIRS[d]) : u \in units_of(h, d)} :
                                d \in DOMAIN UNIT_DIRS})
        kept == Capped(units.found \cup scan_cron_files(h).found, MAX_EXEC_FINDINGS, "exec")
    IN Asking(kept.found, units.warns \cup kept.warns,
              ({f[3] : f \in kept.found} \ h.vendor) \cup Where(h.deep, {f[2] : f \in kept.found}))

-------------------------------------------------------------------------------
(* Kernel switches that cannot be turned back: one whose value is unreadable or not a number is
   listed as unknown.  A line: <<"0">>, <<"1">> or <<"text">>. *)
ONE_WAY_SWITCHES == {"modules_disabled", "kexec_load_disabled"}
number(r) == IF r.lines = <<>> \/ r.lines[1][1] = "text" THEN "unknown" ELSE r.lines[1][1]
gather_one_way_switches(h) ==
    LET read(p) == read_procfs_capped(h, p)
        listed == {p \in ONE_WAY_SWITCHES : read(p).err # "NotFound"}
    IN Piece({<<"one_way_switches", p, number(read(p))>> : p \in listed},
             (UNION {Notes(p, read(p), AnyError) : p \in ONE_WAY_SWITCHES})
             \cup {<<p, "not a number">> :
                     p \in {q \in listed : read(q).err = "none" /\ number(read(q)) = "unknown"}})
gather_kernel_facts(h) ==
    LET read(p) == read_procfs_capped(h, p)
        known(p) == IF p = "modules_disabled" THEN number(read(p)) # "unknown"
                    ELSE read(p).err = "none"
        facts == {"core_pattern", "modules_disabled", "lockdown"}
    IN Piece({<<p, read(p).lines>> : p \in {q \in facts : known(q)}},
             {<<p, "unreadable">> : p \in {q \in facts : ~known(q)}})
gather_cpu_vulnerabilities(h) ==
    LET status(p) == read_procfs_capped(h, p)
    IN Piece({<<"cpu_vulnerabilities", p, status(p).lines>> :
                p \in {q \in dir_entries(h, "vulnerabilities") : status(q).err = "none"}},
             Where(exists(h, "vulnerabilities") /\ ~listable(h, "vulnerabilities"),
                   {<<"vulnerabilities", "unreadable">>}))

(* Where a read that fails is passed over without a word, and where a cut is. *)
PersistenceSilent(h) ==
    LET units == UNION {children(h, d) : d \in DOMAIN UNIT_DIRS}
    IN [errors |-> children(h, "pam.d") \cup {h.dir[p] : p \in DOMAIN h.dir} \cup DOMAIN UNIT_DIRS
                   \cup {u \in units : is_dir(h, u)} \cup {"crontab", "cron.d"}
                   \cup children(h, "cron.d") \cup children(h, "vulnerabilities"),
        cuts |-> {"core_pattern", "lockdown", "crontab"} \cup children(h, "cron.d")
                 \cup children(h, "vulnerabilities")]
===============================================================================
