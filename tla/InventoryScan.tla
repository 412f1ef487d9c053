---------------------------- MODULE InventoryScan -----------------------------
(***************************************************************************)
(* The inventories of the security scanner (src/scanners/fs_inventory.rs,  *)
(* setuid.rs, file_capabilities.rs, mounts.rs, systemd_hardening.rs,       *)
(* kernel_taint.rs, confinement.rs, ftrace.rs, immutable.rs): what is      *)
(* installed, mounted or hooked, beside the loaded modules.  Of a host,    *)
(* also: h.other_fs, the directories that are mount points; h.inode, the   *)
(* inode of a path with more than one name; h.locked, the files with an    *)
(* immutable or append-only flag; h.systemctl, what the tool answers.      *)
(***************************************************************************)
EXTENDS KernelModules

CONSTANTS
    BUDGET,
    MAX_MOUNT_FINDINGS

-------------------------------------------------------------------------------
(* The binary directories, with the depth they are walked to.  The lines of a binary are its
   attributes: <<"setuid">>, <<"caps", names>>, <<"unparsed">>, <<"xattr", errno>>. *)
SCAN_DIRS == [usr_bin |-> 1, usr_lib |-> 2]
inode(h, p) == IF p \in DOMAIN h.inode THEN h.inode[p] ELSE p

(* What a walk of so many levels meets in a directory, in its order: directories it enters, those
   on another file system, and files. *)
listings(h) ==
    LET below[n \in 0..Max({SCAN_DIRS[d] : d \in DOMAIN SCAN_DIRS})] ==
            [dir \in {p \in DOMAIN h.file : is_dir(h, p)} |->
                IF n = 0 THEN <<>>
                ELSE LET inside == SetToSeq(dir_entries(h, dir))
                         met(p) == IF is_dir(h, p) /\ n > 1
                                   THEN IF p \in h.other_fs THEN <<<<"mount", p>>>>
                                        ELSE <<<<"dir", p>>>> \o below[n - 1][p]
                                   ELSE IF is_file(h, p) THEN <<<<"file", p, inode(h, p)>>>>
                                   ELSE <<>>
                     IN FlattenSeq([i \in DOMAIN inside |-> met(inside[i])])]
    IN below

(* w.over once the budget of the root is spent and there is more.  A file known by another name
   costs nothing. *)
visit(w, met) ==
    LET seen == [w EXCEPT !.seen = @ \cup {met[3]}]
    IN CASE w.over -> w
         [] ~w.over /\ met[1] = "dir" -> [w EXCEPT !.over = @ \/ w.budget = 0]
         [] ~w.over /\ met[1] = "mount" ->
                [w EXCEPT !.warns = @ \cup {<<met[2], "different filesystem">>}]
         [] ~w.over /\ met[1] = "file" ->
                IF met[3] \in w.seen THEN w
                ELSE IF w.budget = 0 THEN [seen EXCEPT !.over = TRUE]
                ELSE [seen EXCEPT !.budget = @ - 1, !.files = @ \cup {met[2]}]
(* One root after the other, each with a budget of its own. *)
walk_recursive(listed) ==
    LET root(w, met) ==
            LET walked == FoldLeft(visit, [w EXCEPT !.budget = BUDGET, !.over = FALSE], met)
            IN [walked EXCEPT !.warns = @ \cup Where(walked.over, {<<met[1][2], "budget">>})]
        unwalked == [files |-> {}, seen |-> {}, budget |-> 0, over |-> FALSE,
                     warns |-> Where(listed = <<>>, {<<"binary_inventory", "no roots">>})]
    IN FoldLeft(root, unwalked, listed)
walk_scannable_dirs(h) ==
    LET roots == SetToSeq({d \in DOMAIN SCAN_DIRS : is_dir(h, d)})
    IN walk_recursive([i \in DOMAIN roots |->
            <<<<"dir", roots[i]>>>> \o listings(h)[SCAN_DIRS[roots[i]]][roots[i]]])

(* An extended attribute that may not be read is passed over, any other error is noted. *)
gather_binary_inventory(h) ==
    LET w == walk_scannable_dirs(h)
        attrs(p) == lines_in(h, {p})
        setuid == {p \in w.files : <<"setuid">> \in attrs(p)}
        caps == UNION {{<<"file_capabilities", p, a[2]>> :
                            a \in {b \in attrs(p) : b[1] = "caps"}} : p \in w.files}
        blind == UNION {{<<p, a[1]>> : a \in {b \in attrs(p) : b[1] = "unparsed"
                            \/ (b[1] = "xattr" /\ b[2] # "EACCES")}} : p \in w.files}
    IN Asking({<<"setuid_files", p>> : p \in setuid} \cup caps, w.warns \cup blind,
              setuid \cup {c[2] : c \in caps})

-------------------------------------------------------------------------------
(* Mounts that hide a process or a log.  A line: <<"mount", what is covered, tmpfs or bind>>. *)
classify_line(l) ==
    IF l[2] = "proc_pid" THEN {<<"mount_masking", l[2], "pid">>}
    ELSE Where(l[2] = "var_log" /\ l[3] \in {"tmpfs", "bind"}, {<<"mount_masking", l[2], l[3]>>})
scan_mount_masking(h) ==
    LET r == read_procfs_capped(h, "mountinfo")
        kept == Capped(UNION {classify_line(l) : l \in ToSet(r.lines)}, MAX_MOUNT_FINDINGS,
                       "mountinfo")
    IN Piece(kept.found, kept.warns \cup Notes("mountinfo", r, AnyError))

-------------------------------------------------------------------------------
(* systemd units: the hardening directives a running service lacks.  A unit: its id, whether
   systemctl show answers for it, whether it is live and not systemd's own, whether it runs as
   root, and the directives it leaves out. *)
ROOT_IRRELEVANT == {"NoNewPrivileges", "ProtectHome"}
evaluate_unit(u) ==
    LET missing == IF u.root THEN u.lacks \ ROOT_IRRELEVANT ELSE u.lacks
    IN Where(u.live /\ missing # {}, {<<"systemd_hardening", u.id, missing>>})
scan_systemd_hardening(h) ==
    LET answered == {u \in h.systemctl.units : u.answers}
    IN IF h.systemctl.state # "ok" THEN Piece({}, {<<"systemctl", h.systemctl.state>>})
       ELSE Piece(UNION {evaluate_unit(u) : u \in answered},
                  Where(answered # h.systemctl.units, {<<"systemctl", "unanswered">>}))

-------------------------------------------------------------------------------
(* Kernel taint: a line is <<"bits", set>>, anything else does not parse. *)
TAINT_SECURITY_RELEVANT == {1, 3, 13, 18}
decode_taint(bits) == {<<"kernel_taint", b, b \in TAINT_SECURITY_RELEVANT>> : b \in bits}
gather_kernel_taint(h) ==
    LET r == read_procfs_capped(h, "tainted")
        parsed == r.err = "none" /\ r.lines # <<>> /\ r.lines[1][1] = "bits"
    IN Piece(IF parsed THEN decode_taint(r.lines[1][2]) ELSE {<<"kernel_taint", "unavailable">>},
             Where(~parsed, {<<"tainted", "unknown">>}))

(* Security modules: a list or a mode that cannot be read passes without a word. *)
gather_confinement(h) ==
    LET lsms == {l[1] : l \in ToSet(read_procfs_capped(h, "lsm").lines)}
        enforce == read_procfs_capped(h, "selinux_enforce").lines
        denied == {p \in DOMAIN h.proc : ~h.proc[p].open}
        lax == {p \in DOMAIN h.proc \ denied : h.proc[p].complain}
        apparmor == "apparmor" \in lsms
    IN Piece({<<"lsms", l>> : l \in lsms}
             \cup Where("selinux" \in lsms /\ enforce = <<<<"0">>>>, {<<"selinux_permissive">>})
             \cup Where(apparmor, {<<"complain_profiles", p>> : p \in lax}),
             Where(apparmor /\ denied # {}, {<<"attr_current", "PermissionDenied">>}))

-------------------------------------------------------------------------------
(* System calls with a hook: a module's hook or one nobody owns is reported, unless a tracer is
   at work.  A line: <<"hook", function, who>>, <<"kprobe", symbol>>. *)
function_tracer_active(h) ==
    \E p \in {"current_tracer"} \cup dir_entries(h, "instances") :
        read_procfs_capped(h, p).lines \notin {<<>>, <<<<"nop">>>>}
gather_ftrace_hooks(h) ==
    LET hooks == read_procfs_capped(h, "enabled_functions")
        probes == read_procfs_capped(h, "kprobe_events")
        tracing == function_tracer_active(h)
        foreign == {l \in ToSet(hooks.lines) : l[3] \in {"module", "unresolved"}}
    IN IF ~exists(h, "enabled_functions") THEN Piece({}, {<<"tracefs", "NotFound">>})
       ELSE Piece({<<"syscall_kprobes", l[2]>> : l \in ToSet(probes.lines)}
                  \cup Where(~tracing, {<<"ftrace_hooks", l[2], l[3]>> : l \in foreign}),
                  Notes("kprobe_events", probes, {}) \cup Notes("enabled_functions", hooks, AnyError)
                  \cup Where(tracing /\ hooks.lines # <<>>, {<<"ftrace", "suppressed">>}))

(* Files nobody should have locked against changes. *)
TRUST_ANCHORS == {"passwd", "shadow", "sudoers", "ld.so.preload", "sshd_config", "crontab"}
scan_immutable_anchors(h) ==
    LET anchors == {a \in TRUST_ANCHORS : hidden_by_dir(h, a) \/ exists(h, canonical(h, a))}
        shut(a) == hidden_by_dir(h, a) \/ ~h.file[canonical(h, a)].open
    IN Piece({<<"immutable_anchors", a>> :
                a \in {b \in anchors : ~shut(b) /\ canonical(h, b) \in h.locked}},
             {<<a, "attributes">> : a \in {b \in anchors : shut(b)}})

(* Where a read that fails is passed over without a word, and where a cut is. *)
InventorySilent(h) ==
    LET roots == DOMAIN SCAN_DIRS IN
    [errors |-> roots \cup (UNION {children(h, d) : d \in roots}) \cup {"lsm", "selinux_enforce"}
                \cup children(h, "sys_module") \cup {"kprobe_events", "current_tracer", "instances"}
                \cup children(h, "instances"),
     cuts |-> {"lsm", "selinux_enforce", "current_tracer", "tainted"}
              \cup children(h, "sys_module")]
===============================================================================
