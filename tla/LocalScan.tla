------------------------------ MODULE LocalScan -------------------------------
(***************************************************************************)
(* The scan of this machine: the tasks of ScanTasks with the scanners they *)
(* run, and what its report may be relied on for.                          *)
(***************************************************************************)
EXTENDS ScanTasks, AccessScan, PersistenceScan, InventoryScan

scan(h, scanner) ==
    CASE scanner = "access" -> AccessScan(h)
      [] scanner = "mounts" -> scan_mount_masking(h)
      [] scanner = "inventory" -> gather_binary_inventory(h)
      [] scanner = "hygiene" -> scan_account_hygiene(h)
      [] scanner = "systemd_hardening" -> scan_systemd_hardening(h)
      [] scanner = "taint" -> gather_kernel_taint(h)
      [] scanner = "cpu" -> gather_cpu_vulnerabilities(h)
      [] scanner = "confinement" -> gather_confinement(h)
      [] scanner = "kernel_modules" -> gather_kernel_modules(h)
      [] scanner = "ftrace" -> gather_ftrace_hooks(h)
      [] scanner = "immutable" -> scan_immutable_anchors(h)
      [] scanner = "kernel_facts" -> gather_kernel_facts(h)
      [] scanner = "one_way" -> gather_one_way_switches(h)
      [] scanner = "preload" -> scan_ld_preload(h)
      [] scanner = "exec" -> scan_exec_provenance(h)
      [] scanner = "ld_so_conf" -> scan_ld_so_conf(h)
      [] scanner = "generators" -> scan_generators(h)
      [] scanner = "pam" -> scan_pam(h)
      [] scanner = "network" -> gather_network_info(h)
      [] scanner = "docker" -> gather_runtime_topology(h)
      [] scanner = "mount_namespace" -> scan_mount_namespace_anomalies(h)

(* The tasks run these scanners. *)
ASSUME ScannersOfTheProgram ==
    \A h \in Hosts : \A s \in DOMAIN Scanned[h] : run(h, s) = scan(h, s)

(* A machine to scan.  A file has its lines, a directory finitely many entries and no lines, every reader a cap
   for every file, and no package is called none. *)
Fields ==
    {"file", "dir", "link", "cap", "sshd", "keys", "sysctl", "volatile", "proc", "pam_dirs", "vendor",
     "deep", "other_fs", "inode", "locked", "systemctl", "runtimes", "sockets", "proc_net", "host_ns",
     "firewall", "days", "rpm", "rpm_tool", "slow", "busy", "fragile"}
File(f) ==
    /\ f = [x \in {"kind", "open", "lines", "children", "unsafe"} |-> f[x]]
    /\ f.open \in BOOLEAN /\ f.lines \in Seq(ToSet(f.lines)) /\ IsFiniteSet(f.children)
    /\ f.kind = "dir" => f.lines = <<>>
Machine(h) ==
    /\ h = [x \in Fields |-> h[x]]
    /\ h.file = [p \in DOMAIN h.file |-> h.file[p]] /\ IsFiniteSet(DOMAIN h.file)
    /\ \A p \in DOMAIN h.file : File(h.file[p])
    /\ h.cap \in [DOMAIN h.file -> Nat]
    /\ IsFiniteSet(DOMAIN h.proc)
    /\ h.busy \subseteq Tasks
    /\ "none" \notin children(h, "dpkg_info")
    /\ \A l \in lines_in(h, {"apk_installed"}) : l[3] # "none"
    /\ \A p \in DOMAIN h.rpm : h.rpm[p] # "none"
ASSUME MachineAssumption == \A h \in Hosts : Machine(h)

(* Of several package databases only the first is asked (resolve_batch_uncached): a machine has
   one. *)
ASSUME OneDatabase ==
    \A h \in Hosts :
        /\ is_dir(h, "dpkg_info") => ~is_file(h, "apk_installed") /\ ~is_dir(h, "rpmdb")
        /\ is_file(h, "apk_installed") => ~is_dir(h, "rpmdb")

-------------------------------------------------------------------------------
(* Every scan ends in a report, whatever lies on the disk: no scanner waits for a fifo, and no
   task for another (safe_io::read_regular_capped, the join of run_local_scan_async). *)
ScanReturns == <>(report # none)

(* A report that tells of nothing in its way. *)
Silent ==
    /\ report # none
    /\ report.coverage_warnings = {} /\ report.failed_scanners = {}
    /\ \A f \in report.found : f[1] # "access_alignment.coverage_warnings"
Keys(found) == {<<f[1], IF Len(f) > 1 THEN f[2] ELSE "">> : f \in found}
Everything(h) == UNION {UNION {scan(h, Program[t][i]).found : i \in DOMAIN Program[t]} :
                            t \in h.busy}

(* The same machine with nothing in the way, but where a failure is passed over on purpose. *)
ideal(h) ==
    LET quiet == {AccessSilent(h), PersistenceSilent(h), InventorySilent(h), NamespaceSilent}
    IN unhindered(h, UNION {q.errors : q \in quiet}, UNION {q.cuts : q \in quiet})

(* A silent report is complete: it names everything that the same scanners would find if every
   file could be read to its end, but for the places where a failure is passed over on purpose
   (AccessSilent, PersistenceSilent, InventorySilent, NamespaceSilent name them).  A truncated or refused file, a
   spent budget, a list at its cap or a lost task never makes a report shorter in silence. *)
SilentMeansComplete ==
    Silent => Keys(Everything(ideal(host))) \subseteq Keys(report.found)

(* sudo: the files that the includes lead to, read to the end.  A closed directory is passed over,
   but for sudoers.d, which the hygiene scanner looks at too. *)
SudoFiles(h) ==
    LET shown(d) == regular(h, IF d = "sudoers.d" THEN children(h, d) ELSE dir_entries(h, d))
        names(l) == IF l[1] = "include" THEN {l[2]}
                    ELSE IF l[1] = "includedir" THEN shown(l[2]) ELSE {}
        leads(p) == IF is_dir(h, p) THEN shown(p) ELSE UNION {names(l) : l \in lines_in(h, {p})}
        onward(files) == files \cup UNION {leads(p) : p \in files}
        reach[n \in 0..Cardinality(DOMAIN h.file)] ==
            IF n = 0 THEN {"sudoers", "sudoers.d"} ELSE onward(reach[n - 1])
    IN reach[Cardinality(DOMAIN h.file)]

(* A chain of aliases leads to ALL: no set of names holds t, and the members of its names, without
   it. *)
Leads(lines, t) ==
    \A closed \in SUBSET tokens(lines, t) :
        t \in closed /\ (\A a \in closed : members(lines, a) \subseteq closed) => "ALL" \in closed

(* A silent report names everyone who becomes root without a password: the limits on the depth of
   includes and of aliases cost completeness only with a warning (sudoers::resolves_to_all,
   each_sudoers_entry_from). *)
NoRootRuleMissed ==
    Silent /\ "security" \in host.busy =>
        LET lines == lines_in(host, SudoFiles(host))
        IN \A l \in lines : l[1] = "nopasswd" /\ Leads(lines, l[3])
                                => <<"sudoers_nopasswd_all", l[2]>> \in report.found

(* The syntax of includes that the fallback shares with sshd: the word as the manual spells it
   and one absolute path, of a file or of the *.conf of a directory. *)
Shared(h, l) ==
    LET p == l[2][1]
    IN /\ l[1] = "Include" /\ alone(l) /\ p.plain /\ p.glob \in {"", "*"}
       /\ p.glob = "*" => p.matched \cap children(h, p.at) = ConfNames \cap children(h, p.at)
Plainly(h) ==
    \A l \in lines_in(h, {"sshd_config"}) : l[1] \in Includes =>
        /\ Shared(h, l)
        /\ \A p \in {l[2][1].at} \cup children(h, l[2][1].at) :
            exists(h, p) => h.file[p].open /\ \A m \in ToSet(h.file[p].lines) :
                                m[1] \notin Includes \cup {"match"}

(* The fallback parser of sshd_config is never milder than sshd -T, unless it says so or a
   directive hides behind an include it does not read as sshd does: one written otherwise than
   Shared, one of a file it may not read, or one inside an include
   (security::fallback_parse_main_config). *)
FallbackNoMilder ==
    LET effective == sshd_T(host)
    IN Silent /\ "security" \in host.busy /\ ~host.sshd /\ Plainly(host) =>
        /\ <<"password_auth">> \in effective => <<"password_auth">> \in report.found
        /\ <<"root_login", "no">> \in report.found => <<"root_login", "no">> \in effective
        /\ \A f \in effective : f[1] = "sshd_directives" => f \in report.found

(* Zero is an observation: a preloaded library shown to be mapped by no process is mapped by none,
   also when some process could not be looked at (preload::count_mapped). *)
ZeroIsZero ==
    report # none => \A f \in report.found :
        f[1] = "mapped_by_pids" /\ f[3] = 0
            => \A p \in DOMAIN host.proc : canonical(host, f[2]) \notin host.proc[p].maps

(* A file that a package owns is shown without one only with a warning about provenance, or the
   marker of the cap, in the same report, whichever task asked first and whatever the memo was
   told by a query that failed (provenance::resolve_batch). *)
UnpackagedIsTrue ==
    report # none =>
        \/ \A f \in report.found : f[1] = "package" /\ f[3] = "none" => ~owned(host, f[2])
        \/ \E w \in report.coverage_warnings : w[1] = "provenance" \/ w = CapReached

(* What a report says is not there was looked for and is not there. *)
AbsenceIsObserved == ZeroIsZero /\ UnpackagedIsTrue
===============================================================================
