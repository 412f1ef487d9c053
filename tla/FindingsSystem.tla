---------------------------- MODULE FindingsSystem ----------------------------
(***************************************************************************)
(* The rules of src/scoring.rs about files, the kernel, persistence,       *)
(* containers, accounts and the state of the host.                         *)
(***************************************************************************)
EXTENDS FindingsProcess

(* provenance_source: the package database; PartialApk lists packages but not their files. *)
attributable(r) == r.provenance \notin {"Unavailable", "PartialApk"}

classify_cap_binary(f, r) ==
    IF f.packaged THEN 0
    ELSE IF f.known THEN IF f.caps \subseteq {"net_raw"} THEN 0 ELSE 8
    ELSE IF attributable(r) THEN 8 ELSE 2

SEC_034_036(r) ==
    LET weights == {classify_cap_binary(f, r) : f \in r.file_capabilities} IN
    When(0 \in weights, Info("SEC-034", "security"))
    \cup When(weights \ {0} # {}, Sec("SEC-036", "security", Max(weights \ {0})))

classify_setuid(f, r) ==
    IF f.packaged THEN 0
    ELSE IF ~f.system_dir THEN 14
    ELSE IF attributable(r) THEN IF f.root_owner THEN 6 ELSE 12
    ELSE IF f.root_owner THEN 2 ELSE 10

SEC_037(r) ==
    LET weights == {classify_setuid(f, r) : f \in r.setuid_files} IN
    When(0 \in weights, Info("SEC-037", "security"))
    \cup When(weights \ {0} # {}, Sec("SEC-037", "security", Max(weights \ {0})))

SEC_035(r) == When(r.ebpf_progs # {}, Info("SEC-035", "security"))

(* Taint letters; a hidden module makes an unsigned or out-of-tree one suspicious. *)
SEC_038(r) ==
    LET forced == \E f \in r.kernel_taint : f.k \in {"F", "R", "N"}
        unsigned == \E f \in r.kernel_taint : f.k \in {"E", "O"}
        correlated == unsigned /\ r.hidden_modules # {}
    IN IF correlated THEN Sec("SEC-038", "security", 25)
       ELSE IF forced THEN Sec("SEC-038", "security", 10)
       ELSE When(unsigned, Info("SEC-038", "security"))

SEC_060(r) == When(\E v \in r.cpu_vulnerabilities : v.vulnerable, Info("SEC-060", "security"))
SEC_039(r) ==
    When(r.selinux_permissive, Sec("SEC-039", "security", 15))
    \cup When(r.complain_profiles # {}, Info("SEC-039", "security"))
SEC_040(r) == When(r.hidden_modules # {}, Sec("SEC-040", "security", 55))

(* A hook's callback is a module, an unresolved module or unknown. *)
SEC_041(r) ==
    LET correlated == \E h \in r.ftrace_hooks, m \in r.hidden_modules : h.callback = m.k
        module_backed == \E h \in r.ftrace_hooks : h.callback \notin {"unknown", "unresolved"}
    IN When(~r.live_tracer /\ r.ftrace_hooks # {},
            IF correlated THEN Sec("SEC-041", "security", 55)
            ELSE IF r.attribution_degraded /\ ~module_backed THEN Info("SEC-041", "security")
            ELSE Sec("SEC-041", "security", 30))

(* ld.so.preload: a volatile target outranks every doubt about its package. *)
preload_id(f, r) ==
    IF f.volatile THEN "SEC-042"
    ELSE IF f.packaged THEN "none"
    ELSE IF r.provenance = "Unavailable" THEN "SEC-049"
    ELSE IF f.mapped THEN "SEC-042" ELSE "SEC-050"
SEC_042_049_050(r) ==
    LET with(id) == {f \in r.preload_injections : preload_id(f, r) = id} IN
    When(with("SEC-042") # {},
         Sec("SEC-042", "persistence",
             IF \E f \in with("SEC-042") : f.volatile THEN 60 ELSE 55))
    \cup When(with("SEC-049") # {}, Sec("SEC-049", "persistence", 20))
    \cup When(with("SEC-050") # {}, Sec("SEC-050", "persistence", 30))

SEC_051(r) == When(r.ld_so_conf_injections # {}, Sec("SEC-051", "persistence", 30))

(* GeneratorClass of scanners/generators.rs. *)
classify_generator(g, r) ==
    IF g.origin = "SearchDir" \/ g.writability \in {"NonRootWritable", "Missing"} THEN "Ioc"
    ELSE IF g.writability = "Unknown" THEN "Unverifiable"
    ELSE IF g.volatile_escape THEN "Ioc"
    ELSE IF g.origin = "Vendor" \/ g.packaged THEN "Benign"
    ELSE IF r.provenance = "Unavailable" THEN "Unverifiable" ELSE "Unpackaged"
SEC_052_053_054(r) ==
    LET classes == {classify_generator(g, r) : g \in r.generators} IN
    When("Ioc" \in classes, Sec("SEC-052", "persistence", 55))
    \cup When("Unpackaged" \in classes, Sec("SEC-053", "persistence", 30))
    \cup When("Unverifiable" \in classes, Sec("SEC-054", "persistence", 20))

classify_pam(f) ==
    IF f.config /\ f.writability # "RootOnly" THEN "ioc"
    ELSE CASE f.writability = "NonRootWritable" -> "ioc"
           [] f.writability = "Missing" -> IF f.parent_takeable THEN "ioc" ELSE "none"
           [] f.writability = "Unknown" -> "unverifiable"
           [] OTHER -> IF f.volatile THEN "ioc" ELSE IF f.packaged THEN "none" ELSE "unpackaged"
SEC_055_056_057(r) ==
    LET classes == {classify_pam(f) : f \in r.pam_injections} IN
    When("ioc" \in classes, Sec("SEC-055", "persistence", 55))
    \cup When("unpackaged" \in classes, Sec("SEC-056", "persistence", 30))
    \cup When("unverifiable" \in classes, Sec("SEC-057", "persistence", 20))

(* ExecStart targets: rogue when the unit is neither packaged nor in a vendor directory. *)
unit_is_vendor_shipped(f) == f.unit_package \/ f.vendor_dir
target_exists(f) == f.writability \in {"RootOnly", "NonRootWritable"}
SEC_043(r) ==
    When(\E f \in r.exec_start : f.volatile /\ target_exists(f) /\ ~unit_is_vendor_shipped(f),
         Sec("SEC-043", "persistence", 55))
SEC_047(r) ==
    When(\E f \in r.exec_start : f.volatile /\ target_exists(f) /\ unit_is_vendor_shipped(f),
         Info("SEC-047", "persistence"))
SEC_048(r) ==
    LET missing == {f \in r.exec_start : f.volatile /\ f.writability = "Missing"} IN
    When(missing # {},
         IF \E f \in missing : ~unit_is_vendor_shipped(f) THEN Sec("SEC-048", "persistence", 20)
         ELSE Info("SEC-048", "persistence"))
SEC_046(r) ==
    When(\E f \in r.exec_start :
            f.runs_as_root /\ ~f.volatile /\ f.writability = "NonRootWritable",
         Sec("SEC-046", "persistence", 25))
SEC_045(r) ==
    When(\E f \in r.exec_start : ~f.volatile /\ f.writability = "RootOnly" /\ ~f.packaged,
         Info("SEC-045", "persistence"))

(* A pipe to a known handler outside volatile directories is trusted, and so is a file. *)
core_pattern_is_trusted(cp) == cp \in {"none", "file", "known_handler"}
SEC_044(r) ==
    When(~core_pattern_is_trusted(r.core_pattern), Sec("SEC-044", "persistence", 25))
    \cup When(r.lockdown_none, Info("SEC-044", "persistence"))

SEC_018(r) == When(r.critical_cron # {}, Sec("SEC-018", "host", 20))

(* ContainerInfo::security_issues, folded over the containers. *)
DOCK_001_004(r) ==
    When(\E c \in r.containers : ~c.memory_limit, Sec("DOCK-001", "docker", 5))
    \cup When(\E c \in r.containers : ~c.cpu_limit, Sec("DOCK-002", "docker", 3))
    \cup When(\E c \in r.containers : c.privileged, Sec("DOCK-003", "docker", 10))
    \cup When(\E c \in r.containers : c.cap_add # {}, Sec("DOCK-004", "docker", 10))

(* The live bounding set of init, "none" where it could not be read. *)
undeclared_escape_caps(c) == c.runtime_bounding_caps \ c.cap_add
DOCK_010(r) ==
    When(\E c \in r.containers :
            ~c.privileged /\ c.bounding_read /\ undeclared_escape_caps(c) # {},
         Sec("DOCK-010", "docker", 60))

(* detect_firewall_bypass: published off loopback by a running container. *)
detect_firewall_bypass(containers, firewall_active) ==
    {[sensitive |-> c.published = "sensitive", firewall_was_active |-> firewall_active] :
        c \in {d \in containers : d.state = "running" /\ d.published \in {"plain", "sensitive"}}}

SEC_065_066(r) ==
    LET behind == {b \in r.firewall_bypass : b.firewall_was_active}
        open == r.firewall_bypass \ behind
    IN When(behind # {},
            Sec("SEC-065", "network", IF \E b \in behind : b.sensitive THEN 35 ELSE 20))
       \cup When(open # {},
                 Sec("SEC-066", "network", IF \E b \in open : b.sensitive THEN 25 ELSE 15))

SEC_070(r) ==
    When(r.weak_password_hashes # {},
         Sec("SEC-070", "security",
             IF \E h \in r.weak_password_hashes : h.hash \in {"DES", "$1$"} THEN 20 ELSE 10))
SEC_071(r) == When(r.empty_password_users # {}, Sec("SEC-071", "security", 40))
SEC_072(r) == When(r.duplicate_uid_zero # {}, Sec("SEC-072", "security", 25))
SEC_073(r) == When(r.system_accounts_with_shell # {}, Sec("SEC-073", "security", 5))
SEC_074_075_076(r) ==
    LET path(p) == \E f \in r.file_permission_issues : f.k = p IN
    When(path("shadow"), Sec("SEC-074", "security", 15))
    \cup When(path("gshadow"), Sec("SEC-075", "security", 10))
    \cup When(path("sudoers.d"), Sec("SEC-076", "security", 15))
SEC_077(r) == When(r.ssh_private_key_readable # {}, Sec("SEC-077", "security", 20))
SEC_078(r) == When(r.authorized_keys_writable # {}, Sec("SEC-078", "security", 25))
SEC_079(r) == When(r.root_dotfiles_readable # {}, Sec("SEC-079", "security", 10))
SEC_081(r) == When(r.systemd_hardening # {}, Sec("SEC-081", "security", 5))

DOCK_005_006(r) ==
    When(\E c \in r.containers : c.mounts \cap {"DOCKER_SOCKET", "HOST_ROOT"} # {},
         Sec("DOCK-005", "docker", 15))
    \cup When(\E c \in r.containers : "etc(rw)" \in c.mounts, Sec("DOCK-006", "docker", 10))

RESTART_LOOP_THRESHOLD == 3
Rel(id, src, w) == {Finding(id, src, "reliability", w)}
DOCK_007_008_009(r) ==
    When(\E c \in r.containers : c.oom_killed, Rel("DOCK-007", "docker", 10))
    \cup When(\E c \in r.containers :
                 c.restart_count >= RESTART_LOOP_THRESHOLD \/ c.state = "restarting",
              Rel("DOCK-008", "docker", 5))
    \cup When(\E c \in r.containers : c.unhealthy, Rel("DOCK-009", "docker", 10))

(* A failed timer or mount counts for nothing here. *)
REL_001(r) == When(\E s \in r.failed_services : s.k = "service", Rel("REL-001", "host", 10))
REL_002(r) == When(r.backup_tools = {}, Rel("REL-002", "host", 20))
REL_003(r) == When(r.oom_kills, Rel("REL-003", "host", 10))
HYG_001(r) == When(~r.ntp_synchronized, {Finding("HYG-001", "host", "hygiene", 10)})

SystemFindings(r) ==
    UNION {SEC_034_036(r), SEC_037(r), SEC_035(r), SEC_038(r), SEC_060(r), SEC_039(r), SEC_040(r),
           SEC_041(r), SEC_042_049_050(r), SEC_051(r), SEC_052_053_054(r), SEC_055_056_057(r),
           SEC_043(r), SEC_047(r), SEC_048(r), SEC_046(r), SEC_045(r), SEC_044(r), SEC_018(r),
           DOCK_001_004(r), DOCK_010(r), SEC_065_066(r), SEC_070(r), SEC_071(r), SEC_072(r),
           SEC_073(r), SEC_074_075_076(r), SEC_077(r), SEC_078(r), SEC_079(r), SEC_081(r),
           DOCK_005_006(r), DOCK_007_008_009(r), REL_001(r), REL_002(r), REL_003(r), HYG_001(r)}
===============================================================================
