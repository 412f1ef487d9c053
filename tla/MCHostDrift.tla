------------------------------ MODULE MCHostDrift ------------------------------
(* A hardened host and a few entries of every list, chosen so that every rule of scoring.rs
   and every comparison of compare.rs has a case for and a case against. *)
EXTENDS HostDrift

MCHostname == <<"w", "1">>
MCUnknown == <<"u">>
MCHardened ==
    [x \in Fields |->
        CASE x \in {"firewall_active", "ntp_synchronized", "fail2ban_active", "auditd_active",
                    "privileged"} -> TRUE
          [] x = "backup_tools" -> {[k |-> "restic"]}
          [] x = "provenance" -> "Dpkg"
          [] x = "core_pattern" -> "known_handler"
          [] OTHER -> Default(x)]

Named(ks) == {[k |-> k] : k \in ks}
Port(k, port, pid, bind, exe, root) ==
    [k |-> k, port |-> port, pid |-> pid, bind |-> bind, exe |-> exe, process |-> "p",
     look |-> Seen(FALSE, root, root)]
Region(k, source, exe, origin, conf, shape) ==
    [k |-> k, pid |-> 7, source |-> source, exe |-> exe, look |-> Seen(FALSE, TRUE, FALSE),
     runtime_comm |-> FALSE, bytes |-> 4096,
     deep |-> [origin |-> origin, confidence |-> conf, shape |-> shape]]
Proc(k, pid) ==
    [k |-> k, pid |-> pid, name |-> "other", is_deleted |-> FALSE, self_attributed |-> FALSE,
     euid |-> 1, is_mimic |-> FALSE]
Cap(k, pid) ==
    [k |-> k, pid |-> pid, critical |-> FALSE, reason |-> "CriticalCaps", ambient |-> {}]
Suid(k) == [k |-> k, packaged |-> FALSE, system_dir |-> TRUE, root_owner |-> TRUE, bits |-> {"u"}]
Preload(k) == [k |-> k, volatile |-> FALSE, packaged |-> FALSE, mapped |-> TRUE]
Exec(k) ==
    [k |-> k, volatile |-> TRUE, writability |-> "RootOnly", unit_package |-> FALSE,
     vendor_dir |-> FALSE, packaged |-> FALSE, runs_as_root |-> TRUE]
Gen(k) ==
    [k |-> k, origin |-> "Admin", writability |-> "RootOnly", volatile_escape |-> FALSE,
     packaged |-> FALSE]
Pam(k) ==
    [k |-> k, config |-> FALSE, writability |-> "RootOnly", parent_takeable |-> FALSE,
     volatile |-> FALSE, packaged |-> FALSE]
Container(k) ==
    [k |-> k, memory_limit |-> TRUE, cpu_limit |-> TRUE, privileged |-> FALSE, cap_add |-> {},
     runtime_bounding_caps |-> {}, bounding_read |-> TRUE, mounts |-> {}, oom_killed |-> FALSE,
     restart_count |-> 0, state |-> "running", unhealthy |-> FALSE, published |-> "none",
     image |-> "i", image_id |-> "1"]

MCEntries ==
    [listening_ports |->
        {Port("any:80", "80", 7, "wildcard", "home", FALSE),
         Port("lo:80", "80", 7, "loopback", "install", TRUE),
         Port("any:80", "80", 7, "wildcard", "none", FALSE),
         Port("lo:82", "82", 0, "loopback", "managed", FALSE)},
     capability_audit |->
        {[Cap("a", 7) EXCEPT !.critical = TRUE],
         [Cap("b", 8) EXCEPT !.reason = "AmbientCapsNoNewPrivs", !.ambient = {"net_raw"}],
         [Cap("c", 8) EXCEPT !.reason = "AmbientCapsNoNewPrivs", !.ambient = {"dangerous"}]},
     suspicious_processes |->
        {[Proc("m", 7) EXCEPT !.name = "malware"], [Proc("d", 7) EXCEPT !.is_deleted = TRUE],
         [Proc("s", 8) EXCEPT !.is_deleted = TRUE, !.self_attributed = TRUE],
         [Proc("x", 8) EXCEPT !.is_mimic = TRUE]},
     mount_masking |-> Named({"m"}), reverse_shells |-> Named({"s"}),
     ghost_pids |-> {[k |-> "g", confirmed_ioc |-> TRUE], [k |-> "h", confirmed_ioc |-> FALSE]},
     secret_hygiene |->
        {[k |-> "l", self_attributed |-> FALSE, age |-> 300],
         [k |-> "m", self_attributed |-> FALSE, age |-> 299],
         [k |-> "o", self_attributed |-> TRUE, age |-> 300]},
     library_injections |->
        {Region("a", "maps", "system", "Inconclusive", 0, "plain"),
         [Region("n", "maps", "opt", "Inconclusive", 0, "plain") EXCEPT
            !.pid = 8, !.look = Seen(FALSE, FALSE, FALSE)],
         [Region("o", "maps", "tmp_managed", "Inconclusive", 0, "plain") EXCEPT
            !.look = Seen(TRUE, TRUE, FALSE)],
         [Region("r", "maps", "system", "Inconclusive", 0, "plain") EXCEPT
            !.look = Seen(FALSE, FALSE, FALSE)],
         Region("b", "maps-anon-rwx", "system", "JitCode", 70, "plain"),
         Region("c", "maps-anon-rwx", "system", "UnknownPayload", 60, "plain"),
         Region("d", "maps-anon-rx", "system", "none", 0, "plain"),
         Region("e", "maps-so-unlink-on-load", "system", "GhostInconclusive", 0, "benign"),
         Region("f", "maps-rwx-provisional", "system", "none", 0, "malice")},
     sudo_nopasswd_entries |-> Named({"all", "privesc", "plain"}),
     sudoers_nopasswd_all |-> Named({"alice"}),
     root_equivalent_groups |->
        {[k |-> "docker", bypasses_sudo |-> TRUE, members |-> {"bob"}],
         [k |-> "docker", bypasses_sudo |-> TRUE, members |-> {"bob", "eve"}],
         [k |-> "adm", bypasses_sudo |-> FALSE, members |-> {"bob"}]},
     sshd_directives |->
        {[k |-> "authorizedkeyscommand", value |-> "v", writability |-> "Missing"],
         [k |-> "authorizedkeyscommand", value |-> "v", writability |-> "RootOnly"],
         [k |-> "permituserenvironment", value |-> "yes", writability |-> "RootOnly"]},
     keys |-> {[k |-> "w", compliant |-> FALSE, environment |-> FALSE],
               [k |-> "e", compliant |-> TRUE, environment |-> TRUE]},
     sysctl_issues |-> Named({"ip_forward", "rp_filter", "aslr", "redirects"}),
     ssl_certificates |->
        {[k |-> "c", is_critical |-> TRUE, is_warning |-> FALSE],
         [k |-> "c", is_critical |-> FALSE, is_warning |-> TRUE]},
     foreign_netns_listeners |-> Named({"n"}), mount_namespace_anomalies |-> Named({"m"}),
     file_capabilities |->
        {[k |-> "f", packaged |-> FALSE, known |-> TRUE, caps |-> {"net_raw"}],
         [k |-> "f", packaged |-> FALSE, known |-> TRUE, caps |-> {"setuid"}],
         [k |-> "g", packaged |-> FALSE, known |-> FALSE, caps |-> {"net_raw"}],
         [k |-> "h", packaged |-> TRUE, known |-> FALSE, caps |-> {"setuid"}]},
     setuid_files |->
        {Suid("s"), [Suid("s") EXCEPT !.bits = {"g"}], [Suid("t") EXCEPT !.system_dir = FALSE],
         [Suid("o") EXCEPT !.root_owner = FALSE], [Suid("p") EXCEPT !.packaged = TRUE]},
     ebpf_progs |-> Named({"e"}), kernel_taint |-> Named({"F", "E"}),
     hidden_modules |-> Named({"lkm"}), proc_modules |-> Named({"lkm"}),
     ftrace_hooks |-> {[k |-> "h1", callback |-> "lkm"], [k |-> "h2", callback |-> "unknown"]},
     cpu_vulnerabilities |-> {[k |-> "v", vulnerable |-> TRUE], [k |-> "v", vulnerable |-> FALSE]},
     complain_profiles |-> Named({"p"}),
     preload_injections |->
        {Preload("a"), [Preload("b") EXCEPT !.volatile = TRUE], [Preload("c") EXCEPT !.mapped = FALSE],
         [Preload("d") EXCEPT !.packaged = TRUE]},
     ld_so_conf_injections |-> Named({"d"}),
     generators |->
        {Gen("a"), [Gen("a") EXCEPT !.writability = "Missing"], [Gen("b") EXCEPT !.volatile_escape = TRUE],
         [Gen("c") EXCEPT !.origin = "Vendor"], [Gen("d") EXCEPT !.writability = "Unknown"]},
     pam_injections |->
        {Pam("a"), [Pam("a") EXCEPT !.writability = "NonRootWritable"], [Pam("b") EXCEPT !.volatile = TRUE],
         [Pam("c") EXCEPT !.config = TRUE, !.writability = "Unknown"],
         [Pam("d") EXCEPT !.writability = "Unknown"],
         [Pam("e") EXCEPT !.writability = "Missing", !.parent_takeable = TRUE]},
     exec_start |->
        {Exec("a"), [Exec("a") EXCEPT !.writability = "Missing"],
         [Exec("a") EXCEPT !.unit_package = TRUE], [Exec("a") EXCEPT !.volatile = FALSE],
         [Exec("b") EXCEPT !.volatile = FALSE, !.writability = "NonRootWritable"],
         [Exec("b") EXCEPT !.volatile = FALSE, !.packaged = TRUE]},
     one_way_switches |-> {[k |-> "kexec", value |-> v] : v \in {-1, 0, 1}},
     containers |->
        {Container("a"), [Container("a") EXCEPT !.runtime_bounding_caps = {"sys_admin"}],
         [Container("a") EXCEPT !.runtime_bounding_caps = {"sys_admin"}, !.cap_add = {"sys_admin"}],
         [Container("a") EXCEPT !.bounding_read = FALSE, !.image_id = "none"],
         [Container("b") EXCEPT !.privileged = TRUE, !.mounts = {"DOCKER_SOCKET"}, !.image = "j"],
         [Container("b") EXCEPT !.published = "sensitive", !.memory_limit = FALSE, !.restart_count = 3,
                               !.mounts = {"etc(rw)"}, !.image_id = "2"],
         [Container("c") EXCEPT !.published = "plain", !.cpu_limit = FALSE, !.unhealthy = TRUE,
                               !.oom_killed = TRUE, !.state = "restarting"]},
     failed_services |-> Named({"service", "timer"}), backup_tools |-> Named({"restic"}),
     critical_cron |-> Named({"j"}), upgradable |-> Named({"u"}),
     weak_password_hashes |-> {[k |-> "u", hash |-> "DES"], [k |-> "v", hash |-> "$5$"]},
     empty_password_users |-> Named({"u"}), duplicate_uid_zero |-> Named({"toor"}),
     system_accounts_with_shell |-> Named({"games"}),
     file_permission_issues |-> {[k |-> f, mode |-> m] : f \in {"shadow", "sudoers.d"}, m \in {1, 2}},
     ssh_private_key_readable |-> Named({"k"}), authorized_keys_writable |-> Named({"k"}),
     root_dotfiles_readable |-> Named({"d"}),
     systemd_hardening |-> {[k |-> "u", missing |-> {"a"}], [k |-> "u", missing |-> {"b"}]},
     shell_users |-> {[k |-> "u", keys |-> n] : n \in 0..2}]

MCValues ==
    [firewall_active |-> {FALSE, TRUE}, runtime_active |-> {TRUE}, kubelet |-> {TRUE},
     oom_kills |-> {TRUE}, ntp_synchronized |-> {FALSE}, reboot_required |-> {TRUE},
     security_updates |-> {0, 5, 6, 20, 21}, installed_count |-> {50, 51},
     core_pattern |-> {"none", "unknown_pipe"}, lockdown_none |-> {TRUE},
     root_login |-> {"yes", "prohibit-password"}, password_auth |-> {TRUE},
     sudoers_mode |-> {"other"}, provenance |-> {"Dpkg", "PartialApk", "Unavailable"},
     selinux_permissive |-> {TRUE}, live_tracer |-> {TRUE}, attribution_degraded |-> {TRUE},
     fail2ban_active |-> {FALSE}, auditd_active |-> {FALSE}, privileged |-> {FALSE},
     version |-> {2}, scoring_version |-> {2}]

Sudo == {"sudo_nopasswd_entries", "sudoers_nopasswd_all", "root_equivalent_groups"}
Sshd == {"sshd_directives", "keys", "root_login", "password_auth"}
Implant == {"listening_ports", "capability_audit"}
Fileless == {"capability_audit", "suspicious_processes"}
Memory == {"listening_ports", "library_injections"}
Traces == {"ghost_pids", "reverse_shells", "mount_masking", "firewall_active", "critical_cron"}
Leaks == {"secret_hygiene", "ssh_private_key_readable", "shell_users", "sudoers_mode"}
FileCaps == {"file_capabilities", "provenance"}
Setuid == {"setuid_files", "provenance"}
Kernel == {"kernel_taint", "hidden_modules", "ftrace_hooks", "live_tracer", "attribution_degraded"}
Loaded == {"proc_modules", "ebpf_progs", "cpu_vulnerabilities", "complain_profiles",
           "selinux_permissive"}
Loader == {"preload_injections", "ld_so_conf_injections", "provenance"}
Boot == {"generators", "provenance"}
Pams == {"pam_injections", "core_pattern", "lockdown_none"}
Units == {"exec_start"}
Limits == {"one_way_switches", "systemd_hardening", "sudoers_mode"}
Docker == {"containers", "firewall_active"}
Sysctl == {"sysctl_issues", "runtime_active", "kubelet"}
Accounts == {"weak_password_hashes", "empty_password_users", "duplicate_uid_zero",
             "system_accounts_with_shell"}
Perms == {"file_permission_issues", "authorized_keys_writable", "root_dotfiles_readable"}
Upkeep == {"failed_services", "backup_tools", "oom_kills", "ntp_synchronized", "reboot_required"}
Packages == {"security_updates", "installed_count", "upgradable"}
Wire == {"ssl_certificates", "foreign_netns_listeners", "mount_namespace_anomalies"}
Rest == {"fail2ban_active", "auditd_active", "privileged", "version", "scoring_version",
         "empty_password_users"}
MCTopics ==
    {Sudo, Sshd, Implant, Fileless, Memory, Traces, Leaks, FileCaps, Setuid, Kernel, Loaded, Loader,
     Boot, Pams, Units, Limits, Docker, Sysctl, Accounts, Perms, Upkeep, Packages, Wire, Rest}

Rule(id, h, last) == [finding_id |-> id, host |-> h, justified |-> TRUE, expires |-> last]
MCRules ==
    {Rule("SEC-001", <<"*">>, 0), Rule("SEC-001", <<"w", "?">>, 1), Rule("SEC-005", <<"*", "1">>, 1),
     Rule("SEC-024", <<"*">>, 1), Rule("SEC-041", <<"w", "1">>, 1), Rule("COV-001", <<"*">>, 1)}

(* One machine with nothing like it, and three that have a process or a tree in common. *)
MCControllers ==
    {Controller({}, {}, {}), Controller({7}, {}, {}), Controller({}, {7}, {}),
     Controller({}, {}, {"n", "any:80"})}
===============================================================================
