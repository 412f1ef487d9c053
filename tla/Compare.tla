-------------------------------- MODULE Compare --------------------------------
(***************************************************************************)
(* The drift between two reports of a host: compare_reports and            *)
(* compare_multi of src/compare.rs.  A change has the field, the key of    *)
(* the entry (k) and a severity; the texts before and after are left out.  *)
(***************************************************************************)
EXTENDS Scoring

Severity == {"Degraded", "Changed", "Improved"}
Change(field, k, sev) == {[field |-> field, k |-> k, severity |-> sev]}

keys_of(es) == {e.k : e \in es}
entry(es, k) == CHOOSE e \in es : e.k = k
in_both(b, a) == keys_of(b) \cap keys_of(a)

(* Entries by key: one severity for those that appear, one for those that are gone. *)
appeared(field, b, a, sev) == UNION {Change(field, k, sev) : k \in keys_of(a) \ keys_of(b)}
diff_keys(field, b, a, new, gone) == appeared(field, b, a, new) \cup appeared(field, a, b, gone)
diff_str_set(field, b, a) == diff_keys(field, b, a, "Degraded", "Improved")

(* An attribute of an entry that is still there: sev(before, after), or "none". *)
diff_entries(field, b, a, sev(_, _)) ==
    UNION {Change(field, k, sev(entry(b, k), entry(a, k))) :
            k \in {j \in in_both(b, a) : sev(entry(b, j), entry(a, j)) # "none"}}

worse_if(cond) == IF cond THEN "Degraded" ELSE "Improved"
flag_severity(b, a) == IF b = a THEN "none" ELSE worse_if(a)
count_severity(b, a) == IF b = a THEN "none" ELSE worse_if(a > b)

(* A value that may not have been observed: to or from "none" is Changed, never Improved. *)
observed(b, a, differ) ==
    IF b = a THEN "none" ELSE IF b = "none" \/ a = "none" THEN "Changed" ELSE differ

compare_bool(field, b, a, degraded_when) ==
    When(b[field] # a[field], Change(field, "-", worse_if(a[field] = degraded_when)))

meta_drift(b, a) == When(b.version # a.version, Change("version", "-", "Changed"))

(* Scores of different formulas are not comparable. *)
risk_score_drift(b, a, bscore, ascore) ==
    When(bscore # ascore,
         Change("risk_score", "-",
                IF b.scoring_version # a.scoring_version THEN "Changed"
                ELSE worse_if(ascore > bscore)))

bool_drift(b, a) ==
    UNION {compare_bool("reboot_required", b, a, TRUE),
           compare_bool("firewall_active", b, a, FALSE),
           When((b.root_login = "no") # (a.root_login = "no"),
                Change("root_login", "-", worse_if(a.root_login # "no"))),
           compare_bool("password_auth", b, a, TRUE),
           compare_bool("fail2ban_active", b, a, FALSE),
           compare_bool("auditd_active", b, a, FALSE),
           compare_bool("ntp_synchronized", b, a, FALSE),
           compare_bool("privileged", b, a, FALSE)}

cpu_drift(b, a) ==
    diff_entries("cpu_vulnerabilities", b.cpu_vulnerabilities, a.cpu_vulnerabilities,
        LAMBDA x, y : flag_severity(x.vulnerable, y.vulnerable))

(* A member gained degrades; a member or a group lost may be a clean-up. *)
members(r, k) == UNION {g.members : g \in {h \in r.root_equivalent_groups : h.k = k}}
group_drift(b, a) ==
    LET ks == keys_of(b.root_equivalent_groups) \cup keys_of(a.root_equivalent_groups)
        absent == keys_of(b.root_equivalent_groups) \ keys_of(a.root_equivalent_groups)
    IN When(\E k \in ks : members(a, k) \ members(b, k) # {},
            Change("root_equivalent_groups", "-", "Degraded"))
       \cup When(absent # {} \/ \E k \in ks : members(b, k) \ members(a, k) # {},
                 Change("root_equivalent_groups", "-", "Changed"))

PackageJump == 50
installed_drift(b, a) ==
    When(b.installed_count # a.installed_count,
         Change("installed_count", "-",
                IF a.installed_count > b.installed_count + PackageJump THEN "Degraded"
                ELSE "Changed"))

ssl_drift(b, a) ==
    UNION {diff_keys("ssl_certificates", b.ssl_certificates, a.ssl_certificates,
                     "Degraded", "Changed"),
           diff_entries("ssl_certificates.is_critical", b.ssl_certificates, a.ssl_certificates,
               LAMBDA x, y : flag_severity(x.is_critical, y.is_critical)),
           diff_entries("ssl_certificates.is_warning", b.ssl_certificates, a.ssl_certificates,
               LAMBDA x, y : flag_severity(x.is_warning, y.is_warning))}

(* Listeners by address and port (k); the name can be forged, the program file cannot. *)
port_drift(b, a) ==
    diff_keys("listening_ports", b.listening_ports, a.listening_ports, "Degraded", "Changed")
    \cup diff_entries("listening_ports.process", b.listening_ports, a.listening_ports,
             LAMBDA x, y : IF x.process = y.process THEN "none" ELSE "Degraded")
exposure_drift(b, a) ==
    LET bound(r, port, addr) == \E p \in r.listening_ports : p.port = port /\ p.bind = addr
        ports == {p.port : p \in b.listening_ports}
    IN diff_entries("listening_ports.exe_path", b.listening_ports, a.listening_ports,
           LAMBDA x, y : observed(x.exe, y.exe, "Degraded"))
       \cup UNION {Change("listening_ports.exposure", n, "Degraded") :
                    n \in {m \in ports : bound(b, m, "loopback") /\ ~bound(b, m, "wildcard")
                                        /\ bound(a, m, "wildcard")}}

(* A directive is identified by its value as well. *)
sshd_drift(b, a) ==
    LET valued(r, v) == {d \in r.sshd_directives : d.value = v} IN
    UNION {diff_str_set("sshd_directives", valued(b, d.value), valued(a, d.value)) :
            d \in b.sshd_directives \cup a.sshd_directives}

netns_drift(b, a) ==
    diff_keys("foreign_netns_listeners", b.foreign_netns_listeners, a.foreign_netns_listeners,
              "Degraded", "Changed")
mount_ns_drift(b, a) ==
    diff_keys("mount_namespace_anomalies", b.mount_namespace_anomalies,
              a.mount_namespace_anomalies, "Degraded", "Changed")

(* An account that was not enumerated has an unknown number of keys, not none. *)
shell_user_drift(b, a) ==
    UNION {UNION {Change("shell_users", u.k, "Degraded") :
                    u \in {v \in a.shell_users : v.k \notin keys_of(b.shell_users) /\ v.keys > 0}},
           appeared("shell_users", a.shell_users, b.shell_users, "Changed"),
           diff_entries("shell_users", b.shell_users, a.shell_users,
               LAMBDA x, y : count_severity(x.keys, y.keys))}

set_severity_count(b, a) ==
    IF b = a THEN "none" ELSE worse_if(Cardinality(a) > Cardinality(b))
set_severity(b, a) == IF b = a THEN "none" ELSE worse_if(~(a \subseteq b))
sets_drift(field, bs, as) == diff_str_set(field, {[k |-> x] : x \in bs}, {[k |-> x] : x \in as})

bounding_severity_unread(x, y) == set_severity(x.runtime_bounding_caps, y.runtime_bounding_caps)
bounding_severity(x, y) ==
    IF x.bounding_read /\ y.bounding_read
    THEN set_severity(x.runtime_bounding_caps, y.runtime_bounding_caps)
    ELSE IF x.bounding_read = y.bounding_read THEN "none" ELSE "Changed"

container_drift(b, a) ==
    LET bc == b.containers
        ac == a.containers
    IN UNION {diff_keys("containers", bc, ac, "Degraded", "Changed"),
              diff_entries("containers.image", bc, ac,
                  LAMBDA x, y : IF x.image = y.image THEN "none" ELSE "Degraded"),
              diff_entries("containers.image_id", bc, ac,
                  LAMBDA x, y : observed(x.image_id, y.image_id, "Degraded")),
              diff_entries("containers.privileged", bc, ac,
                  LAMBDA x, y : flag_severity(x.privileged, y.privileged)),
              UNION {sets_drift("containers.cap_add", entry(bc, k).cap_add, entry(ac, k).cap_add)
                     \cup sets_drift("containers.mounts", entry(bc, k).mounts, entry(ac, k).mounts)
                        : k \in in_both(bc, ac)},
              diff_entries("containers.bounding", bc, ac, bounding_severity)}

(* Lists of plain names. *)
plain(field, b, a) == diff_str_set(field, b[field], a[field])
update_drift(b, a) == plain("upgradable", b, a)
service_drift(b, a) ==
    UNION {plain("sysctl_issues", b, a), plain("failed_services", b, a),
           diff_keys("backup_tools", b.backup_tools, a.backup_tools, "Improved", "Degraded")}
ebpf_drift(b, a) == plain("ebpf_progs", b, a)
tracing_drift(b, a) == plain("ftrace_hooks", b, a)
preload_drift(b, a) == plain("preload_injections", b, a) \cup plain("ld_so_conf_injections", b, a)

(* A hidden module that is gone is not reported; neither is a taint bit that is cleared. *)
module_drift(b, a) ==
    plain("proc_modules", b, a)
    \cup appeared("hidden_modules", b.hidden_modules, a.hidden_modules, "Degraded")
taint_drift(b, a) ==
    When(keys_of(a.kernel_taint) \ keys_of(b.kernel_taint) # {},
         Change("kernel_taint", "-", "Degraded"))
confinement_drift(b, a) ==
    plain("complain_profiles", b, a)
    \cup When(a.selinux_permissive /\ ~b.selinux_permissive,
              Change("selinux_permissive", "-", "Degraded"))

sudoers_drift(b, a) ==
    LET bn == Cardinality(b.sudo_nopasswd_entries)
        an == Cardinality(a.sudo_nopasswd_entries)
    IN plain("sudoers_nopasswd_all", b, a)
       \cup When(bn # an, Change("sudo_nopasswd_entries", "-", worse_if(an > bn)))

(* Files that raise privileges: new bits degrade, fewer improve. *)
setuid_drift(b, a) ==
    diff_str_set("setuid_files", b.setuid_files, a.setuid_files)
    \cup diff_entries("setuid_files", b.setuid_files, a.setuid_files,
             LAMBDA x, y : set_severity(x.bits, y.bits))
file_caps_drift(b, a) ==
    diff_str_set("file_capabilities", b.file_capabilities, a.file_capabilities)
    \cup diff_entries("file_capabilities", b.file_capabilities, a.file_capabilities,
             LAMBDA x, y : set_severity(x.caps, y.caps))

account_drift(b, a) ==
    UNION {plain("weak_password_hashes", b, a), plain("empty_password_users", b, a),
           plain("duplicate_uid_zero", b, a),
           diff_keys("system_accounts_with_shell", b.system_accounts_with_shell,
                     a.system_accounts_with_shell, "Changed", "Changed")}
credential_file_drift(b, a) ==
    UNION {plain("file_permission_issues", b, a), plain("ssh_private_key_readable", b, a),
           plain("authorized_keys_writable", b, a), plain("root_dotfiles_readable", b, a),
           diff_entries("file_permission_issues", b.file_permission_issues,
               a.file_permission_issues,
               LAMBDA x, y : IF x.mode = y.mode THEN "none" ELSE "Degraded")}

(* A unit that leaves the list may have been removed: Changed. *)
hardening_drift(b, a) ==
    diff_keys("systemd_hardening", b.systemd_hardening, a.systemd_hardening,
              "Degraded", "Changed")
    \cup diff_entries("systemd_hardening", b.systemd_hardening, a.systemd_hardening,
             LAMBDA x, y : set_severity(x.missing, y.missing))

(* Any change of a generator or of the rights on a PAM target degrades, whatever its direction. *)
generator_drift(b, a) ==
    diff_str_set("generators", b.generators, a.generators)
    \cup diff_entries("generators", b.generators, a.generators,
             LAMBDA x, y : IF x.writability = y.writability /\ x.volatile_escape = y.volatile_escape
                           THEN "none" ELSE "Degraded")
pam_drift(b, a) ==
    diff_str_set("pam_injections", b.pam_injections, a.pam_injections)
    \cup diff_entries("pam_injections", b.pam_injections, a.pam_injections,
             LAMBDA x, y : IF x.writability = y.writability THEN "none" ELSE "Degraded")

core_pattern_drift(b, a) ==
    When(b.core_pattern # a.core_pattern,
         Change("core_pattern", "-",
                IF core_pattern_is_trusted(a.core_pattern) THEN "Changed" ELSE "Degraded"))

(* value -1: the file is there and cannot be read.  A higher value is stricter. *)
Unreadable == -1
switch_severity(x, y) ==
    IF x.value = y.value THEN "none"
    ELSE IF x.value = Unreadable THEN "Changed"
    ELSE worse_if(y.value < x.value)
switch_drift(b, a) ==
    diff_keys("one_way_switches", b.one_way_switches, a.one_way_switches, "Changed", "Degraded")
    \cup diff_entries("one_way_switches", b.one_way_switches, a.one_way_switches,
                      switch_severity)

exec_start_drift(b, a) ==
    UNION {diff_str_set("exec_start", b.exec_start, a.exec_start),
           diff_entries("exec_start.unit_package", b.exec_start, a.exec_start,
               LAMBDA x, y : IF x.unit_package /\ ~y.unit_package THEN "Degraded" ELSE "none"),
           diff_entries("exec_start.target", b.exec_start, a.exec_start,
               LAMBDA x, y : IF x.writability = "Missing" /\ y.writability # "Missing"
                             THEN "Degraded" ELSE "none"),
           diff_entries("exec_start.volatile", b.exec_start, a.exec_start,
               LAMBDA x, y : IF ~x.volatile /\ y.volatile THEN "Degraded" ELSE "none"),
           diff_entries("exec_start.package", b.exec_start, a.exec_start,
               LAMBDA x, y : IF x.packaged = y.packaged THEN "none" ELSE "Changed")}

(* The order of the changes is left out: they are sorted for display. *)
compare_reports(b, a, bscore, ascore) ==
    UNION {meta_drift(b, a), risk_score_drift(b, a, bscore, ascore), bool_drift(b, a),
           cpu_drift(b, a), group_drift(b, a), installed_drift(b, a), ssl_drift(b, a),
           port_drift(b, a), sshd_drift(b, a), exposure_drift(b, a), netns_drift(b, a),
           mount_ns_drift(b, a), update_drift(b, a), shell_user_drift(b, a),
           container_drift(b, a), service_drift(b, a), setuid_drift(b, a),
           file_caps_drift(b, a), sudoers_drift(b, a), ebpf_drift(b, a), module_drift(b, a),
           taint_drift(b, a), confinement_drift(b, a), account_drift(b, a),
           credential_file_drift(b, a),
           hardening_drift(b, a), tracing_drift(b, a), preload_drift(b, a),
           generator_drift(b, a), pam_drift(b, a), core_pattern_drift(b, a),
           switch_drift(b, a), exec_start_drift(b, a)}

degraded(changes) == \E c \in changes : c.severity = "Degraded"

(* Two fleets, paired by host name; of two reports with one name the last is used.  A
   snapshot is [hostname, report, score]. *)
named(snaps, h) == snaps[Max({i \in DOMAIN snaps : snaps[i].hostname = h})]
hostnames(snaps) == {snaps[i].hostname : i \in DOMAIN snaps}
removed_severity == "Degraded"
compare_multi(before, after) ==
    [h \in hostnames(before) \cup hostnames(after) |->
        IF h \notin hostnames(after) THEN Change("host.removed", "-", removed_severity)
        ELSE IF h \notin hostnames(before) THEN Change("host.added", "-", "Changed")
        ELSE LET b == named(before, h)
                 a == named(after, h)
             IN compare_reports(b.report, a.report, b.score, a.score)]

(* The exit code of `compare --fail-on-drift`, for one host and for fleets. *)
EXIT_CRITICAL == 1
exit_single(changes) == IF degraded(changes) THEN EXIT_CRITICAL ELSE 0
exit_multi(diffs) == IF \E h \in DOMAIN diffs : degraded(diffs[h]) THEN EXIT_CRITICAL ELSE 0
===============================================================================
