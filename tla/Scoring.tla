-------------------------------- MODULE Scoring --------------------------------
(***************************************************************************)
(* From a report to its findings, score and verdict (src/scoring.rs), with *)
(* the operator's accepted risks (src/acceptance.rs) laid over them, and   *)
(* how run_local_scan_async (src/runner.rs) puts a report together when a  *)
(* scanner panics.                                                         *)
(***************************************************************************)
EXTENDS FindingsSystem, Glob

(* Scanner::from_name, without the orchestrator that adds COV-001. *)
Scanner ==
    {"host", "network", "storage", "security", "persistence", "packages", "databases", "docker",
     "mount_namespace"}

-------------------------------------------------------------------------------
(* The report.  What a scanner fills in; the rest of the fields belong to security. *)
OwnedBy ==
    [network |-> {"firewall_active", "ssl_certificates", "listening_ports", "foreign_netns_listeners"},
     docker |-> {"containers", "runtime_active"},
     host |-> {"kubelet", "failed_services", "backup_tools", "oom_kills", "ntp_synchronized",
               "critical_cron", "reboot_required"},
     packages |-> {"security_updates", "installed_count", "upgradable"},
     persistence |-> {"preload_injections", "core_pattern", "lockdown_none", "exec_start",
                      "ld_so_conf_injections", "generators", "one_way_switches",
                      "pam_injections"},
     mount_namespace |-> {"mount_namespace_anomalies"},
     orchestrator |-> {"privileged", "version", "scoring_version"},
     databases |-> {}, storage |-> {}]
(* Default::default() of the sections: nothing seen, nothing synchronised, no firewall. *)
DefaultScalars ==
    [firewall_active |-> FALSE, runtime_active |-> FALSE,
     kubelet |-> FALSE, oom_kills |-> FALSE, ntp_synchronized |-> FALSE,
     reboot_required |-> FALSE, security_updates |-> 0, installed_count |-> 0,
     core_pattern |-> "none", lockdown_none |-> FALSE, root_login |-> "no",
     password_auth |-> FALSE, sudoers_mode |-> "none", provenance |-> "Unavailable",
     selinux_permissive |-> FALSE, live_tracer |-> FALSE, attribution_degraded |-> FALSE,
     fail2ban_active |-> FALSE, auditd_active |-> FALSE,
     privileged |-> FALSE, version |-> 1, scoring_version |-> 1]
ListFields ==
    {"ssl_certificates", "listening_ports", "foreign_netns_listeners", "containers", "failed_services",
     "backup_tools", "critical_cron", "upgradable", "preload_injections", "exec_start",
     "ld_so_conf_injections", "generators", "one_way_switches", "pam_injections",
     "mount_namespace_anomalies", "sudo_nopasswd_entries", "sudoers_nopasswd_all",
     "sysctl_issues", "keys", "shell_users", "root_equivalent_groups", "sshd_directives",
     "capability_audit", "suspicious_processes", "mount_masking", "reverse_shells",
     "library_injections", "ghost_pids", "secret_hygiene", "file_capabilities", "setuid_files",
     "ebpf_progs", "kernel_taint", "hidden_modules", "proc_modules", "cpu_vulnerabilities",
     "complain_profiles", "ftrace_hooks", "weak_password_hashes", "empty_password_users",
     "duplicate_uid_zero", "system_accounts_with_shell", "file_permission_issues",
     "ssh_private_key_readable", "authorized_keys_writable", "root_dotfiles_readable",
     "systemd_hardening"}
Fields == DOMAIN DefaultScalars \cup ListFields
owned(s) ==
    IF s = "security" THEN Fields \ UNION {OwnedBy[t] : t \in DOMAIN OwnedBy} ELSE OwnedBy[s]
Default(field) == IF field \in ListFields THEN {} ELSE DefaultScalars[field]

(* run_local_scan_async: a panicked scanner leaves its defaults and its name; the published
   ports are crossed with the firewall afterwards. *)
report_of(facts, failed) ==
    LET lost == UNION {owned(s) : s \in failed}
        kept == [x \in Fields |-> IF x \in lost THEN Default(x) ELSE facts[x]]
    IN
    [x \in Fields \cup {"firewall_bypass", "failed_scanners", "at"} |->
        CASE x = "firewall_bypass" ->
                detect_firewall_bypass(kept.containers, kept.firewall_active)
          [] x = "failed_scanners" -> failed
          [] x = "at" -> OnHost
          [] OTHER -> kept[x]]

-------------------------------------------------------------------------------
finding_from_failed_scanner(f, r) == f.source \in r.failed_scanners

(* The findings of every rule but the withheld ones, and one note per failed scanner. *)
evaluate(r) ==
    {f \in AccessFindings(r) \cup ProcessFindings(r) \cup SystemFindings(r) :
        ~finding_from_failed_scanner(f, r)}
    \cup {[Finding("COV-001", "orchestrator", "hygiene", 0) EXCEPT !.of = s] :
            s \in r.failed_scanners}

live(fs) == {f \in fs : f.suppressed = "none"}

MaxU8 == 255
saturating(n) == Min({n, MaxU8})
axis(fs, cat) ==
    saturating(MapThenSumSet(LAMBDA f : f.weight, {f \in live(fs) : f.category = cat}))
security(fs) == Min({axis(fs, "security"), 60})
score(fs) ==
    Min({security(fs) + Min({axis(fs, "reliability"), 30}) + Min({axis(fs, "hygiene"), 10}), 100})

COMPROMISE_IDS ==
    {"SEC-015", "SEC-016", "SEC-017", "SEC-019", "SEC-020", "SEC-021", "SEC-022", "SEC-023",
     "SEC-024", "SEC-028", "SEC-040", "DOCK-010", "SEC-042", "SEC-043", "SEC-052", "SEC-055"}

(* CriticalFlags::from_findings and has_critical. *)
SYSCTL_CRITICAL_THRESHOLD == 3
has(fs, id) == \E f \in live(fs) : f.id = id
compromised_host(fs) == \E id \in COMPROMISE_IDS : has(fs, id)
has_critical(fs) ==
    \/ \E id \in {"SEC-001", "SEC-002", "SEC-003", "SEC-004", "REL-001", "REL-002", "SEC-005",
                  "SEC-012", "HYG-001"} : has(fs, id)
    \/ Cardinality({f \in live(fs) : f.id = "SEC-007"}) >= SYSCTL_CRITICAL_THRESHOLD

security_verdict_from_findings(fs) ==
    IF compromised_host(fs) THEN "Compromised" ELSE IF has_critical(fs) THEN "Critical" ELSE "Clean"

-------------------------------------------------------------------------------
(* Accepted risks.  A rule: finding_id, host (a pattern), whether the justification is long
   enough, and the last day it holds. *)
EXTRA_NEVER_ACCEPTABLE == {"SEC-041", "COV-001"}
is_never_acceptable_idsOnly(id) == id \in COMPROMISE_IDS
is_never_acceptable(id) == id \in COMPROMISE_IDS \cup EXTRA_NEVER_ACCEPTABLE

(* Acceptances::load refuses the whole file for one bad rule. *)
loads(rules) ==
    \A i \in DOMAIN rules : rules[i].justified /\ ~is_never_acceptable(rules[i].finding_id)

(* Acceptances::apply: the first rule for the id and the host decides, expired or not. *)
matching(rules, hostname, f) ==
    {i \in DOMAIN rules :
        rules[i].finding_id = f.id /\ glob_match(rules[i].host, hostname)}
accepts_flipped(rules, hostname, today, f) ==
    LET m == matching(rules, hostname, f) IN
    m # {} /\ rules[Min(m)].expires <= today
accepts(rules, hostname, today, f) ==
    LET m == matching(rules, hostname, f) IN
    m # {} /\ rules[Min(m)].expires >= today

apply(rules, hostname, today, fs) ==
    {IF f.suppressed = "none" /\ accepts(rules, hostname, today, f)
     THEN [f EXCEPT !.suppressed = "accepted"] ELSE f : f \in fs}
===============================================================================
