------------------------------- MODULE Findings -------------------------------
(***************************************************************************)
(* What src/scoring.rs makes of the access and network part of a report:   *)
(* the shape of a finding and the rules for SSH, sudo, sysctl, keys and    *)
(* listeners.  A report r is a record of facts; a list in the report is    *)
(* the set of the entries the rules tell apart.  Titles, evidence texts    *)
(* and CIS references are left out.                                        *)
(***************************************************************************)
EXTENDS Integers, FiniteSetsExt

RISK_NO_FIREWALL == 30
RISK_SSH_ROOT_LOGIN == 25
RISK_SECURITY_UPDATES == 20
RISK_CRITICAL_SSL_MAX == 15
RISK_SSH_PASSWORD_AUTH == 10
RISK_SUDOERS_MODE == 5
RISK_SYSCTL_PER_ISSUE == 5
RISK_PASSWORDLESS_ROOT == 15

(* A finding that counts; one that is only listed, its weight kept or zero.
   of tells apart the findings that share an id. *)
Finding(id, src, cat, w) ==
    [id |-> id, source |-> src, category |-> cat, weight |-> w, suppressed |-> "none",
     of |-> "host"]
Listed(id, src, w) ==
    [Finding(id, src, "security", w) EXCEPT !.suppressed = "scanner"]

Sec(id, src, w) == {Finding(id, src, "security", w)}
Info(id, src) == {Listed(id, src, 0)}
When(cond, fs) == IF cond THEN fs ELSE {}

(* ExecWritability of models.rs. *)
Writability == {"RootOnly", "NonRootWritable", "Missing", "Unknown"}

(* Where a program file is, as utils.rs tells it from the path.  system: a directory of system
   binaries or /nix/store; opt: an install root outside the homes; managed, install, home: in a
   home, under the root of a runtime manager (nvm, pyenv), under an install root, elsewhere;
   tmp, tmp_managed: in a volatile directory, the second one named like a manager's; gone: a
   memfd, or deleted from a home or a volatile directory. *)
Exe == {"none", "system", "opt", "managed", "install", "home", "tmp", "tmp_managed", "gone"}
is_ephemeral_exec_path(exe) == exe \in Exe \ {"none", "system", "opt"}
is_standard_install_path(exe) == exe \in {"system", "opt", "managed", "install", "tmp_managed"}

(* look: what the machine says of a process and its program: is it in a foreign mount
   namespace, is the file it runs owned by root, is there a populated tree at its path. *)
Seen(foreign, root_owned, populated) ==
    [foreign |-> foreign, root_owned |-> root_owned, populated |-> populated]

exe_provenance(exe, look) ==
    CASE exe = "gone" -> "Deleted"
      [] exe # "gone" /\ look.foreign ->
            IF is_standard_install_path(exe) THEN "NestedUserInstall" ELSE "LoneDropped"
      [] exe = "system" /\ ~look.foreign ->
            IF look.root_owned THEN "InstalledApp" ELSE "LoneDropped"
      [] exe = "managed" /\ ~look.foreign -> "NestedUserInstall"
      [] exe \in {"opt", "install", "home"} /\ look.populated /\ ~look.foreign ->
            IF look.root_owned THEN "InstalledApp" ELSE "NestedUserInstall"
      [] OTHER -> "LoneDropped"

(***************************************************************************)
(* A report says where a program is; exe_provenance asks for the rest of   *)
(* it again, of the machine that evaluates the report.  That is the host   *)
(* itself, or a controller with processes and trees of its own: foreign    *)
(* and root are the pids it has in another mount namespace or running a    *)
(* program of root's, trees the entries whose path it has a tree at.       *)
(***************************************************************************)
OnHost == [host |-> TRUE]
Controller(foreign, root, trees) ==
    [host |-> FALSE, foreign |-> foreign, root |-> root, trees |-> trees]

(* Mutant: a file that cannot be stat-ed passes for root's. *)
seen_orRoot(e, at) ==
    IF at.host THEN e.look ELSE Seen(e.pid \in at.foreign, TRUE, e.k \in at.trees)

seen(e, at) ==
    IF at.host THEN e.look ELSE Seen(e.pid \in at.foreign, e.pid \in at.root, e.k \in at.trees)

SEC_001(r) == When(~r.firewall_active, Sec("SEC-001", "network", RISK_NO_FIREWALL))

SEC_002(r) ==
    When(r.root_login # "no",
         Sec("SEC-002", "security",
             IF r.root_login = "prohibit-password" THEN RISK_SSH_ROOT_LOGIN \div 2
             ELSE RISK_SSH_ROOT_LOGIN))

SEC_003(r) ==
    When(r.security_updates > 0,
         Sec("SEC-003", "packages",
             IF r.security_updates > 20 THEN RISK_SECURITY_UPDATES
             ELSE IF r.security_updates > 5 THEN 15 ELSE 10))

SEC_004(r) == When(\E c \in r.ssl_certificates : c.is_critical,
                   Sec("SEC-004", "network", RISK_CRITICAL_SSL_MAX))

(* R34-01: the findings that may carry the passwordless-root class. *)
prp_sec012(r) == r.sudoers_nopasswd_all # {}
prp_sec005(r) == \E e \in r.sudo_nopasswd_entries : e.k \in {"all", "privesc"}

SEC_005(r) ==
    LET plain == \E e \in r.sudo_nopasswd_entries : e.k = "plain" IN
    When(r.sudo_nopasswd_entries # {},
         IF prp_sec005(r) /\ ~prp_sec012(r) THEN Sec("SEC-005", "security", RISK_PASSWORDLESS_ROOT)
         ELSE IF prp_sec005(r) /\ ~plain THEN Info("SEC-005", "security")
         ELSE Sec("SEC-005", "security", 5))

SEC_006(r) == When(r.sudoers_mode = "other", Sec("SEC-006", "security", RISK_SUDOERS_MODE))

(* One finding per issue; ip_forward is expected where containers run. *)
SEC_007(r) ==
    {[Finding("SEC-007", "security", "security", RISK_SYSCTL_PER_ISSUE) EXCEPT
        !.of = i.k,
        !.suppressed = IF i.k = "ip_forward" /\ (r.runtime_active \/ r.kubelet)
                       THEN "scanner" ELSE "none"] : i \in r.sysctl_issues}

SEC_008(r) == When(r.password_auth, Sec("SEC-008", "security", RISK_SSH_PASSWORD_AUTH))
SEC_009(r) == When(r.password_auth /\ r.root_login # "no", Sec("SEC-009", "security", 5))
SEC_011(r) == When(\E k \in r.keys : ~k.compliant, Sec("SEC-011", "security", 10))
SEC_012(r) == When(prp_sec012(r), Sec("SEC-012", "security", RISK_PASSWORDLESS_ROOT))

SEC_061_anyEntry(r) ==
    When(\E g \in r.root_equivalent_groups : g.bypasses_sudo,
         IF prp_sec012(r) \/ r.sudo_nopasswd_entries # {} THEN Info("SEC-061", "security")
         ELSE Sec("SEC-061", "security", RISK_PASSWORDLESS_ROOT))
(* Carries the class only when neither sudoers finding does. *)
SEC_061(r) ==
    When(\E g \in r.root_equivalent_groups : g.bypasses_sudo,
         IF prp_sec012(r) \/ prp_sec005(r) THEN Info("SEC-061", "security")
         ELSE Sec("SEC-061", "security", RISK_PASSWORDLESS_ROOT))

replaceable(d) ==
    \/ d.writability = "NonRootWritable"
    \/ d.writability = "Missing" /\ d.k = "authorizedkeyscommand"

SEC_062(r) ==
    When(\E d \in r.sshd_directives : replaceable(d), Sec("SEC-062", "security", 30))
    \cup When(\E d \in r.sshd_directives : ~replaceable(d), Info("SEC-062", "security"))

(* environment= of a key is live only with PermitUserEnvironment. *)
SEC_063(r) ==
    When(\E k \in r.keys : k.environment,
         IF \E d \in r.sshd_directives : d.k = "permituserenvironment" /\ d.value # "no"
         THEN Sec("SEC-063", "security", 20) ELSE Info("SEC-063", "security"))

(* classify_listeners: a tier for each listener that runs from an ephemeral path. *)
tier(p, at) ==
    LET prov == IF p.pid = 0 THEN "LoneDropped" ELSE exe_provenance(p.exe, seen(p, at))
    IN
    IF p.bind = "loopback" /\ prov = "InstalledApp" THEN "devtool"
    ELSE IF p.bind = "loopback" /\ prov = "NestedUserInstall" THEN "provisional"
    ELSE "suspicious"
tiers(r) ==
    {tier(p, r.at) : p \in {q \in r.listening_ports : is_ephemeral_exec_path(q.exe)}}

SEC_013_030_031(r) ==
    When("suspicious" \in tiers(r), Sec("SEC-013", "network", 20))
    \cup When("devtool" \in tiers(r), Info("SEC-030", "network"))
    \cup When("provisional" \in tiers(r), Info("SEC-031", "network"))

AccessFindings(r) ==
    UNION {SEC_001(r), SEC_002(r), SEC_003(r), SEC_004(r), SEC_005(r), SEC_006(r), SEC_007(r),
           SEC_008(r), SEC_009(r), SEC_011(r), SEC_012(r), SEC_061(r), SEC_062(r), SEC_063(r),
           SEC_013_030_031(r)}
===============================================================================
