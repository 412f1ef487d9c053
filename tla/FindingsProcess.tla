--------------------------- MODULE FindingsProcess ---------------------------
(***************************************************************************)
(* The rules of src/scoring.rs about running processes: implants, fileless *)
(* and masquerading processes, injected or anomalous executable memory,    *)
(* hidden pids, leaked secrets and process capabilities.                   *)
(***************************************************************************)
EXTENDS Findings

critical_caps_of(r, pid) == \E c \in r.capability_audit : c.pid = pid /\ c.critical

(* A reachable listener run from an ephemeral path by a process with critical capabilities. *)
SEC_015(r) ==
    When(\E p \in r.listening_ports :
            /\ p.bind = "wildcard"
            /\ is_ephemeral_exec_path(p.exe)
            /\ p.pid # 0
            /\ critical_caps_of(r, p.pid),
         Sec("SEC-015", "security", 60))

SEC_016(r) ==
    When(\E p \in r.suspicious_processes : p.name = "malware", Sec("SEC-016", "security", 60))

(* What the scanner leaves behind itself is listed, not held against the host. *)
fileless(r) == {p \in r.suspicious_processes : p.is_deleted /\ ~p.self_attributed}
SEC_017(r) == When(fileless(r) # {}, Sec("SEC-017", "security", 60))
SEC_032(r) ==
    When(\E p \in r.suspicious_processes : p.is_deleted /\ p.self_attributed,
         Info("SEC-032", "security"))
SEC_019(r) ==
    When(\E p \in fileless(r) : p.euid = 0 \/ critical_caps_of(r, p.pid),
         Sec("SEC-019", "security", 60))
SEC_020(r) ==
    When(\E p \in r.suspicious_processes : p.is_mimic, Sec("SEC-020", "security", 60))
SEC_021(r) == When(r.mount_masking # {}, Sec("SEC-021", "security", 60))
SEC_022(r) == When(r.reverse_shells # {}, Sec("SEC-022", "security", 60))

DEEP_ESCALATE_MIN == 60
DEEP_DEMOTE_MIN == 70
TRAMPOLINE_MAX_BYTES == 4096

(* f.deep: what --deep read from the region; origin "none" without it.  shape tells a high
   entropy or an image header ("malice") from a prologue with pointers into known code. *)
analysed(f) == f.deep.origin # "none"
is_trumping_malice(f) == analysed(f) /\ f.deep.shape = "malice"
is_benign_shape(f) == analysed(f) /\ f.deep.shape = "benign"
BenignOrigin ==
    {"FfiClosure", "GObjectCallback", "HotSpot", "Pcre2Jit", "JitCode", "ManagedJit",
     "ReservedBuffer", "RuntimeTrampoline"}
TrustedSource == {"maps-rwx-provisional", "maps-rwx-runtime-allowlist", "maps-rwx-cached-clean"}

reputable_exe(f, at) ==
    \/ f.source \in TrustedSource
    \/ /\ f.exe # "none"
       /\ exe_provenance(f.exe, seen(f, at)) \in {"InstalledApp", "NestedUserInstall"}

process_behavior_clean(pid, r) ==
    /\ ~ \E p \in r.listening_ports : p.pid = pid /\ p.bind # "loopback"
    /\ ~ \E g \in r.library_injections : g.pid = pid /\ g.source = "ptrace"

(* LibraryInjectionFinding::classify.  No scanner writes a "ptrace" source today. *)
classify(f) ==
    IF f.source \in {"maps", "LD_PRELOAD"} THEN "Classic"
    ELSE IF f.source \in TrustedSource \cup
                {"maps-rwx-jit-runtime", "maps-rx-jit-suppressed", "maps-so-jit-extract",
                 "maps-so-tmp-unverified", "maps-so-unlink-on-load",
                 "maps-rwx-stale-after-upgrade"}
         THEN "Advisory"
    ELSE "Anomaly"

unlink_bucket(f) ==
    IF f.deep.origin = "GhostCleanImage" /\ f.deep.confidence >= DEEP_DEMOTE_MIN THEN "Advisory"
    ELSE IF f.deep.origin = "GhostSuspectImage" /\ f.deep.confidence >= DEEP_ESCALATE_MIN
         THEN "DeepCritical"
    ELSE IF f.deep.origin # "GhostInconclusive" /\ is_benign_shape(f) THEN "Advisory"
    ELSE "UnlinkGhost"

mem_bucket(f, r) ==
    IF is_trumping_malice(f) THEN "DeepCritical"
    ELSE IF f.deep.origin = "UnknownPayload" /\ f.deep.confidence >= DEEP_ESCALATE_MIN
         THEN "DeepCritical"
    ELSE IF f.deep.origin \in BenignOrigin /\ f.deep.confidence >= DEEP_DEMOTE_MIN
         THEN "Advisory"
    ELSE IF /\ f.deep.origin = "Inconclusive"
            /\ process_behavior_clean(f.pid, r)
            /\ reputable_exe(f, r.at) \/ (f.exe = "none" /\ f.runtime_comm)
         THEN "TrustedUnverified"
    ELSE IF f.source = "maps-so-unlink-on-load" THEN unlink_bucket(f)
    ELSE IF f.source \in TrustedSource \cup {"maps-so-tmp-unverified"}
         THEN IF is_benign_shape(f) THEN "Advisory" ELSE "TrustedUnverified"
    ELSE classify(f)

is_trampoline_page(f) ==
    f.source \in {"maps-anon-rx", "maps-anon-rx-trampoline"} /\ f.bytes = TRAMPOLINE_MAX_BYTES

in_bucket(r, b) == {f \in r.library_injections : mem_bucket(f, r) = b}
memory_anomalies(r) == {f \in in_bucket(r, "Anomaly") : ~is_trampoline_page(f)}
provisional_regions(r) ==
    in_bucket(r, "TrustedUnverified")
        \cup {f \in in_bucket(r, "Anomaly") : is_trampoline_page(f)}

SEC_023(r) == When(in_bucket(r, "Classic") # {}, Sec("SEC-023", "security", 60))
SEC_028(r) == When(in_bucket(r, "DeepCritical") # {}, Sec("SEC-028", "security", 60))
SEC_026(r) ==
    When(memory_anomalies(r) # {},
         Sec("SEC-026", "security",
             IF \E f \in memory_anomalies(r) : f.source \in {"maps-exec-stack", "maps-exec-heap", "maps-anon-rwx"}
             THEN 20 ELSE 10))
SEC_029(r) == When(provisional_regions(r) # {}, Info("SEC-029", "security"))
SEC_033(r) == When(in_bucket(r, "UnlinkGhost") # {}, Info("SEC-033", "security"))
SEC_027(r) == When(in_bucket(r, "Advisory") # {}, Info("SEC-027", "security"))

SEC_024_025(r) ==
    When(\E g \in r.ghost_pids : g.confirmed_ioc, Sec("SEC-024", "security", 60))
    \cup When(\E g \in r.ghost_pids : ~g.confirmed_ioc, Sec("SEC-025", "security", 20))

DLP_SHORT_LIVED_AGE_SECS == 300
UnknownAge == DLP_SHORT_LIVED_AGE_SECS
short_lived(l) == l.age < DLP_SHORT_LIVED_AGE_SECS

(* A secret of the scanner's own environment is shown, with weight zero. *)
SEC_014_059_058(r) ==
    LET host_leaks == {l \in r.secret_hygiene : ~l.self_attributed} IN
    When(\E l \in host_leaks : ~short_lived(l), Sec("SEC-014", "security", 25))
    \cup When(\E l \in host_leaks : short_lived(l), Info("SEC-059", "security"))
    \cup When(host_leaks # r.secret_hygiene, Sec("SEC-058", "security", 0))

CAP_001(r) ==
    LET caps == {c \in r.capability_audit : c.critical}
        exposed == \E c \in caps, p \in r.listening_ports :
                        p.pid = c.pid /\ p.bind = "wildcard"
    IN When(caps # {}, Sec("CAP-001", "security", IF exposed THEN 20 ELSE 8))

ambient_escalation_weight(ambient) ==
    IF "dangerous" \in ambient THEN 12 ELSE IF "net_raw" \in ambient THEN 5 ELSE 0

CAP_002(r) ==
    LET weights == {ambient_escalation_weight(c.ambient) :
                        c \in {d \in r.capability_audit : d.reason = "AmbientCapsNoNewPrivs"}}
        active == weights \ {0}
    IN When(active # {},
            Sec("CAP-002", "security", Max(active)))
       \cup When(0 \in weights, Info("CAP-002", "security"))

ProcessFindings(r) ==
    UNION {SEC_015(r), SEC_016(r), SEC_017(r), SEC_032(r), SEC_019(r), SEC_020(r), SEC_021(r),
           SEC_022(r), SEC_023(r), SEC_028(r), SEC_026(r), SEC_029(r), SEC_033(r), SEC_027(r),
           SEC_024_025(r), SEC_014_059_058(r), CAP_001(r), CAP_002(r)}
===============================================================================
