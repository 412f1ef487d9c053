------------------------------- MODULE HostDrift -------------------------------
(***************************************************************************)
(* A host that changes, the scans that look at it, the accepted risks laid *)
(* over a scan and the snapshot it is later compared with (the audit,      *)
(* snapshot and compare commands of src/main.rs).  At every moment now is  *)
(* the report a scan would give, and compare_reports(base, now) what       *)
(* `compare` would print.                                                  *)
(***************************************************************************)
EXTENDS Compare

CONSTANTS
    Hardened,     \* the facts of a host nothing is wrong with
    Entries,      \* for each list, the entries it may have
    Values,       \* for each scalar, the values it may take
    Topics,       \* sets of fields: in a behaviour only those of one topic change
    Rules,        \* the acceptance rules an operator may write
    Hostname,     \* a sequence of characters
    Unknown,      \* the name of a host whose host scanner panicked
    Controllers,  \* the machines a collected report may be evaluated on again
    MaxBefore,    \* bound on the changes before the snapshot is taken
    MaxAfter,     \* and after it
    MaxPanics,    \* bound on the changes and panics together, where there is a panic
    MaxRules,     \* bound on the rules of the policy file
    LastDay       \* bound on the calendar

(* What the scanners write: flags, counts, finite lists. *)
Flags ==
    {"reboot_required", "firewall_active", "password_auth", "fail2ban_active", "auditd_active",
     "ntp_synchronized", "privileged"}
WellFormed(l, es) ==
    CASE l = "cpu_vulnerabilities" -> \A e \in es : e.vulnerable \in BOOLEAN
      [] l = "ssl_certificates" ->
            \A e \in es : e.is_critical \in BOOLEAN /\ e.is_warning \in BOOLEAN
      [] l = "containers" -> \A e \in es : e.privileged \in BOOLEAN
      [] l = "shell_users" -> \A e \in es : e.keys \in Nat
      [] l = "one_way_switches" -> \A e \in es : e.value \in Nat \cup {Unreadable}
      [] OTHER -> TRUE

ASSUME FactsAssumption ==
    /\ Hardened = [x \in Fields |-> Hardened[x]]
    /\ \A l \in ListFields :
        IsFiniteSet(Hardened[l]) /\ WellFormed(l, Hardened[l]) /\ WellFormed(l, Entries[l])
    /\ \A x \in Flags : Hardened[x] \in BOOLEAN /\ Values[x] \subseteq BOOLEAN
    /\ Topics \subseteq SUBSET Fields
ASSUME ControllersAssumption == \A m \in Controllers : m.host = FALSE
ASSUME RulesAssumption == \A rule \in Rules : rule.expires \in Int

VARIABLES
    topic,    \* the fields that change
    host,     \* the facts of the host
    failed,   \* the scanners that panic in the scan
    base,     \* the snapshot of earlier, or NoSnapshot
    rules,    \* accept.json
    today,
    now,      \* the report of a scan now, what is found in it, and its score
    changed   \* number of changes of the host since the start, or since the snapshot

vars == <<topic, host, failed, base, rules, today, now, changed>>

NoSnapshot == [hostname |-> <<>>]

(* A scan: the report, its findings, the stored risk_score; the accepted risks are applied
   under the name the scan found (Unknown when the host scanner panicked). *)
scan(facts, panicked, policy, day) ==
    LET r == report_of(facts, panicked)
        fs == evaluate(r)
        h == IF "host" \in panicked THEN Unknown ELSE Hostname
    IN [hostname |-> h, report |-> r, found |-> fs, score |-> score(fs),
        shown |-> apply(policy, h, day, fs)]

snapshot(s) == [hostname |-> s.hostname, report |-> s.report, score |-> s.score]

-------------------------------------------------------------------------------
Init ==
    /\ topic \in Topics
    /\ host = Hardened
    /\ failed = {}
    /\ base = NoSnapshot
    /\ rules = <<>>
    /\ today = 0
    /\ now = scan(Hardened, {}, <<>>, 0)
    /\ changed = 0

HostBecomes(facts) ==
    /\ changed < IF base = NoSnapshot THEN MaxBefore ELSE MaxAfter
    /\ failed = {} /\ rules = <<>>
    /\ host' = facts
    /\ changed' = changed + 1
    /\ now' = scan(facts, {}, <<>>, today)
    /\ UNCHANGED <<topic, failed, base, rules, today>>

(* Something appears, or takes the place of what had its key. *)
Appear(l, e) ==
    /\ e \notin host[l]
    /\ HostBecomes([host EXCEPT ![l] = {x \in @ : x.k # e.k} \cup {e}])

Disappear(l, e) ==
    /\ e \in host[l]
    /\ HostBecomes([host EXCEPT ![l] = @ \ {e}])

Turn(x, v) ==
    /\ host[x] # v
    /\ HostBecomes([host EXCEPT ![x] = v])

(* `snapshot`: what a scan finds now is kept; the next scan starts afresh. *)
Snapshot ==
    /\ base = NoSnapshot /\ rules = <<>>
    /\ base' = snapshot(now)
    /\ failed' = {}
    /\ changed' = 0
    /\ now' = scan(host, {}, rules, today)
    /\ UNCHANGED <<topic, host, rules, today>>

ScannerPanics(s) ==
    /\ changed + Cardinality(failed) < MaxPanics
    /\ s \notin failed /\ rules = <<>>
    /\ failed' = failed \cup {s}
    /\ now' = scan(host, failed', rules, today)
    /\ UNCHANGED <<topic, host, base, rules, today, changed>>

(* A rule is added to accept.json; a file that does not load ends the audit with a usage
   error, so the operator goes on with one that does. *)
Accept(rule) ==
    /\ base = NoSnapshot   \* `compare` has no --accept
    /\ Len(rules) < MaxRules
    /\ loads(Append(rules, rule))
    /\ rules' = Append(rules, rule)
    /\ now' = scan(host, failed, rules', today)
    /\ UNCHANGED <<topic, host, failed, base, today, changed>>

DayPasses ==
    /\ rules # <<>>
    /\ today < LastDay
    /\ today' = today + 1
    /\ now' = scan(host, failed, rules, today')
    /\ UNCHANGED <<topic, host, failed, base, rules, changed>>

Next ==
    \/ \E l \in topic \cap ListFields : \E e \in Entries[l] : Appear(l, e) \/ Disappear(l, e)
    \/ \E x \in topic \ ListFields : \E v \in Values[x] : Turn(x, v)
    \/ Snapshot
    \/ \E s \in Scanner : ScannerPanics(s)
    \/ \E rule \in Rules : Accept(rule)
    \/ DayPasses

Spec == Init /\ [][Next]_vars

-------------------------------------------------------------------------------
changes == compare_reports(base.report, now.report, base.score, now.score)
verdict(fs) == security_verdict_from_findings(fs)
SeverityOf(v) == CASE v = "Clean" -> 0 [] v = "Critical" -> 1 [] v = "Compromised" -> 2

(* One more entry in a list that holds evidence (every list but the backup tools). *)
OneMoreEntry(l) ==
    /\ host[l] # host'[l] /\ host[l] \subseteq host'[l]
    /\ \A x \in Fields \ {l} : host[x] = host'[x]

(* What the plain NOPASSWD entries stop weighing when a root path joins them and SEC-005
   takes the class over from SEC-061. *)
BaseTier(l) == IF l = "sudo_nopasswd_entries" THEN 5 ELSE 0

(* More evidence never excuses a host: an additional entry of any list of the report lowers
   neither the score nor the verdict, although several rules suppress themselves in favour
   of another one (scoring.rs, R34-01, memory buckets, SEC-038, SEC-041).  The one exception
   the code has is the base tier of SEC-005. *)
EvidenceNeverExcuses ==
    [][\A l \in ListFields \ {"backup_tools"} : OneMoreEntry(l) =>
        /\ now'.score + BaseTier(l) >= now.score
        /\ SeverityOf(verdict(now'.found)) >= SeverityOf(verdict(now.found))]_vars

(* R34-01 (scoring.rs 305-323): passwordless root, however many ways lead to it, is weighed
   by exactly one of the three findings that can carry it. *)
ClassWeighedOnce ==
    LET r == now.report
        class == prp_sec012(r) \/ prp_sec005(r)
                    \/ \E g \in r.root_equivalent_groups : g.bypasses_sudo
        carriers == {f \in live(now.found) : /\ f.id \in {"SEC-005", "SEC-012", "SEC-061"}
                                             /\ f.weight = RISK_PASSWORDLESS_ROOT}
    IN "security" \notin failed => Cardinality(carriers) = IF class THEN 1 ELSE 0

(* The exit code and the score tell the same story (debug_assert of from_findings,
   scoring.rs 3415): a compromised host scores at least 55, whatever else is found. *)
CompromiseShowsInScore == compromised_host(now.found) => now.score >= 55

(* accept.json cannot hide a compromise or the note that a scanner failed
   (acceptance.rs 34-50): the verdict with accepted risks is Compromised whenever the raw
   one is, and every COV-001 stays live. *)
AcceptanceNeverHidesCompromise ==
    /\ compromised_host(now.found) = compromised_host(now.shown)
    /\ \A s \in failed : \E f \in live(now.shown) : f.id = "COV-001" /\ f.of = s

(* The score, the verdict and the acceptances speak of the same host (scoring.rs,
   acceptance.rs). *)
WeightsAreSound == ClassWeighedOnce /\ CompromiseShowsInScore /\ AcceptanceNeverHidesCompromise

(* Time only takes acceptances away: a day later, with the same host and the same rules,
   nothing that was live is hidden (apply, acceptance.rs 152-187, also when an expired rule
   shadows a valid one). *)
LapsesReopen ==
    [][today' > today => live(now.shown) \subseteq live(now'.shown)]_vars

(* An improvement that is undone is a degradation: a change cannot be reported as Improved
   in both directions, so a host that flaps between two states trips --fail-on-drift. *)
ImprovedBackIsDegraded ==
    base # NoSnapshot =>
        \A c \in changes : c.severity = "Improved" =>
            \E d \in compare_reports(now.report, base.report, now.score, base.score) :
                d.field = c.field /\ d.k = c.k /\ d.severity = "Degraded"

(* Lists and scalars as they were, or with more in them; a new backup tool would be
   something put right. *)
OnlyWorse ==
    \A x \in Fields :
        IF x \in ListFields \ {"backup_tools"} THEN base.report[x] \subseteq now.report[x]
        ELSE base.report[x] = now.report[x]

(* A compromise that came after the snapshot is drift: where nothing else was put right and
   the security axis had room, `compare --fail-on-drift` exits 1 although compare.rs does
   not look at ghost pids, reverse shells, processes or memory at all. *)
CompromiseIsDrift ==
    (/\ base # NoSnapshot /\ failed = {}
     /\ OnlyWorse
     /\ ~compromised_host(evaluate(base.report))
     /\ security(evaluate(base.report)) < 60
     /\ compromised_host(now.found))
        => exit_single(changes) = EXIT_CRITICAL

(* R28-21, R28-02: what could not be read again has not improved: an account that is no
   longer enumerated, a bounding set or a listener's program that is no longer readable. *)
UnreadIsNotImproved ==
    base # NoSnapshot /\ failed = {} =>
        \A c \in changes : c.severity = "Improved" =>
            /\ c.field = "shell_users" => c.k \in keys_of(now.report.shell_users)
            /\ c.field = "containers.bounding" => entry(now.report.containers, c.k).bounding_read
            /\ c.field = "listening_ports.exe_path" =>
                   entry(now.report.listening_ports, c.k).exe # "none"

(* Pairing by host name loses no drift: when the two reports of a host differ for the worse,
   the comparison of fleets exits 1 as well, also when a panicked host scanner left the host
   without its name. *)
PairingHidesNothing ==
    base # NoSnapshot =>
        exit_single(changes) <= exit_multi(compare_multi(<<base>>, <<snapshot(now)>>))

(* What an operator who watches only the exit code of `compare` may rely on. *)
DriftIsHonest == ImprovedBackIsDegraded /\ CompromiseIsDrift /\ PairingHidesNothing

(* The report of now evaluated on a controller (main.rs 172, ui.rs 215). *)
evaluate_on(m) == evaluate([now.report EXCEPT !.at = m])

(* What scoring.rs 3322-3325 claims of evaluate, "a pure function": a report means the same
   wherever it is evaluated, so no controller finds a host milder than the host does.  It is
   not so: exe_provenance asks the machine it runs on. *)
ElsewhereNeverMilder ==
    \A m \in Controllers :
        SeverityOf(verdict(evaluate_on(m))) >= SeverityOf(verdict(now.found))

(* A controller takes its own process or tree for the one of the report: one in another
   namespace of its own (the path alone decides), one running a program of root's, or a tree
   of its own at the path, where the host had no such thing. *)
Vouches(m, e) ==
    \/ e.pid \in m.foreign
    \/ e.pid \in m.root /\ ~(e.look.root_owned /\ ~e.look.foreign)
    \/ e.k \in m.trees /\ ~(e.look.populated /\ ~e.look.foreign)

(* What can be relied on instead: a controller whose pids and paths do not collide with a
   memory region of the report finds it no milder than the host did, so with no collision the
   exit code of a fleet audit is no milder than the host's own.  Listeners, looked up as
   well, do not decide it. *)
OnlyVouchingMakesMilder ==
    \A m \in Controllers :
        SeverityOf(verdict(evaluate_on(m))) < SeverityOf(verdict(now.found)) =>
            \E f \in now.report.library_injections : Vouches(m, f)
===============================================================================
