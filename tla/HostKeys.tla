------------------------------- MODULE HostKeys -------------------------------
(***************************************************************************)
(* Trust on first use: KnownHostsChecker of src/known_hosts.rs, one per    *)
(* connection, over two files.  The system file belongs to the operator;   *)
(* the pin file is appended to by every scan that meets an unknown host.   *)
(* Several scans run at once (a fleet, or two runs of the tool), each of   *)
(* them loads, negotiates, verifies and appends in steps of its own.       *)
(***************************************************************************)
EXTENDS SshConfig, FiniteSets

CONSTANTS
    Scans,       \* connections that may be under way at once
    Keys,        \* the keys a server may show: [type, data]
    SystemFiles, \* the contents the operator's known_hosts may have: sequences of lines
    Port,
    Patterns,    \* host patterns to try the two glob matchers on
    MaxPins      \* bound on the length of the pin file

(* known_hosts names the type of a key, never one of the signatures made with it. *)
Signatures == {"rsa-sha2-256", "rsa-sha2-512"}
ASSUME FilesAssumption ==
    \A f \in SystemFiles : f \in Seq(ToSet(f)) /\ \A l \in ToSet(f) : l.key.type \notin Signatures
ASSUME KeysAssumption == Keys \subseteq [type : STRING, data : STRING]
ASSUME NamesAssumption == Port \in STRING \ {"*"} /\ Patterns \subseteq Seq(STRING)

VARIABLES
    system,    \* ~/.ssh/known_hosts
    pins,      \* ~/.owlzops/known_hosts, the lines as they are
    torn,      \* the pin file does not end with a newline
    scan       \* for each connection: host, step, entries, shown, outcome, note

vars == <<configVars, system, pins, torn, scan>>
keyVars == <<system, pins, torn, scan>>

(* A line: patterns of its host field (hashed: the one name whose HMAC it is), key, marker. *)
Line(fields, hashed, key, marker) ==
    [fields |-> fields, hashed |-> hashed, key |-> key, marker |-> marker]
PinLine(name, key) == Line({name}, FALSE, key, "none")
Garbage == [type |-> "ssh-ed25519", data |-> "cut"]

host_candidates(host, port) == IF port = "22" THEN host ELSE <<"[">> \o host \o <<"]", ":", port>>

(* KnownHostsChecker::glob_match: the two pointers of its loop, the last star met and the place
   in the name that it reaches to.  The name has no wildcard. *)
Cursors(p, t) ==
    {c \in [pi : 1 .. Len(p) + 1, ti : 1 .. Len(t) + 1, star_p : 0 .. Len(p), star_t : 0 .. Len(t) + 1] :
        c.star_t <= c.ti}
fits(p, t, c) == c.pi <= Len(p) /\ p[c.pi] \in {"?", t[c.ti]}
at_star(p, c) == c.pi <= Len(p) /\ p[c.pi] = "*"
turn(p, t, c) ==
    IF fits(p, t, c) THEN [c EXCEPT !.pi = @ + 1, !.ti = @ + 1]
    ELSE IF at_star(p, c) THEN [c EXCEPT !.pi = @ + 1, !.star_p = c.pi, !.star_t = c.ti]
    ELSE [c EXCEPT !.pi = c.star_p + 1, !.ti = c.star_t + 1, !.star_t = @ + 1]
known_hosts_glob(p, t) ==
    LET loop[c \in Cursors(p, t)] ==
            IF c.ti > Len(t) THEN \A i \in c.pi .. Len(p) : p[i] = "*"
            ELSE (fits(p, t, c) \/ at_star(p, c) \/ c.star_p # 0) /\ loop[turn(p, t, c)]
    IN loop[[pi |-> 1, ti |-> 1, star_p |-> 0, star_t |-> 0]]

host_field_matches(l, name) ==
    IF l.hashed THEN name \in l.fields ELSE \E p \in l.fields : known_hosts_glob(p, name)

(* Only the lines of this host are kept; an authority or an unknown marker for it is noted. *)
load_entries(files, name) ==
    LET mine == {l \in ToSet(files) : host_field_matches(l, name)} IN
    [lines |-> {l \in mine : l.marker \in {"none", "revoked"}},
     unsupported |-> \E l \in mine : l.marker \in {"cert-authority", "unknown"}]

(* A key type is several algorithms on the wire. *)
algorithms_from_openssh_name(type) ==
    CASE type = "ssh-rsa" -> {"rsa-sha2-512", "rsa-sha2-256", "ssh-rsa"}
      [] type \in {"ssh-ed25519", "ecdsa-sha2-nistp256", "ecdsa-sha2-nistp384",
                   "ecdsa-sha2-nistp521"} -> {type}
      [] OTHER -> {}
DefaultOffer == {"ssh-ed25519", "ecdsa-sha2-nistp256", "rsa-sha2-512", "rsa-sha2-256", "ssh-rsa"}
pinned_algorithms(e) ==
    UNION {algorithms_from_openssh_name(l.key.type) : l \in {k \in e.lines : k.marker = "none"}}
offer(e) == IF pinned_algorithms(e) = {} THEN DefaultOffer ELSE pinned_algorithms(e)

canonical_key_type(type) == IF type \in Signatures THEN "ssh-rsa" ELSE type
same_key(k, shown) == canonical_key_type(k.type) = canonical_key_type(shown.type) /\ k.data = shown.data

verify_matchFirst(e, shown) ==
    LET revoked == {l \in e.lines : l.marker = "revoked"}
        usable == e.lines \ revoked
    IN IF \E l \in usable : same_key(l.key, shown) THEN "trusted"
       ELSE IF \E l \in revoked : same_key(l.key, shown) THEN "HostKeyRevoked"
       ELSE IF usable # {} THEN "HostKeyChanged"
       ELSE IF e.unsupported THEN "HostKeyUnsupportedTrust"
       ELSE "first_use"
verify_perType(e, shown) ==
    LET ours == {l \in e.lines : canonical_key_type(l.key.type) = canonical_key_type(shown.type)}
        revoked == {l \in ours : l.marker = "revoked"}
        usable == ours \ revoked
    IN IF \E l \in revoked : same_key(l.key, shown) THEN "HostKeyRevoked"
       ELSE IF \E l \in usable : same_key(l.key, shown) THEN "trusted"
       ELSE IF usable # {} THEN "HostKeyChanged"
       ELSE IF e.unsupported THEN "HostKeyUnsupportedTrust"
       ELSE "first_use"
(* verify, in the order of its loops: revoked, exact match, conflict, the marker, and only
   then first use. *)
verify(e, shown) ==
    LET revoked == {l \in e.lines : l.marker = "revoked"}
        usable == e.lines \ revoked
    IN IF \E l \in revoked : same_key(l.key, shown) THEN "HostKeyRevoked"
       ELSE IF \E l \in usable : same_key(l.key, shown) THEN "trusted"
       ELSE IF usable # {} THEN "HostKeyChanged"
       ELSE IF e.unsupported THEN "HostKeyUnsupportedTrust"
       ELSE "first_use"

-------------------------------------------------------------------------------
Idle == [step |-> "idle"]
NoKey == [type |-> "none", data |-> "none"]
name(s) == host_candidates(scan[s].host, Port)

Init ==
    /\ StartReading
    /\ system \in SystemFiles
    /\ pins = <<>> /\ torn = FALSE
    /\ scan = [s \in Scans |-> Idle]

(* KnownHostsChecker::new: both files are read once, and the algorithms to offer chosen. *)
New(s, h) ==
    /\ ~reading /\ h \in ToSet(targets)
    /\ scan[s] = Idle
    /\ LET e == load_entries(system \o pins, host_candidates(h, Port)) IN
       scan' = [scan EXCEPT ![s] = [step |-> "loaded", host |-> h, entries |-> e, offer |-> offer(e),
                                known |-> Len(pins)]]
    /\ UNCHANGED <<configVars, system, pins, torn>>

(* The trust store cannot be read, or HOME is not set: no connection without it. *)
NewFails(s, h) ==
    /\ ~reading /\ h \in ToSet(targets)
    /\ scan[s] = Idle
    /\ scan' = [scan EXCEPT ![s] = [step |-> "done", host |-> h, outcome |-> "HostKeyCheck",
                                shown |-> NoKey, note |-> FALSE]]
    /\ UNCHANGED <<configVars, system, pins, torn>>

(* The server shows one of the keys the offer allows. *)
CheckServerKey(s, key) ==
    /\ scan[s].step = "loaded"
    /\ key.type \in scan[s].offer
    /\ LET v == verify(scan[s].entries, key) IN
       scan' = [scan EXCEPT ![s] =
            IF v = "first_use"
            THEN [step |-> "pinning", host |-> @.host, shown |-> key, known |-> @.known]
            ELSE [step |-> "done", host |-> @.host, outcome |-> v, shown |-> key, note |-> FALSE]]
    /\ UNCHANGED <<configVars, system, pins, torn>>

Trusts(s, noted) ==
    scan' = [scan EXCEPT ![s] =
                [step |-> "done", host |-> @.host, outcome |-> "trusted", shown |-> @.shown,
                 note |-> noted]]

(* What one write leaves: after a torn line the new one is glued to it and lost, as the tail
   of a key that is none. *)
Glued(line) == IF torn THEN pins ELSE Append(pins, line)

Pin(s) ==
    /\ scan[s].step = "pinning" /\ Len(pins) < MaxPins
    /\ pins' = Glued(PinLine(name(s), [scan[s].shown EXCEPT !.type = canonical_key_type(@)]))
    /\ torn' = FALSE
    /\ Trusts(s, FALSE)
    /\ UNCHANGED <<configVars, system>>

(* The file cannot be opened, or nothing of the line is written: the scan says so. *)
PinFails(s) ==
    /\ scan[s].step = "pinning"
    /\ Trusts(s, TRUE)
    /\ UNCHANGED <<configVars, system, pins, torn>>

(* The disk fills up in the middle of the line: within the key, or before the line says
   whose it is. *)
PinTorn(s, whose) ==
    /\ scan[s].step = "pinning" /\ Len(pins) < MaxPins
    /\ pins' = Glued(PinLine(whose, Garbage))
    /\ torn' = TRUE
    /\ Trusts(s, TRUE)
    /\ UNCHANGED <<configVars, system>>

(* The next attempt, or the next run of the tool. *)
Again(s) ==
    /\ scan[s].step = "done"
    /\ scan' = [scan EXCEPT ![s] = Idle]
    /\ UNCHANGED <<configVars, system, pins, torn>>

ReadConfig ==
    /\ (\E l \in Lines : ReadLine(l)) \/ EndOfFile
    /\ UNCHANGED keyVars
Connection(s) ==
    \/ \E h \in ToSet(targets) : New(s, h) \/ NewFails(s, h)
    \/ \E key \in Keys : CheckServerKey(s, key)
    \/ Pin(s) \/ PinFails(s)
    \/ scan[s].step = "pinning" /\ \E whose \in {name(s), NoName} : PinTorn(s, whose)
    \/ Again(s)
Next == ReadConfig \/ \E s \in Scans : Connection(s)
Spec == Init /\ [][Next]_vars

-------------------------------------------------------------------------------
(* The hosts of a file, block by block: a block reaches to the next Host or Match. *)
BlockEnd(ls, i) ==
    CHOOSE j \in i + 1 .. Len(ls) + 1 :
        /\ j = Len(ls) + 1 \/ ls[j].kind \in {"host", "match"}
        /\ \A k \in i + 1 .. j - 1 : ls[k].kind \notin {"host", "match"}
HostNames(ls, i) ==
    {j \in i + 1 .. BlockEnd(ls, i) - 1 : ls[j].kind = "hostname" /\ ls[j].args # <<>>}
BlockHosts(ls) ==
    {host_of([aliases |-> ls[i].args,
              host_name |-> IF HostNames(ls, i) = {} THEN NoName
                            ELSE ls[Min(HostNames(ls, i))].args[1]]) :
        i \in {j \in DOMAIN ls : ls[j].kind = "host"}} \ {NoName}

(* --hosts-from-ssh-config scans exactly the hosts of the blocks asked for (extract_hosts):
   a HostName counts for the block it stands in, not for one that a Match has ended, and no
   host is scanned twice. *)
TargetsAreTheBlocks ==
    [][reading /\ ~reading' =>
        /\ ToSet(targets') = BlockHosts(lines)
        /\ Len(targets') = Cardinality(ToSet(targets'))]_vars

(* The loop with two pointers of known_hosts.rs and the recursion of acceptance.rs decide
   alike which hosts a pattern names (host_field_matches, glob_match). *)
GlobsAgree ==
    [][\A p \in Patterns : \A h \in ToSet(targets') \ ToSet(targets) :
        LET n == host_candidates(h, Port) IN known_hosts_glob(p, n) <=> glob_match(p, n)]_vars

(* Which hosts are scanned, and which lines of known_hosts speak of them. *)
TargetsAreNamed == TargetsAreTheBlocks /\ GlobsAgree

(* R25-30, R25-40, R25-77: restricting the offer to the pinned algorithms never shuts out a
   server whose key verify would accept: an RSA key keeps its SHA-2 signatures, and a
   revoked key does not shape the offer. *)
AcceptableIsOffered ==
    \A s \in Scans : scan[s].step = "loaded" =>
        \A k \in Keys : verify(scan[s].entries, k) \in {"trusted", "first_use"}
            /\ k.type \in DefaultOffer => k.type \in scan[s].offer

(* R25-66: a key the operator revoked for a host is never trusted there, not even where
   another line or an earlier first use accepts it. *)
RevokedNeverTrusted ==
    \A s \in Scans : scan[s].step = "done" /\ scan[s].outcome = "trusted" =>
        ~ \E l \in ToSet(system) : /\ l.marker = "revoked"
                                    /\ host_field_matches(l, name(s))
                                    /\ same_key(l.key, scan[s].shown)

(* What load, pinned_algorithms and verify decide together about a server's key. *)
TrustIsSound == AcceptableIsOffered /\ RevokedNeverTrusted

(* First use is the first: a key is pinned for a host only when neither file had a usable
   line for it when the scan loaded them, whatever the type of that line's key; so a second
   key comes from two scans that overlapped, never from a later scan. *)
NeverPinsOverKnown ==
    [][\A s \in Scans : scan[s].step = "pinning" /\ scan'[s].step = "done" =>
        \A l \in load_entries(system \o SubSeq(pins, 1, scan[s].known), name(s)).lines :
            l.marker = "revoked"]_vars
===============================================================================
