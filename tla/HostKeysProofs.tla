---------------------------- MODULE HostKeysProofs ----------------------------
(***************************************************************************)
(* Trust on first use, for any contents of the operator's known_hosts, any *)
(* keys and any number of connections that load, verify and append to the  *)
(* pin file at once.                                                       *)
(*                                                                         *)
(* TrustInv ties what a connection knows to the files as they were when it *)
(* loaded them: the first scan[s].known lines of the pin file, which later *)
(* appends, torn ones too, leave as they are.                              *)
(***************************************************************************)
EXTENDS HostKeys, NaturalsInduction, WellFoundedInduction, FiniteSetTheorems, TLAPS

(* What was in the files when connection s loaded them. *)
Loaded(s) == load_entries(system \o SubSeq(pins, 1, scan[s].known), name(s))
RevokedFor(s, l) == l \in ToSet(system) /\ l.marker = "revoked" /\ host_field_matches(l, name(s))

FilesInv ==
    /\ system \in SystemFiles
    /\ pins \in Seq(ToSet(pins))
    /\ \A l \in ToSet(pins) : l.key.type \notin Signatures

LoadedInv(s) ==
    /\ scan[s].known \in 0 .. Len(pins)
    /\ scan[s].entries = Loaded(s)
    /\ scan[s].offer = offer(scan[s].entries)
PinningInv(s) ==
    /\ scan[s].known \in 0 .. Len(pins)
    /\ scan[s].shown \in Keys
    /\ \A l \in Loaded(s).lines : l.marker = "revoked" /\ ~same_key(l.key, scan[s].shown)
TrustedInv(s) == \A l : RevokedFor(s, l) => ~same_key(l.key, scan[s].shown)

TrustInv ==
    /\ FilesInv
    /\ DOMAIN scan = Scans
    /\ \A s \in Scans :
        /\ scan[s].step = "loaded" => LoadedInv(s)
        /\ scan[s].step = "pinning" => PinningInv(s)
        /\ scan[s].step = "done" /\ scan[s].outcome = "trusted" => TrustedInv(s)

-------------------------------------------------------------------------------
(* An append adds one element. *)
LEMMA AppendSet ==
    ASSUME NEW s, s \in Seq(ToSet(s)), NEW x
    PROVE  Append(s, x) \in Seq(ToSet(Append(s, x))) /\ ToSet(Append(s, x)) = ToSet(s) \cup {x}
<1> DEFINE T == ToSet(s) \cup {x}
           q == Append(s, x)
<1>1. /\ s \in Seq(T) /\ q \in Seq(T) /\ Len(q) = Len(s) + 1 /\ Len(s) \in Nat
      /\ DOMAIN q = 1 .. Len(s) + 1 /\ DOMAIN s = 1 .. Len(s) /\ q[Len(s) + 1] = x
      /\ \A i \in 1 .. Len(s) : q[i] = s[i]
      /\ 1 .. Len(s) + 1 = (1 .. Len(s)) \cup {Len(s) + 1}
  OBVIOUS
<1> HIDE DEF q
<1>2. ToSet(q) = T
  BY <1>1 DEF ToSet
<1> QED BY <1>1, <1>2 DEF q

(* The elements of two sequences put together. *)
LEMMA ToSetOfConcat ==
    ASSUME NEW S, NEW T, NEW s \in Seq(S), NEW t \in Seq(T)
    PROVE  ToSet(s \o t) = ToSet(s) \cup ToSet(t)
<1>0. s \in Seq(S \cup T) /\ t \in Seq(S \cup T)
  OBVIOUS
<1>1. /\ Len(s \o t) = Len(s) + Len(t) /\ DOMAIN (s \o t) = 1 .. Len(s) + Len(t)
      /\ DOMAIN s = 1 .. Len(s) /\ DOMAIN t = 1 .. Len(t) /\ Len(s) \in Nat /\ Len(t) \in Nat
      /\ \A i \in 1 .. Len(s) + Len(t) : (s \o t)[i] = IF i <= Len(s) THEN s[i] ELSE t[i - Len(s)]
  BY <1>0
<1>2. \A x \in ToSet(s) : x \in ToSet(s \o t)
  BY <1>1 DEF ToSet
<1>3. ASSUME NEW x \in ToSet(t)
      PROVE  x \in ToSet(s \o t)
  <2>1. PICK i \in 1 .. Len(t) : x = t[i]
    BY <1>1, <1>3 DEF ToSet
  <2>2. Len(s) + i \in 1 .. Len(s) + Len(t) /\ ~(Len(s) + i <= Len(s)) /\ (Len(s) + i) - Len(s) = i
    BY <1>1
  <2>3. (s \o t)[Len(s) + i] = x
    BY <1>1, <2>1, <2>2
  <2> QED BY <1>1, <2>2, <2>3 DEF ToSet
<1>4. ASSUME NEW x \in ToSet(s \o t)
      PROVE  x \in ToSet(s) \cup ToSet(t)
  <2>1. PICK i \in 1 .. Len(s) + Len(t) : x = (s \o t)[i]
    BY <1>1, <1>4 DEF ToSet
  <2>2. CASE i <= Len(s)
    <3>1. i \in DOMAIN s /\ x = s[i]
      BY <1>1, <2>1, <2>2
    <3> QED BY <3>1 DEF ToSet
  <2>3. CASE ~(i <= Len(s))
    <3>1. i - Len(s) \in DOMAIN t /\ x = t[i - Len(s)]
      BY <1>1, <2>1, <2>3
    <3> QED BY <3>1 DEF ToSet
  <2> QED BY <2>2, <2>3
<1> QED BY <1>2, <1>3, <1>4

(* The operator's file, as FilesAssumption has it. *)
LEMMA SystemFacts ==
    ASSUME FilesInv
    PROVE  system \in Seq(ToSet(system)) /\ \A l \in ToSet(system) : l.key.type \notin Signatures
  BY FilesAssumption DEF FilesInv

(* An append leaves the lines before it. *)
LEMMA GluedFacts ==
    ASSUME FilesInv, NEW line, line.key.type \notin Signatures, pins' = Glued(line), system' = system
    PROVE  /\ FilesInv'
           /\ Len(pins) \in Nat /\ Len(pins') \in Nat /\ Len(pins) <= Len(pins')
           /\ \A k \in 0 .. Len(pins) : SubSeq(pins', 1, k) = SubSeq(pins, 1, k)
<1>0. pins \in Seq(ToSet(pins))
  BY DEF FilesInv
<1>1. CASE pins' = pins
  BY <1>0, <1>1 DEF FilesInv
<1>2. CASE pins' = Append(pins, line)
  <2> DEFINE T == ToSet(pins) \cup {line}
             p == Append(pins, line)
  <2>1. /\ pins \in Seq(T) /\ p \in Seq(T) /\ Len(p) = Len(pins) + 1 /\ Len(pins) \in Nat
        /\ DOMAIN p = 1 .. Len(pins) + 1 /\ DOMAIN pins = 1 .. Len(pins) /\ p[Len(pins) + 1] = line
        /\ \A i \in 1 .. Len(pins) : p[i] = pins[i]
    BY <1>0
  <2>2. ToSet(p) = T
    BY <1>0, AppendSet
  <2>3. FilesInv'
    BY <1>2, <2>1, <2>2 DEF FilesInv
  <2>4. \A k \in 0 .. Len(pins) : SubSeq(p, 1, k) = SubSeq(pins, 1, k)
    BY <2>1
  <2> QED BY <1>2, <2>1, <2>3, <2>4
<1> QED BY <1>1, <1>2 DEF Glued

(* The lines that a connection keeps. *)
LEMMA LoadFacts ==
    ASSUME NEW files, NEW n
    PROVE  LET e == load_entries(files, n) IN
           /\ \A l \in e.lines : l \in ToSet(files) /\ host_field_matches(l, n)
                                 /\ l.marker \in {"none", "revoked"}
           /\ \A l \in ToSet(files) : l.marker \in {"none", "revoked"} /\ host_field_matches(l, n)
                                      => l \in e.lines
  BY DEF load_entries

(* What verify has looked at. *)
LEMMA VerifyFacts ==
    ASSUME NEW e, NEW k
    PROVE  /\ verify(e, k) = "trusted" =>
                 /\ \A l \in e.lines : l.marker = "revoked" => ~same_key(l.key, k)
                 /\ \E l \in e.lines : l.marker # "revoked" /\ same_key(l.key, k)
           /\ verify(e, k) = "first_use" =>
                 \A l \in e.lines : l.marker = "revoked" /\ ~same_key(l.key, k)
<1> DEFINE revoked == {l \in e.lines : l.marker = "revoked"}
           usable == e.lines \ revoked
<1>1. verify(e, k) = IF \E l \in revoked : same_key(l.key, k) THEN "HostKeyRevoked"
                     ELSE IF \E l \in usable : same_key(l.key, k) THEN "trusted"
                     ELSE IF usable # {} THEN "HostKeyChanged"
                     ELSE IF e.unsupported THEN "HostKeyUnsupportedTrust"
                     ELSE "first_use"
  BY DEF verify
<1> HIDE DEF usable
<1>2. verify(e, k) = "trusted" => /\ ~\E l \in revoked : same_key(l.key, k)
                                  /\ \E l \in usable : same_key(l.key, k)
  BY <1>1
<1>3. verify(e, k) = "first_use" => ~(\E l \in revoked : same_key(l.key, k)) /\ usable = {}
  BY <1>1
<1> QED BY <1>2, <1>3 DEF usable

(* The lines of the system file are among those that were loaded. *)
LEMMA RevokedIsLoaded ==
    ASSUME FilesInv, NEW s, scan[s].known \in 0 .. Len(pins), NEW l, RevokedFor(s, l)
    PROVE  l \in Loaded(s).lines
<1> DEFINE p == SubSeq(pins, 1, scan[s].known)
<1>1. p \in Seq(ToSet(pins))
  BY DEF FilesInv
<1>2. system \in Seq(ToSet(system))
  BY SystemFacts
<1> HIDE DEF p
<1>3. ToSet(system \o p) = ToSet(system) \cup ToSet(p)
  BY <1>1, <1>2, ToSetOfConcat
<1>4. l \in ToSet(system \o p)
  BY <1>3 DEF RevokedFor
<1> QED BY <1>4, LoadFacts DEF Loaded, RevokedFor, p

-------------------------------------------------------------------------------
(* A step of one connection leaves what the others rely on. *)
LEMMA OthersKeep ==
    ASSUME TrustInv, NEW s \in Scans, scan' = [scan EXCEPT ![s] = scan'[s]], system' = system, FilesInv',
           Len(pins) \in Nat, Len(pins') \in Nat, Len(pins) <= Len(pins'),
           \A k \in 0 .. Len(pins) : SubSeq(pins', 1, k) = SubSeq(pins, 1, k),
           /\ scan'[s].step = "loaded" => LoadedInv(s)'
           /\ scan'[s].step = "pinning" => PinningInv(s)'
           /\ scan'[s].step = "done" /\ scan'[s].outcome = "trusted" => TrustedInv(s)'
    PROVE  TrustInv'
<1>1. DOMAIN scan' = Scans /\ \A t \in Scans \ {s} : scan'[t] = scan[t]
  BY DEF TrustInv
<1>2. ASSUME NEW t \in Scans \ {s}
      PROVE  /\ scan'[t].step = "loaded" => LoadedInv(t)'
             /\ scan'[t].step = "pinning" => PinningInv(t)'
             /\ scan'[t].step = "done" /\ scan'[t].outcome = "trusted" => TrustedInv(t)'
  <2>1. scan'[t] = scan[t] /\ name(t)' = name(t)
    BY <1>1 DEF name
  <2>2. scan[t].known \in 0 .. Len(pins) => /\ scan[t].known \in 0 .. Len(pins')
                                            /\ Loaded(t)' = Loaded(t)
    <3> SUFFICES ASSUME scan[t].known \in 0 .. Len(pins)
                 PROVE  scan[t].known \in 0 .. Len(pins') /\ Loaded(t)' = Loaded(t)
      OBVIOUS
    <3>1. scan[t].known \in 0 .. Len(pins')
      OBVIOUS
    <3>2. SubSeq(pins', 1, scan'[t].known) = SubSeq(pins, 1, scan[t].known)
      BY <2>1
    <3>3. Loaded(t)' = Loaded(t)
      BY <2>1, <3>2 DEF Loaded
    <3> QED BY <3>1, <3>3
  <2>3. scan'[t].step = "loaded" => LoadedInv(t)'
    BY <2>1, <2>2 DEF TrustInv, LoadedInv
  <2>4. scan'[t].step = "pinning" => PinningInv(t)'
    BY <2>1, <2>2 DEF TrustInv, PinningInv
  <2>5. scan'[t].step = "done" /\ scan'[t].outcome = "trusted" => TrustedInv(t)'
    BY <2>1 DEF TrustInv, TrustedInv, RevokedFor
  <2> QED BY <2>3, <2>4, <2>5
<1> QED BY <1>1, <1>2 DEF TrustInv

(* TrustInv holds before anything is read. *)
LEMMA TrustInit ==
    ASSUME Init
    PROVE  TrustInv
<1>1. system \in SystemFiles /\ pins = <<>> /\ scan = [s \in Scans |-> Idle]
  BY DEF Init
<1>2. pins \in Seq(ToSet(pins)) /\ ToSet(pins) = {}
  BY <1>1 DEF ToSet
<1>3. \A s \in Scans : scan[s].step = "idle"
  BY <1>1 DEF Idle
<1> QED BY <1>1, <1>2, <1>3 DEF TrustInv, FilesInv

(* Every step keeps TrustInv. *)
LEMMA TrustStep ==
    ASSUME TrustInv, [Next]_vars
    PROVE  TrustInv'
<1>0. FilesInv /\ DOMAIN scan = Scans /\ pins \in Seq(ToSet(pins)) /\ Len(pins) \in Nat
  BY DEF TrustInv, FilesInv
<1>1. ASSUME UNCHANGED keyVars
      PROVE  TrustInv'
  BY <1>1 DEF keyVars, TrustInv, FilesInv, LoadedInv, PinningInv, TrustedInv, RevokedFor, Loaded, name
<1>2. ASSUME NEW s \in Scans, NEW r, scan' = [scan EXCEPT ![s] = r], UNCHANGED <<system, pins>>,
             /\ r.step = "loaded" => LoadedInv(s)'
             /\ r.step = "pinning" => PinningInv(s)'
             /\ r.step = "done" /\ r.outcome = "trusted" => TrustedInv(s)'
      PROVE  TrustInv'
  <2>1. scan'[s] = r /\ scan' = [scan EXCEPT ![s] = scan'[s]]
    BY <1>0, <1>2
  <2>2. FilesInv' /\ Len(pins') \in Nat /\ Len(pins) <= Len(pins')
        /\ \A k \in 0 .. Len(pins) : SubSeq(pins', 1, k) = SubSeq(pins, 1, k)
    BY <1>0, <1>2 DEF FilesInv
  <2> QED BY <1>0, <1>2, <2>1, <2>2, OthersKeep
<1>3. ASSUME NEW s \in Scans, NEW h, New(s, h)
      PROVE  TrustInv'
  <2> DEFINE e == load_entries(system \o pins, host_candidates(h, Port))
             r == [step |-> "loaded", host |-> h, entries |-> e, offer |-> offer(e), known |-> Len(pins)]
  <2>1. scan' = [scan EXCEPT ![s] = r] /\ UNCHANGED <<system, pins>>
    BY <1>3 DEF New
  <2>2. scan'[s] = r
    BY <1>0, <2>1
  <2>3. SubSeq(pins, 1, Len(pins)) = pins
    BY <1>0
  <2>4. /\ r.step = "loaded" /\ r.host = h /\ r.entries = e /\ r.offer = offer(e)
        /\ r.known = Len(pins)
    OBVIOUS
  <2> HIDE DEF r
  <2>5. Loaded(s)' = e
    BY <2>1, <2>2, <2>3, <2>4 DEF Loaded, name
  <2> HIDE DEF e
  <2>6. LoadedInv(s)'
    BY <1>0, <2>1, <2>2, <2>4, <2>5 DEF LoadedInv
  <2> QED BY <1>2, <2>1, <2>4, <2>6
<1>4. ASSUME NEW s \in Scans, NEW h, NewFails(s, h)
      PROVE  TrustInv'
  <2> DEFINE r == [step |-> "done", host |-> h, outcome |-> "HostKeyCheck", shown |-> NoKey,
                   note |-> FALSE]
  <2>1. scan' = [scan EXCEPT ![s] = r] /\ UNCHANGED <<system, pins>>
    BY <1>4 DEF NewFails
  <2>2. r.step = "done" /\ r.outcome = "HostKeyCheck"
    OBVIOUS
  <2> HIDE DEF r
  <2> QED BY <1>2, <2>1, <2>2
<1>5. ASSUME NEW s \in Scans, NEW key \in Keys, CheckServerKey(s, key)
      PROVE  TrustInv'
  <2> DEFINE v == verify(scan[s].entries, key)
             p == [step |-> "pinning", host |-> scan[s].host, shown |-> key, known |-> scan[s].known]
             d == [step |-> "done", host |-> scan[s].host, outcome |-> v, shown |-> key, note |-> FALSE]
  <2>1. /\ scan' = [scan EXCEPT ![s] = IF v = "first_use" THEN p ELSE d]
        /\ UNCHANGED <<system, pins>> /\ scan[s].step = "loaded"
    BY <1>5 DEF CheckServerKey
  <2>2. LoadedInv(s)
    BY <2>1 DEF TrustInv
  <2>3. /\ p.step = "pinning" /\ p.host = scan[s].host /\ p.shown = key /\ p.known = scan[s].known
        /\ d.step = "done" /\ d.host = scan[s].host /\ d.shown = key /\ d.outcome = v
    OBVIOUS
  <2> HIDE DEF p, d
  <2>4. CASE v = "first_use"
    <3>1. scan' = [scan EXCEPT ![s] = p] /\ scan'[s] = p
      BY <1>0, <2>1, <2>4
    <3>2. Loaded(s)' = Loaded(s)
      BY <2>1, <2>3, <3>1 DEF Loaded, name
    <3>3. PinningInv(s)'
      BY <2>1, <2>2, <2>3, <2>4, <3>1, <3>2, VerifyFacts DEF PinningInv, LoadedInv
    <3> QED BY <1>2, <2>1, <2>3, <3>1, <3>3
  <2>5. CASE v # "first_use"
    <3>1. scan' = [scan EXCEPT ![s] = d] /\ scan'[s] = d
      BY <1>0, <2>1, <2>5
    <3>2. ASSUME v = "trusted"
          PROVE  TrustedInv(s)'
      <4>1. ASSUME NEW l, RevokedFor(s, l)
            PROVE  ~same_key(l.key, key)
        <5>1. l \in scan[s].entries.lines
          BY <1>0, <2>2, <4>1, RevokedIsLoaded DEF LoadedInv
        <5> QED BY <3>2, <4>1, <5>1, VerifyFacts DEF RevokedFor
      <4>2. \A l : RevokedFor(s, l)' <=> RevokedFor(s, l)
        BY <2>1, <2>3, <3>1 DEF RevokedFor, name
      <4> QED BY <2>3, <3>1, <4>1, <4>2 DEF TrustedInv
    <3> QED BY <1>2, <2>1, <2>3, <3>1, <3>2
  <2> QED BY <2>4, <2>5
<1>6. ASSUME NEW s \in Scans, NEW noted, scan[s].step = "pinning", Trusts(s, noted), system' = system
      PROVE  /\ scan' = [scan EXCEPT ![s] = scan'[s]]
             /\ scan'[s].step = "done" /\ TrustedInv(s)'
  <2> DEFINE r == [step |-> "done", host |-> scan[s].host, outcome |-> "trusted",
                   shown |-> scan[s].shown, note |-> noted]
  <2>1. scan' = [scan EXCEPT ![s] = r]
    BY <1>6 DEF Trusts
  <2>2. scan'[s] = r /\ r.step = "done" /\ r.host = scan[s].host /\ r.shown = scan[s].shown
    BY <1>0, <2>1
  <2> HIDE DEF r
  <2>3. PinningInv(s)
    BY <1>6 DEF TrustInv
  <2>4. ASSUME NEW l, RevokedFor(s, l)
        PROVE  ~same_key(l.key, scan[s].shown)
    BY <1>0, <2>3, <2>4, RevokedIsLoaded DEF PinningInv
  <2>5. \A l : RevokedFor(s, l)' <=> RevokedFor(s, l)
    BY <1>6, <2>2 DEF RevokedFor, name
  <2>6. TrustedInv(s)'
    BY <2>2, <2>4, <2>5 DEF TrustedInv
  <2> QED BY <2>1, <2>2, <2>6
<1>7. ASSUME NEW s \in Scans, NEW line, line.key.type \notin Signatures, NEW noted,
             scan[s].step = "pinning", Trusts(s, noted), system' = system, pins' = Glued(line)
      PROVE  TrustInv'
  BY <1>0, <1>6, <1>7, GluedFacts, OthersKeep
<1>8. ASSUME NEW s \in Scans, Pin(s)
      PROVE  TrustInv'
  <2> DEFINE k == [scan[s].shown EXCEPT !.type = canonical_key_type(@)]
  <2>1. /\ scan[s].step = "pinning" /\ pins' = Glued(PinLine(name(s), k)) /\ Trusts(s, FALSE)
        /\ system' = system
    BY <1>8 DEF Pin
  <2>2. scan[s].shown \in [type : STRING, data : STRING]
    BY <2>1, KeysAssumption DEF TrustInv, PinningInv
  <2>3. k.type = canonical_key_type(scan[s].shown.type)
    BY <2>2
  <2>4. k.type \notin Signatures
    BY <2>3 DEF canonical_key_type, Signatures
  <2> HIDE DEF k
  <2>5. PinLine(name(s), k).key = k
    BY DEF PinLine, Line
  <2> QED BY <1>7, <2>1, <2>4, <2>5
<1>9. ASSUME NEW s \in Scans, PinFails(s)
      PROVE  TrustInv'
  <2>1. scan[s].step = "pinning" /\ Trusts(s, TRUE) /\ UNCHANGED <<system, pins>>
    BY <1>9 DEF PinFails
  <2>2. /\ scan' = [scan EXCEPT ![s] = scan'[s]] /\ scan'[s].step = "done" /\ TrustedInv(s)'
    BY <1>6, <2>1
  <2> QED BY <1>2, <2>1, <2>2
<1>10. ASSUME NEW s \in Scans, NEW whose, PinTorn(s, whose)
       PROVE  TrustInv'
  <2>1. /\ scan[s].step = "pinning" /\ pins' = Glued(PinLine(whose, Garbage)) /\ Trusts(s, TRUE)
        /\ system' = system
    BY <1>10 DEF PinTorn
  <2>2. PinLine(whose, Garbage).key.type \notin Signatures
    BY DEF PinLine, Line, Garbage, Signatures
  <2> QED BY <1>7, <2>1, <2>2
<1>11. ASSUME NEW s \in Scans, Again(s)
       PROVE  TrustInv'
  <2>1. scan' = [scan EXCEPT ![s] = Idle] /\ UNCHANGED <<system, pins>>
    BY <1>11 DEF Again
  <2>2. Idle.step = "idle"
    BY DEF Idle
  <2> QED BY <1>2, <2>1, <2>2
<1>12. ReadConfig => UNCHANGED keyVars
  BY DEF ReadConfig
<1>13. UNCHANGED vars => UNCHANGED keyVars
  BY DEF vars, keyVars
<1> QED BY <1>1, <1>3, <1>4, <1>5, <1>8, <1>9, <1>10, <1>11, <1>12, <1>13 DEF Next, Connection

(* What each connection knows of the two files is what they were when KnownHostsChecker::new
   loaded them, whatever the others append. *)
THEOREM TrustInvariance == Spec => []TrustInv
  BY TrustInit, TrustStep, PTL DEF Spec

-------------------------------------------------------------------------------
(* A key whose line is in the files is among the algorithms that the offer allows. *)
LEMMA OfferFacts ==
    ASSUME NEW e, NEW k, k.type \in DefaultOffer,
           \A l \in e.lines : l.marker \in {"none", "revoked"} /\ l.key.type \notin Signatures,
           verify(e, k) \in {"trusted", "first_use"}
    PROVE  k.type \in offer(e)
<1>1. CASE verify(e, k) = "trusted"
  <2>1. PICK l \in e.lines : l.marker = "none" /\ same_key(l.key, k)
    BY <1>1, VerifyFacts
  <2>2. canonical_key_type(l.key.type) = l.key.type
    BY DEF canonical_key_type
  <2>3. l.key.type = canonical_key_type(k.type)
    BY <2>1, <2>2 DEF same_key
  <2>4. k.type \in algorithms_from_openssh_name(l.key.type)
    BY <2>3 DEF canonical_key_type, algorithms_from_openssh_name, DefaultOffer, Signatures
  <2>5. k.type \in pinned_algorithms(e)
    BY <2>1, <2>4 DEF pinned_algorithms
  <2> QED BY <2>5 DEF offer
<1>2. CASE verify(e, k) = "first_use"
  <2>1. \A l \in e.lines : l.marker # "none"
    BY <1>2, VerifyFacts
  <2>2. pinned_algorithms(e) = {}
    BY <2>1 DEF pinned_algorithms
  <2> QED BY <2>2 DEF offer
<1> QED BY <1>1, <1>2

(* TrustIsSound: for any known_hosts that names key types, any keys and any number of connections
   that load, verify and append at once, verify never trusts a key that the operator revoked for
   the host, and the offer never excludes a key that verify would accept. *)
THEOREM TrustSound == Spec => []TrustIsSound
<1>1. TrustInv => AcceptableIsOffered
  <2> SUFFICES ASSUME TrustInv, NEW s \in Scans, scan[s].step = "loaded", NEW k \in Keys,
                      verify(scan[s].entries, k) \in {"trusted", "first_use"}, k.type \in DefaultOffer
               PROVE  k.type \in scan[s].offer
    BY DEF AcceptableIsOffered
  <2>1. LoadedInv(s) /\ FilesInv
    BY DEF TrustInv
  <2> DEFINE p == SubSeq(pins, 1, scan[s].known)
  <2>2. p \in Seq(ToSet(pins)) /\ ToSet(p) \subseteq ToSet(pins)
    <3>1. pins \in Seq(ToSet(pins)) /\ scan[s].known \in 0 .. Len(pins) /\ Len(pins) \in Nat
      BY <2>1 DEF LoadedInv, FilesInv
    <3>2. p \in Seq(ToSet(pins))
      BY <3>1
    <3>3. \A i \in DOMAIN p : p[i] \in ToSet(pins)
      BY <3>2
    <3> QED BY <3>2, <3>3 DEF ToSet
  <2>3. system \in Seq(ToSet(system)) /\ \A l \in ToSet(system) : l.key.type \notin Signatures
    BY <2>1, SystemFacts
  <2> HIDE DEF p
  <2>4. ToSet(system \o p) = ToSet(system) \cup ToSet(p)
    BY <2>2, <2>3, ToSetOfConcat
  <2>5. \A l \in ToSet(system \o p) : l.key.type \notin Signatures
    BY <2>1, <2>2, <2>3, <2>4 DEF FilesInv
  <2>6. scan[s].entries = load_entries(system \o p, name(s))
    BY <2>1 DEF LoadedInv, Loaded, p
  <2>7. \A l \in scan[s].entries.lines : l.marker \in {"none", "revoked"} /\ l.key.type \notin Signatures
    BY <2>5, <2>6, LoadFacts
  <2> QED BY <2>1, <2>7, OfferFacts DEF LoadedInv
<1>2. TrustInv => RevokedNeverTrusted
  BY DEF TrustInv, TrustedInv, RevokedFor, RevokedNeverTrusted
<1> QED BY <1>1, <1>2, TrustInvariance, PTL DEF TrustIsSound

(* NeverPinsOverKnown: a key is pinned only by a connection whose look at the two files found no
   usable line for the host, however many other connections append meanwhile. *)
THEOREM PinsOnlyUnknown == Spec => NeverPinsOverKnown
<1>1. ASSUME TrustInv, [Next]_vars
      PROVE  \A s \in Scans : scan[s].step = "pinning" /\ scan'[s].step = "done" =>
                \A l \in load_entries(system \o SubSeq(pins, 1, scan[s].known), name(s)).lines :
                    l.marker = "revoked"
  BY <1>1 DEF TrustInv, PinningInv, Loaded
<1> QED BY <1>1, TrustInvariance, PTL DEF Spec, NeverPinsOverKnown
-------------------------------------------------------------------------------
(* A set of numbers has a least one: what recursions and Min rest on here. *)
LEMMA LeastNumber ==
    ASSUME NEW T \in SUBSET Nat, T # {}
    PROVE  \E n \in T : \A m \in T : n <= m
<1>1. \E n \in T : \A m \in T : ~(<<m, n>> \in OpToRel(<, Nat))
  BY NatLessThanWellFounded, WFMin
<1>2. PICK n \in T : \A m \in T : ~(<<m, n>> \in OpToRel(<, Nat))
  BY <1>1
<1>3. \A m \in T : ~(m < n)
  BY <1>2 DEF OpToRel
<1> QED BY <1>3

Places(p, s) == (1 .. Len(p) + 1) \X (1 .. Len(s) + 1)
Rest(p, s, f, at) ==
    IF at[1] > Len(p) THEN at[2] > Len(s)
    ELSE IF p[at[1]] = "*" THEN f[<<at[1] + 1, at[2]>>] \/ (at[2] <= Len(s) /\ f[<<at[1], at[2] + 1>>])
    ELSE at[2] <= Len(s) /\ p[at[1]] \in {"?", s[at[2]]} /\ f[<<at[1] + 1, at[2] + 1>>]

(* The recursion of glob_match is well-founded: there is such a function. *)
LEMMA MatchDef ==
    ASSUME NEW p, NEW s, Len(p) \in Nat, Len(s) \in Nat
    PROVE  \E go : /\ go = [at \in Places(p, s) |-> Rest(p, s, go, at)]
                   /\ glob_match(p, s) = go[<<1, 1>>]
<1> DEFINE A == Len(p)
           B == Len(s)
           D == Places(p, s)
           left(at) == (A + 1 - at[1]) + (B + 1 - at[2])
           Near(n) == {at \in D : left(at) < n}
           P(f, n) == f = [at \in Near(n) |-> Rest(p, s, f, at)]
<1>0. \A at \in D : at[1] \in 1 .. A + 1 /\ at[2] \in 1 .. B + 1 /\ left(at) \in Nat /\ left(at) <= A + B
  BY DEF Places
<1>1. \A n \in Nat : \E f : P(f, n)
  <2> DEFINE T == {n \in Nat : ~ \E f : P(f, n)}
  <2> SUFFICES ASSUME T # {} PROVE FALSE
    OBVIOUS
  <2>1. PICK n \in T : \A m \in T : n <= m
    BY LeastNumber
  <2>2. n \in Nat
    OBVIOUS
  <2>3. CASE n = 0
    <3>1. Near(0) = {}
      BY <1>0
    <3> DEFINE z == [at \in {} |-> TRUE]
    <3>2. z = [at \in Near(0) |-> Rest(p, s, z, at)]
      BY <3>1
    <3> QED BY <2>3, <3>2
  <2>4. CASE n # 0
    <3>1. n - 1 \in Nat /\ n - 1 \notin T
      <4>1. n \in Nat
        OBVIOUS
      <4>2. n - 1 \in Nat /\ ~(n <= n - 1)
        BY <2>4, <4>1
      <4> HIDE DEF T
      <4> QED BY <2>1, <4>1, <4>2
    <3>2. PICK f : P(f, n - 1)
      BY <3>1
    <3> DEFINE g == [at \in Near(n) |-> Rest(p, s, f, at)]
    <3>3. ASSUME NEW at \in Near(n - 1) PROVE g[at] = f[at]
      <4>1. at \in Near(n)
        BY <1>0, <2>2, <3>1
      <4>2. g[at] = Rest(p, s, f, at)
        BY <4>1
      <4>3. f[at] = Rest(p, s, f, at)
        <5> HIDE DEF Near
        <5> QED BY <3>2
      <4> QED BY <4>2, <4>3
    <3>4. ASSUME NEW at \in Near(n) PROVE Rest(p, s, f, at) = Rest(p, s, g, at)
      <4> DEFINE i == at[1]
                 j == at[2]
      <4>1. i \in 1 .. A + 1 /\ j \in 1 .. B + 1 /\ (A + 1 - i) + (B + 1 - j) < n
        BY <1>0
      <4>n. ASSUME NEW k \in 1 .. A + 1, NEW l \in 1 .. B + 1, (A + 1 - k) + (B + 1 - l) < n - 1
            PROVE  <<k, l>> \in Near(n - 1)
        BY <4>n DEF Places
      <4> HIDE DEF Near, i, j, A, B
      <4>a. A \in Nat /\ B \in Nat
        BY DEF A, B
      <4>2. i <= A => <<i + 1, j>> \in Near(n - 1)
        <5> SUFFICES ASSUME i <= A PROVE <<i + 1, j>> \in Near(n - 1)
          OBVIOUS
        <5>1. i + 1 \in 1 .. A + 1 /\ (A + 1 - (i + 1)) + (B + 1 - j) < n - 1
          BY <2>2, <4>1, <4>a
        <5> QED BY <4>1, <4>n, <5>1
      <4>3. j <= B => <<i, j + 1>> \in Near(n - 1)
        <5> SUFFICES ASSUME j <= B PROVE <<i, j + 1>> \in Near(n - 1)
          OBVIOUS
        <5>1. j + 1 \in 1 .. B + 1 /\ (A + 1 - i) + (B + 1 - (j + 1)) < n - 1
          BY <2>2, <4>1, <4>a
        <5> QED BY <4>1, <4>n, <5>1
      <4>4. i <= A /\ j <= B => <<i + 1, j + 1>> \in Near(n - 1)
        <5> SUFFICES ASSUME i <= A, j <= B PROVE <<i + 1, j + 1>> \in Near(n - 1)
          OBVIOUS
        <5>1. /\ i + 1 \in 1 .. A + 1 /\ j + 1 \in 1 .. B + 1
              /\ (A + 1 - (i + 1)) + (B + 1 - (j + 1)) < n - 1
          BY <2>2, <4>1, <4>a
        <5> QED BY <4>n, <5>1
      <4>5. /\ i <= A => f[<<i + 1, j>>] = g[<<i + 1, j>>]
            /\ j <= B => f[<<i, j + 1>>] = g[<<i, j + 1>>]
            /\ i <= A /\ j <= B => f[<<i + 1, j + 1>>] = g[<<i + 1, j + 1>>]
        <5> HIDE DEF g
        <5> QED BY <3>3, <4>2, <4>3, <4>4
      <4>6. ~(i > A) <=> i <= A
        BY <4>1, <4>a
      <4> HIDE DEF g
      <4> QED BY <4>5, <4>6 DEF Rest, A, B, i, j
    <3>5. P(g, n)
      <4> HIDE DEF Near
      <4>1. [at \in Near(n) |-> Rest(p, s, f, at)] = [at \in Near(n) |-> Rest(p, s, g, at)]
        <5> HIDE DEF g
        <5> QED BY <3>4
      <4> QED BY <4>1
    <3> HIDE DEF g, P
    <3> QED BY <2>1, <3>5
  <2> QED BY <2>3, <2>4
<1>2. Near(A + B + 1) = D
  BY <1>0
<1>3. \E f : f = [at \in D |-> Rest(p, s, f, at)]
  <2>1. A + B + 1 \in Nat
    OBVIOUS
  <2> HIDE DEF Near, D
  <2> QED BY <1>1, <1>2, <2>1
<1> DEFINE go == CHOOSE f : f = [at \in D |-> Rest(p, s, f, at)]
<1>4. go = [at \in D |-> Rest(p, s, go, at)]
  BY <1>3
<1>5. glob_match(p, s) = go[<<1, 1>>]
  BY Zenon DEF glob_match, Rest, Places
<1> HIDE DEF go
<1> QED BY <1>4, <1>5

(* What a function that satisfies the recursion of glob_match makes of stars and of the rest. *)
LEMMA MatchFacts ==
    ASSUME NEW p, NEW t, Len(p) \in Nat, Len(t) \in Nat,
           NEW go, go = [at \in Places(p, t) |-> Rest(p, t, go, at)]
    PROVE  LET A == Len(p)
               B == Len(t)
           IN  /\ \A i \in 1 .. A : \A j \in 1 .. B + 1 :
                     p[i] = "*" => (go[<<i, j>>] <=> \E k \in j .. B + 1 : go[<<i + 1, k>>])
               /\ \A i \in 1 .. A : \A j \in 1 .. B : p[i] # "*" =>
                     (go[<<i, j>>] <=> p[i] \in {"?", t[j]} /\ go[<<i + 1, j + 1>>])
               /\ \A j \in 1 .. B : ~go[<<A + 1, j>>]
               /\ \A i \in 1 .. A + 1 : go[<<i, B + 1>>] <=> \A l \in i .. A : p[l] = "*"
               /\ \A i \in 1 .. A + 1 : \A n \in Nat : \A k \in 1 .. B + 1 :
                     i + n <= A + 1 /\ (\A l \in i .. i + n - 1 : p[l] # "*") /\ go[<<i, k>>]
                        => k + n <= B + 1 /\ go[<<i + n, k + n>>]
<1> DEFINE A == Len(p)
           B == Len(t)
           G(i, j) == go[<<i, j>>]
<1>0. A \in Nat /\ B \in Nat
  OBVIOUS
<1>1. ASSUME NEW i \in 1 .. A + 1, NEW j \in 1 .. B + 1
      PROVE  G(i, j) = IF i > A THEN j > B
                       ELSE IF p[i] = "*" THEN G(i + 1, j) \/ (j <= B /\ G(i, j + 1))
                       ELSE j <= B /\ p[i] \in {"?", t[j]} /\ G(i + 1, j + 1)
  <2>1. <<i, j>> \in Places(p, t)
    BY DEF Places
  <2>2. go[<<i, j>>] = Rest(p, t, go, <<i, j>>)
    BY <2>1
  <2> QED BY <2>2 DEF Rest
<1> HIDE DEF A, B, G
<1>2. ASSUME NEW i \in 1 .. A, NEW j \in 1 .. B + 1, p[i] = "*"
      PROVE  G(i, j) <=> \E k \in j .. B + 1 : G(i + 1, k)
  <2> DEFINE S(m) == G(i, m) <=> \E k \in m .. B + 1 : G(i + 1, k)
             T == {n \in 0 .. B : ~S(B + 1 - n)}
  <2>1. T = {}
    <3> SUFFICES ASSUME T # {} PROVE FALSE
      OBVIOUS
    <3>1. T \in SUBSET Nat
      BY <1>0
    <3>2. PICK n \in T : \A m \in T : n <= m
      <4> HIDE DEF T
      <4> QED BY <3>1, LeastNumber
    <3> DEFINE m == B + 1 - n
    <3>3. n \in 0 .. B /\ m \in 1 .. B + 1 /\ ~S(m)
      BY <1>0, <3>2
    <3>4. G(i, m) <=> G(i + 1, m) \/ (m <= B /\ G(i, m + 1))
      <4>1. i \in 1 .. A + 1 /\ m \in 1 .. B + 1 /\ ~(i > A)
        BY <1>0, <3>3
      <4> HIDE DEF m
      <4> QED BY <1>1, <1>2, <4>1
    <3>5. m <= B => S(m + 1)
      <4> SUFFICES ASSUME m <= B PROVE S(m + 1)
        OBVIOUS
      <4>1. n - 1 \in 0 .. B /\ B + 1 - (n - 1) = m + 1 /\ ~(n <= n - 1)
        BY <1>0, <3>3
      <4>2. n - 1 \notin T
        BY <3>2, <4>1
      <4>3. S(B + 1 - (n - 1))
        BY <4>1, <4>2
      <4> HIDE DEF S, m
      <4> QED BY <4>1, <4>3
    <3>6. \A k \in m .. B + 1 : k = m \/ (m <= B /\ k \in m + 1 .. B + 1)
      BY <1>0, <3>3
    <3>7. m \in m .. B + 1 /\ (m <= B => m + 1 .. B + 1 \subseteq m .. B + 1)
      BY <1>0, <3>3
    <3> HIDE DEF m, T
    <3> QED BY <3>3, <3>4, <3>5, <3>6, <3>7
  <2>2. B + 1 - j \in 0 .. B /\ B + 1 - (B + 1 - j) = j
    BY <1>0
  <2>3. S(B + 1 - (B + 1 - j))
    BY <2>1, <2>2
  <2> HIDE DEF S
  <2>4. S(j)
    BY <2>2, <2>3
  <2> QED BY <2>4 DEF S
<1>3. ASSUME NEW i \in 1 .. A, NEW j \in 1 .. B, p[i] # "*"
      PROVE  G(i, j) <=> p[i] \in {"?", t[j]} /\ G(i + 1, j + 1)
  <2>1. i \in 1 .. A + 1 /\ j \in 1 .. B + 1 /\ ~(i > A) /\ j <= B
    BY <1>0
  <2> QED BY <1>1, <1>3, <2>1
<1>4. ASSUME NEW j \in 1 .. B PROVE ~G(A + 1, j)
  <2>1. A + 1 \in 1 .. A + 1 /\ j \in 1 .. B + 1 /\ A + 1 > A /\ ~(j > B)
    BY <1>0
  <2> QED BY <1>1, <2>1
<1>5. ASSUME NEW i \in 1 .. A + 1 PROVE G(i, B + 1) <=> \A l \in i .. A : p[l] = "*"
  <2> DEFINE S(m) == G(m, B + 1) <=> \A l \in m .. A : p[l] = "*"
             T == {n \in 0 .. A : ~S(A + 1 - n)}
  <2>1. T = {}
    <3> SUFFICES ASSUME T # {} PROVE FALSE
      OBVIOUS
    <3>1. T \in SUBSET Nat
      BY <1>0
    <3>2. PICK n \in T : \A m \in T : n <= m
      <4> HIDE DEF T
      <4> QED BY <3>1, LeastNumber
    <3> DEFINE m == A + 1 - n
    <3>3. n \in 0 .. A /\ m \in 1 .. A + 1 /\ ~S(m) /\ B + 1 \in 1 .. B + 1 /\ B + 1 > B /\ ~(B + 1 <= B)
      BY <1>0, <3>2
    <3>4. CASE m > A
      <4>1. m .. A = {}
        BY <1>0, <3>3, <3>4
      <4> HIDE DEF m, T
      <4>2. G(m, B + 1)
        BY <1>1, <3>3, <3>4
      <4> QED BY <3>3, <4>1, <4>2
    <3>5. CASE ~(m > A)
      <4>1. G(m, B + 1) <=> p[m] = "*" /\ G(m + 1, B + 1)
        BY <1>1, <3>3, <3>5
      <4>2. S(m + 1)
        <5>1. n - 1 \in 0 .. A /\ A + 1 - (n - 1) = m + 1 /\ ~(n <= n - 1)
          BY <1>0, <3>3, <3>5
        <5>2. n - 1 \notin T
          BY <3>2, <5>1
        <5>3. S(A + 1 - (n - 1))
          BY <5>1, <5>2
        <5> HIDE DEF S, m
        <5> QED BY <5>1, <5>3
      <4>3. m .. A = {m} \cup (m + 1 .. A)
        BY <1>0, <3>3, <3>5
      <4> HIDE DEF m, T
      <4> QED BY <3>3, <4>1, <4>2, <4>3
    <3> QED BY <3>4, <3>5
  <2>2. A + 1 - i \in 0 .. A /\ A + 1 - (A + 1 - i) = i
    BY <1>0
  <2>3. S(A + 1 - (A + 1 - i))
    BY <2>1, <2>2
  <2> HIDE DEF S
  <2>4. S(i)
    BY <2>2, <2>3
  <2> QED BY <2>4 DEF S
<1>6. ASSUME NEW i \in 1 .. A + 1, NEW n \in Nat, NEW k \in 1 .. B + 1,
             i + n <= A + 1, \A l \in i .. i + n - 1 : p[l] # "*", G(i, k)
      PROVE  k + n <= B + 1 /\ G(i + n, k + n)
  <2> DEFINE S(m) == m <= n => k + m <= B + 1 /\ G(i + m, k + m)
             T == {m \in Nat : ~S(m)}
  <2>1. T = {}
    <3> SUFFICES ASSUME T # {} PROVE FALSE
      OBVIOUS
    <3>1. PICK m \in T : \A x \in T : m <= x
      BY LeastNumber
    <3>2. m \in Nat /\ m <= n /\ ~(k + m <= B + 1 /\ G(i + m, k + m))
      BY <3>1
    <3>3. m # 0
      <4> SUFFICES ASSUME m = 0 PROVE FALSE
        OBVIOUS
      <4>1. k + m = k /\ i + m = i /\ k <= B + 1
        BY <1>0
      <4> QED BY <1>6, <3>2, <4>1
    <3>4. m - 1 \in Nat /\ ~(m <= m - 1) /\ m - 1 <= n
      BY <3>2, <3>3
    <3>5. S(m - 1)
      BY <3>1, <3>4
    <3> DEFINE a == i + (m - 1)
               b == k + (m - 1)
    <3>6. b <= B + 1 /\ G(a, b)
      BY <3>4, <3>5
    <3>7. /\ a \in 1 .. A /\ b \in 1 .. B + 1 /\ a \in i .. i + n - 1 /\ a \in 1 .. A + 1 /\ ~(a > A)
          /\ a + 1 = i + m /\ b + 1 = k + m
      BY <1>0, <1>6, <3>2, <3>3, <3>6
    <3> HIDE DEF a, b, S, T
    <3>8. p[a] # "*"
      BY <1>6, <3>7
    <3>9. b <= B /\ G(a + 1, b + 1)
      BY <1>1, <3>6, <3>7, <3>8
    <3>10. b + 1 <= B + 1
      BY <1>0, <3>7, <3>9
    <3> QED BY <3>2, <3>7, <3>9, <3>10
  <2>2. S(n)
    BY <2>1
  <2> QED BY <2>2
<1> QED BY <1>2, <1>3, <1>4, <1>5, <1>6 DEF G, A, B

(* How far a cursor is from the end: turns bring it nearer. *)
Left(p, t, c) == (Len(t) + 1 - c.star_t) * (Len(p) + 2) + (Len(p) + 1 - c.pi)

(* The measure Left is lexical: the place of the last star first, then the place in the pattern. *)
LEMMA Lexical ==
    ASSUME NEW a \in Nat, NEW b \in Nat, NEW w \in Nat
    PROVE  /\ a * w \in Nat
           /\ a <= b => a * w <= b * w
           /\ a < b => a * w + w <= b * w
<1>1. a * w \in Nat
  OBVIOUS
<1>2. ASSUME NEW d \in Nat, b = a + d PROVE b * w = a * w + d * w /\ d * w \in Nat
  BY <1>2
<1>3. ASSUME NEW d \in Nat, b = (a + 1) + d PROVE b * w = a * w + w + d * w /\ d * w \in Nat
  BY <1>3
<1>4. a <= b => b - a \in Nat /\ b = a + (b - a)
  OBVIOUS
<1>5. a < b => b - a - 1 \in Nat /\ b = (a + 1) + (b - a - 1)
  OBVIOUS
<1>6. a <= b => a * w <= b * w
  BY <1>1, <1>2, <1>4
<1>7. a < b => a * w + w <= b * w
  BY <1>1, <1>3, <1>5
<1> QED BY <1>1, <1>6, <1>7

(* A turn of the loop gives a cursor again, and one that is nearer to the end. *)
LEMMA CursorTurns ==
    ASSUME NEW p, NEW t, Len(p) \in Nat, Len(t) \in Nat, NEW c \in Cursors(p, t)
    PROVE  /\ Left(p, t, c) \in Nat
           /\ c.ti <= Len(t) /\ (fits(p, t, c) \/ at_star(p, c) \/ c.star_p # 0) =>
                 turn(p, t, c) \in Cursors(p, t) /\ Left(p, t, turn(p, t, c)) < Left(p, t, c)
<1> DEFINE A == Len(p)
           B == Len(t)
           w == A + 2
           d == turn(p, t, c)
<1>0. A \in Nat /\ B \in Nat /\ w \in Nat
  OBVIOUS
<1> HIDE DEF A, B
<1>1. /\ c.pi \in 1 .. A + 1 /\ c.ti \in 1 .. B + 1 /\ c.star_p \in 0 .. A /\ c.star_t \in 0 .. B + 1
      /\ c.star_t <= c.ti
      /\ c = [pi |-> c.pi, ti |-> c.ti, star_p |-> c.star_p, star_t |-> c.star_t]
  BY DEF Cursors, A, B
<1>2. ASSUME NEW a \in 1 .. A + 1, NEW b \in 1 .. B + 1, NEW x \in 0 .. A, NEW y \in 0 .. B + 1, y <= b
      PROVE  [pi |-> a, ti |-> b, star_p |-> x, star_t |-> y] \in Cursors(p, t)
  BY <1>2 DEF Cursors, A, B
<1> DEFINE L(a, y) == (B + 1 - y) * w + (A + 1 - a)
<1>3. ASSUME NEW a \in 1 .. A + 1, NEW y \in 0 .. B + 1 PROVE L(a, y) \in Nat
  <2>1. B + 1 - y \in Nat /\ A + 1 - a \in Nat
    BY <1>0
  <2>2. (B + 1 - y) * w \in Nat
    BY <1>0, <2>1, Lexical
  <2> QED BY <2>1, <2>2
<1>4. ASSUME NEW a \in 1 .. A + 1, NEW y \in 0 .. B + 1, NEW x \in 1 .. A + 1, NEW z \in 0 .. B + 1,
             z > y \/ (z >= y /\ x > a)
      PROVE  L(x, z) < L(a, y)
  <2> DEFINE u == B + 1 - z
             v == B + 1 - y
  <2>1. u \in Nat /\ v \in Nat /\ A + 1 - a \in Nat /\ A + 1 - x \in Nat /\ A + 1 - x < w
    BY <1>0
  <2>2. (z > y => u < v) /\ (z >= y => u <= v)
    BY <1>0
  <2> HIDE DEF u, v
  <2>3. u * w \in Nat /\ v * w \in Nat /\ (u <= v => u * w <= v * w) /\ (u < v => u * w + w <= v * w)
    BY <1>0, <2>1, Lexical
  <2> DEFINE uw == u * w
             vw == v * w
  <2>4. uw \in Nat /\ vw \in Nat /\ (u <= v => uw <= vw) /\ (u < v => uw + w <= vw)
    BY <2>3
  <2>5. L(x, z) = uw + (A + 1 - x) /\ L(a, y) = vw + (A + 1 - a)
    BY DEF u, v
  <2> HIDE DEF uw, vw, L, w
  <2>6. CASE z > y
    BY <1>0, <2>1, <2>2, <2>4, <2>5, <2>6
  <2>7. CASE z >= y /\ x > a
    <3>1. A + 1 - x < A + 1 - a /\ uw <= vw
      BY <1>0, <2>2, <2>4, <2>7
    <3> QED BY <2>1, <2>4, <2>5, <3>1
  <2> QED BY <1>4, <2>6, <2>7
<1>5. \A e : Left(p, t, e) = L(e.pi, e.star_t)
  BY DEF Left, A, B
<1> HIDE DEF L, w
<1>6. Left(p, t, c) \in Nat
  BY <1>1, <1>3, <1>5
<1>7. ASSUME c.ti <= B, fits(p, t, c)
      PROVE  d \in Cursors(p, t) /\ Left(p, t, d) < Left(p, t, c)
  <2>1. d = [pi |-> c.pi + 1, ti |-> c.ti + 1, star_p |-> c.star_p, star_t |-> c.star_t]
    BY <1>1, <1>7 DEF turn
  <2>2. c.pi <= A
    BY <1>7 DEF fits, A
  <2>3. /\ c.pi + 1 \in 1 .. A + 1 /\ c.ti + 1 \in 1 .. B + 1 /\ c.star_t <= c.ti + 1
        /\ c.star_t >= c.star_t /\ c.pi + 1 > c.pi
    BY <1>0, <1>1, <1>7, <2>2
  <2>4. d \in Cursors(p, t) /\ L(c.pi + 1, c.star_t) < L(c.pi, c.star_t)
    BY <1>1, <1>2, <1>4, <2>1, <2>3
  <2> HIDE DEF d
  <2> QED BY <1>5, <2>1, <2>4
<1>8. ASSUME c.ti <= B, ~fits(p, t, c), at_star(p, c)
      PROVE  d \in Cursors(p, t) /\ Left(p, t, d) < Left(p, t, c)
  <2>1. d = [pi |-> c.pi + 1, ti |-> c.ti, star_p |-> c.pi, star_t |-> c.ti]
    BY <1>1, <1>8 DEF turn
  <2>2. c.pi <= A
    BY <1>8 DEF at_star, A
  <2>3. /\ c.pi + 1 \in 1 .. A + 1 /\ c.pi \in 0 .. A /\ c.ti \in 0 .. B + 1 /\ c.ti <= c.ti
        /\ c.ti >= c.star_t /\ c.pi + 1 > c.pi
    BY <1>0, <1>1, <2>2
  <2>4. d \in Cursors(p, t) /\ L(c.pi + 1, c.ti) < L(c.pi, c.star_t)
    BY <1>1, <1>2, <1>4, <2>1, <2>3
  <2> HIDE DEF d
  <2> QED BY <1>5, <2>1, <2>4
<1>9. ASSUME c.ti <= B, ~fits(p, t, c), ~at_star(p, c)
      PROVE  d \in Cursors(p, t) /\ Left(p, t, d) < Left(p, t, c)
  <2>1. d = [pi |-> c.star_p + 1, ti |-> c.star_t + 1, star_p |-> c.star_p, star_t |-> c.star_t + 1]
    BY <1>1, <1>9 DEF turn
  <2>3. /\ c.star_p + 1 \in 1 .. A + 1 /\ c.star_t + 1 \in 1 .. B + 1 /\ c.star_t + 1 \in 0 .. B + 1
        /\ c.star_t + 1 <= c.star_t + 1 /\ c.star_t + 1 > c.star_t
    BY <1>0, <1>1, <1>9
  <2>4. d \in Cursors(p, t) /\ L(c.star_p + 1, c.star_t + 1) < L(c.pi, c.star_t)
    BY <1>1, <1>2, <1>4, <2>1, <2>3
  <2> HIDE DEF d
  <2> QED BY <1>5, <2>1, <2>4
<1> HIDE DEF d
<1> QED BY <1>6, <1>7, <1>8, <1>9 DEF A, B, d

Looks(p, t, f, c) ==
    IF c.ti > Len(t) THEN \A i \in c.pi .. Len(p) : p[i] = "*"
    ELSE (fits(p, t, c) \/ at_star(p, c) \/ c.star_p # 0) /\ f[turn(p, t, c)]

(* The loop ends on every pattern and name: there is such a function. *)
LEMMA LoopDef ==
    ASSUME NEW p, NEW t, Len(p) \in Nat, Len(t) \in Nat
    PROVE  \E loop : /\ loop = [c \in Cursors(p, t) |-> Looks(p, t, loop, c)]
                     /\ known_hosts_glob(p, t) = loop[[pi |-> 1, ti |-> 1, star_p |-> 0, star_t |-> 0]]
<1> DEFINE D == Cursors(p, t)
           left(c) == Left(p, t, c)
           Near(n) == {c \in D : left(c) < n}
           P(f, n) == f = [c \in Near(n) |-> Looks(p, t, f, c)]
<1>0. \A c \in D : left(c) \in Nat
  BY CursorTurns
<1> HIDE DEF left
<1>1. \A n \in Nat : \E f : P(f, n)
  <2> DEFINE T == {n \in Nat : ~ \E f : P(f, n)}
  <2> SUFFICES ASSUME T # {} PROVE FALSE
    OBVIOUS
  <2>1. PICK n \in T : \A m \in T : n <= m
    BY LeastNumber
  <2>2. n \in Nat
    OBVIOUS
  <2>3. CASE n = 0
    <3>1. Near(0) = {}
      BY <1>0
    <3> DEFINE z == [c \in {} |-> TRUE]
    <3>2. z = [c \in Near(0) |-> Looks(p, t, z, c)]
      BY <3>1
    <3> QED BY <2>3, <3>2
  <2>4. CASE n # 0
    <3>1. n - 1 \in Nat /\ n - 1 \notin T
      <4>1. n - 1 \in Nat /\ ~(n <= n - 1)
        BY <2>2, <2>4
      <4> HIDE DEF T
      <4> QED BY <2>1, <4>1
    <3>2. PICK f : P(f, n - 1)
      BY <3>1
    <3> DEFINE g == [c \in Near(n) |-> Looks(p, t, f, c)]
    <3>3. ASSUME NEW c \in Near(n - 1) PROVE g[c] = f[c]
      <4>1. c \in Near(n)
        BY <1>0, <2>2, <3>1
      <4>2. g[c] = Looks(p, t, f, c)
        BY <4>1
      <4>3. f[c] = Looks(p, t, f, c)
        <5> HIDE DEF Near
        <5> QED BY <3>2
      <4> QED BY <4>2, <4>3
    <3>4. ASSUME NEW c \in Near(n) PROVE Looks(p, t, f, c) = Looks(p, t, g, c)
      <4>1. c \in D /\ left(c) < n
        OBVIOUS
      <4>2. ASSUME ~(c.ti > Len(t)), fits(p, t, c) \/ at_star(p, c) \/ c.star_p # 0
            PROVE  f[turn(p, t, c)] = g[turn(p, t, c)]
        <5>1. c.ti <= Len(t)
          BY <4>1, <4>2 DEF Cursors
        <5>2. turn(p, t, c) \in D /\ left(turn(p, t, c)) < left(c) /\ left(turn(p, t, c)) \in Nat
          BY <4>1, <4>2, <5>1, <1>0, CursorTurns DEF left
        <5>3. turn(p, t, c) \in Near(n - 1)
          BY <1>0, <2>2, <4>1, <5>2
        <5> HIDE DEF g, Near
        <5> QED BY <3>3, <5>3
      <4> HIDE DEF g, Near
      <4> QED BY <4>2 DEF Looks
    <3>5. P(g, n)
      <4> HIDE DEF Near
      <4>1. [c \in Near(n) |-> Looks(p, t, f, c)] = [c \in Near(n) |-> Looks(p, t, g, c)]
        <5> HIDE DEF g
        <5> QED BY <3>4
      <4> QED BY <4>1
    <3> HIDE DEF g, P
    <3> QED BY <2>1, <3>5
  <2> QED BY <2>3, <2>4
<1>2. PICK N \in Nat : Near(N) = D
  <2> DEFINE N == (Len(t) + 1) * (Len(p) + 2) + Len(p) + 1
  <2>1. (Len(t) + 1) * (Len(p) + 2) \in Nat /\ N \in Nat
    OBVIOUS
  <2>2. ASSUME NEW c \in D PROVE left(c) < N
    <3>1. c.star_t \in Nat /\ Len(t) + 1 - c.star_t \in Nat /\ Len(t) + 1 - c.star_t <= Len(t) + 1 /\ c.pi \in 1 .. Len(p) + 1
      BY DEF Cursors
    <3> DEFINE u == Len(t) + 1 - c.star_t
               w == Len(p) + 2
               v == Len(t) + 1
    <3>2. u * w \in Nat /\ v * w \in Nat /\ u * w <= v * w
      <4>1. u \in Nat /\ v \in Nat /\ w \in Nat /\ u <= v
        BY <3>1
      <4> HIDE DEF u, v, w
      <4> QED BY <4>1, Lexical
    <3>3. left(c) = u * w + (Len(p) + 1 - c.pi) /\ N = v * w + Len(p) + 1
      BY DEF left, Left
    <3>4. u * w + (Len(p) + 1 - c.pi) < v * w + Len(p) + 1
      <4> DEFINE uw == u * w
                 vw == v * w
      <4> HIDE DEF uw, vw
      <4>1. uw \in Nat /\ vw \in Nat /\ uw <= vw
        BY <3>2 DEF uw, vw
      <4>2. uw + (Len(p) + 1 - c.pi) < vw + Len(p) + 1
        BY <3>1, <4>1
      <4> QED BY <4>2 DEF uw, vw
    <3> HIDE DEF u, v, w, N
    <3> QED BY <3>3, <3>4
  <2> HIDE DEF N, D
  <2>3. Near(N) = D
    BY <2>2
  <2> QED BY <2>1, <2>3
<1>3. \E f : f = [c \in D |-> Looks(p, t, f, c)]
  <2> HIDE DEF Near, D
  <2> QED BY <1>1, <1>2
<1> DEFINE loop == CHOOSE f : f = [c \in D |-> Looks(p, t, f, c)]
<1>4. loop = [c \in D |-> Looks(p, t, loop, c)]
  BY <1>3
<1>5. known_hosts_glob(p, t) = loop[[pi |-> 1, ti |-> 1, star_p |-> 0, star_t |-> 0]]
  BY Zenon DEF known_hosts_glob, Looks
<1> HIDE DEF loop
<1> QED BY <1>4, <1>5

(* The loop and the recursion agree on every pattern and every name without a star: to come back
   to the last star met is enough, because what an earlier one could reach, it reaches too. *)
LEMMA MatchersAgree ==
    ASSUME NEW p, NEW t, Len(p) \in Nat, Len(t) \in Nat, \A i \in 1 .. Len(t) : t[i] # "*"
    PROVE  known_hosts_glob(p, t) <=> glob_match(p, t)
<1> DEFINE A == Len(p)
           B == Len(t)
           D == Cursors(p, t)
<1>0. A \in Nat /\ B \in Nat
  OBVIOUS
<1>1. PICK go : /\ go = [at \in Places(p, t) |-> Rest(p, t, go, at)]
                /\ glob_match(p, t) = go[<<1, 1>>]
  BY MatchDef
<1>2. PICK loop : /\ loop = [c \in D |-> Looks(p, t, loop, c)]
                  /\ known_hosts_glob(p, t) = loop[[pi |-> 1, ti |-> 1, star_p |-> 0, star_t |-> 0]]
  BY LoopDef
<1> DEFINE G(i, j) == go[<<i, j>>]
<1>3. /\ \A i \in 1 .. A : \A j \in 1 .. B + 1 :
            p[i] = "*" => (G(i, j) <=> \E k \in j .. B + 1 : G(i + 1, k))
      /\ \A i \in 1 .. A : \A j \in 1 .. B : p[i] # "*" =>
            (G(i, j) <=> p[i] \in {"?", t[j]} /\ G(i + 1, j + 1))
      /\ \A j \in 1 .. B : ~G(A + 1, j)
      /\ \A i \in 1 .. A + 1 : G(i, B + 1) <=> \A l \in i .. A : p[l] = "*"
      /\ \A i \in 1 .. A + 1 : \A n \in Nat : \A k \in 1 .. B + 1 :
            i + n <= A + 1 /\ (\A l \in i .. i + n - 1 : p[l] # "*") /\ G(i, k)
               => k + n <= B + 1 /\ G(i + n, k + n)
  BY <1>1, MatchFacts
<1>4. \A c \in D : loop[c] = Looks(p, t, loop, c)
  <2> HIDE DEF D
  <2> QED BY <1>2
<1>5. \A c \in D : /\ c.pi \in 1 .. A + 1 /\ c.ti \in 1 .. B + 1
                   /\ c.star_p \in 0 .. A /\ c.star_t \in 0 .. B + 1 /\ c.star_t <= c.ti
                   /\ c = [pi |-> c.pi, ti |-> c.ti, star_p |-> c.star_p, star_t |-> c.star_t]
  BY DEF Cursors
<1> DEFINE Aligned(c) ==
              c.star_p # 0 =>
                 /\ p[c.star_p] = "*" /\ c.star_p < c.pi
                 /\ c.ti - c.star_t = c.pi - c.star_p - 1
                 /\ \A l \in c.star_p + 1 .. c.pi - 1 : p[l] # "*"
           Later(c) == c.star_p # 0 /\ \E k \in c.star_t + 1 .. B + 1 : G(c.star_p + 1, k)
           Agrees(c) == loop[c] <=> G(c.pi, c.ti) \/ Later(c)
           Bad == {c \in D : Aligned(c) /\ ~Agrees(c)}
<1> HIDE DEF A, B, D, G
(* What the last star reaches later, a match of what follows it has to reach. *)
<1>6. ASSUME NEW c \in D, Aligned(c), Later(c)
      PROVE  \E k \in c.ti + 1 .. B + 1 : G(c.pi, k)
  <2>1. PICK k \in c.star_t + 1 .. B + 1 : G(c.star_p + 1, k)
    BY <1>6
  <2> DEFINE n == c.pi - c.star_p - 1
  <2>0. /\ c.star_p # 0 /\ c.star_p < c.pi /\ c.ti - c.star_t = c.pi - c.star_p - 1
        /\ c.pi \in 1 .. A + 1 /\ c.ti \in 1 .. B + 1 /\ c.star_p \in 0 .. A /\ c.star_t \in 0 .. B + 1
    BY <1>5, <1>6
  <2>2. /\ n \in Nat /\ c.star_p + 1 \in 1 .. A + 1 /\ k \in 1 .. B + 1
        /\ c.star_p + 1 + n = c.pi /\ c.star_p + 1 + n <= A + 1 /\ c.star_p + 1 + n - 1 = c.pi - 1
        /\ k + n >= c.ti + 1
    <3>1. k \in Nat /\ k >= c.star_t + 1 /\ k <= B + 1 /\ c.star_t >= 0
      BY <1>0, <2>0, <2>1
    <3>2. ASSUME NEW a \in 1 .. A + 1, NEW x \in 0 .. A, x < a
          PROVE  /\ a - x - 1 \in Nat /\ x + 1 \in 1 .. A + 1 /\ x + 1 + (a - x - 1) = a
                 /\ x + 1 + (a - x - 1) <= A + 1 /\ x + 1 + (a - x - 1) - 1 = a - 1
      BY <1>0, <3>2
    <3>3. /\ n \in Nat /\ c.star_p + 1 \in 1 .. A + 1 /\ c.star_p + 1 + n = c.pi
          /\ c.star_p + 1 + n <= A + 1 /\ c.star_p + 1 + n - 1 = c.pi - 1
      BY <2>0, <3>2
    <3>5. k \in 1 .. B + 1
      BY <1>0, <3>1, <2>0
    <3>4. k + n >= c.ti + 1
      BY <1>0, <2>0, <3>1
    <3> QED BY <3>3, <3>4, <3>5
  <2>3. \A l \in c.star_p + 1 .. c.star_p + 1 + n - 1 : p[l] # "*"
    BY <1>6, <2>2
  <2> HIDE DEF n
  <2>4. k + n <= B + 1 /\ G(c.star_p + 1 + n, k + n)
    BY <1>3, <2>1, <2>2, <2>3
  <2>5. k + n \in c.ti + 1 .. B + 1
    BY <1>0, <1>5, <2>1, <2>2, <2>4
  <2> QED BY <2>2, <2>4, <2>5
<1>7. ASSUME NEW c \in D, Aligned(c), c.ti > B PROVE Agrees(c)
  <2>1. c.ti = B + 1 /\ c.ti + 1 .. B + 1 = {}
    BY <1>0, <1>5, <1>7
  <2>2. ~Later(c)
    BY <1>6, <1>7, <2>1
  <2>3. loop[c] <=> \A i \in c.pi .. A : p[i] = "*"
    BY <1>4, <1>7 DEF Looks, A, B
  <2> HIDE DEF Later
  <2> QED BY <1>3, <1>5, <2>1, <2>2, <2>3
<1>8. ASSUME NEW c \in D, Aligned(c), ~(c.ti > B), fits(p, t, c)
      PROVE  LET d == turn(p, t, c) IN
             Aligned(d) /\ (G(d.pi, d.ti) <=> G(c.pi, c.ti)) /\ (Later(d) <=> Later(c))
  <2> DEFINE d == [pi |-> c.pi + 1, ti |-> c.ti + 1, star_p |-> c.star_p, star_t |-> c.star_t]
  <2>0. c = [pi |-> c.pi, ti |-> c.ti, star_p |-> c.star_p, star_t |-> c.star_t]
    BY <1>5
  <2>1. turn(p, t, c) = d
    BY <1>8, <2>0 DEF turn
  <2>2. c.pi <= A /\ p[c.pi] \in {"?", t[c.ti]}
    BY <1>8 DEF fits, A
  <2>3. c.pi \in 1 .. A /\ c.ti \in 1 .. B
    BY <1>0, <1>5, <1>8, <2>2
  <2>4. p[c.pi] # "*"
    <3>1. t[c.ti] # "*" /\ "?" # "*"
      BY <2>3 DEF B
    <3> QED BY <2>2, <3>1
  <2>5. G(c.pi + 1, c.ti + 1) <=> G(c.pi, c.ti)
    BY <1>3, <2>2, <2>3, <2>4
  <2>6. Aligned(d)
    <3> SUFFICES ASSUME c.star_p # 0
                 PROVE  /\ p[c.star_p] = "*" /\ c.star_p < c.pi + 1
                        /\ (c.ti + 1) - c.star_t = (c.pi + 1) - c.star_p - 1
                        /\ \A l \in c.star_p + 1 .. (c.pi + 1) - 1 : p[l] # "*"
      OBVIOUS
    <3>1. /\ p[c.star_p] = "*" /\ c.star_p < c.pi /\ c.ti - c.star_t = c.pi - c.star_p - 1
          /\ \A l \in c.star_p + 1 .. c.pi - 1 : p[l] # "*"
      BY <1>8
    <3>2. \A l \in c.star_p + 1 .. (c.pi + 1) - 1 : l = c.pi \/ l \in c.star_p + 1 .. c.pi - 1
      BY <1>5, <2>3
    <3>3. c.star_p < c.pi + 1 /\ (c.ti + 1) - c.star_t = (c.pi + 1) - c.star_p - 1
      BY <1>5, <3>1
    <3> QED BY <2>4, <3>1, <3>2, <3>3
  <2>7. Later(d) <=> Later(c)
    OBVIOUS
  <2>8. d.pi = c.pi + 1 /\ d.ti = c.ti + 1
    OBVIOUS
  <2> HIDE DEF d, Aligned, Later
  <2> QED BY <2>1, <2>5, <2>6, <2>7, <2>8
<1>9. ASSUME NEW c \in D, Aligned(c), ~(c.ti > B), ~fits(p, t, c), at_star(p, c)
      PROVE  LET d == turn(p, t, c) IN
             Aligned(d) /\ (G(d.pi, d.ti) \/ Later(d) <=> G(c.pi, c.ti) \/ Later(c))
  <2> DEFINE d == [pi |-> c.pi + 1, ti |-> c.ti, star_p |-> c.pi, star_t |-> c.ti]
  <2>0. c = [pi |-> c.pi, ti |-> c.ti, star_p |-> c.star_p, star_t |-> c.star_t]
    BY <1>5
  <2>1. turn(p, t, c) = d
    BY <1>9, <2>0 DEF turn
  <2>2. c.pi \in 1 .. A /\ p[c.pi] = "*" /\ c.pi # 0
    BY <1>0, <1>5, <1>9 DEF at_star, A
  <2>3. Aligned(d)
    <3>1. c.pi < c.pi + 1 /\ c.ti - c.ti = (c.pi + 1) - c.pi - 1 /\ c.pi + 1 .. (c.pi + 1) - 1 = {}
      BY <1>5
    <3> QED BY <2>2, <3>1
  <2>4. G(c.pi, c.ti) <=> \E k \in c.ti .. B + 1 : G(c.pi + 1, k)
    BY <1>3, <1>5, <2>2
  <2>5. \A k : k \in c.ti .. B + 1 <=> k = c.ti \/ k \in c.ti + 1 .. B + 1
    BY <1>0, <1>5
  <2>6. G(c.pi, c.ti) <=> G(c.pi + 1, c.ti) \/ Later(d)
    BY <2>2, <2>4, <2>5
  <2>7. Later(c) => G(c.pi, c.ti)
    <3> SUFFICES ASSUME Later(c) PROVE G(c.pi, c.ti)
      OBVIOUS
    <3>1. PICK k \in c.ti + 1 .. B + 1 : G(c.pi, k)
      BY <1>6, <1>9
    <3>2. k \in 1 .. B + 1 /\ k .. B + 1 \subseteq c.ti .. B + 1
      BY <1>5, <3>1
    <3>3. \E j \in k .. B + 1 : G(c.pi + 1, j)
      BY <1>3, <2>2, <3>1, <3>2
    <3> QED BY <2>4, <3>2, <3>3
  <2>8. d.pi = c.pi + 1 /\ d.ti = c.ti
    OBVIOUS
  <2> HIDE DEF d, Aligned, Later
  <2> QED BY <2>1, <2>3, <2>6, <2>7, <2>8
<1>10. ASSUME NEW c \in D, ~(c.ti > B), ~fits(p, t, c), ~at_star(p, c)
       PROVE  ~G(c.pi, c.ti)
  <2>1. c.ti \in 1 .. B
    BY <1>0, <1>5, <1>10
  <2>2. CASE c.pi \in 1 .. A
    <3>1. p[c.pi] # "*" /\ p[c.pi] \notin {"?", t[c.ti]}
      BY <1>0, <1>10, <2>2 DEF at_star, fits, A
    <3> QED BY <1>3, <2>1, <2>2, <3>1
  <2>3. CASE c.pi = A + 1
    BY <1>3, <2>1, <2>3
  <2> QED BY <1>0, <1>5, <2>2, <2>3
<1>11. ASSUME NEW c \in D, Aligned(c), ~(c.ti > B), ~fits(p, t, c), ~at_star(p, c), c.star_p # 0
       PROVE  LET d == turn(p, t, c) IN
              Aligned(d) /\ (G(d.pi, d.ti) \/ Later(d) <=> Later(c))
  <2> DEFINE d == [pi |-> c.star_p + 1, ti |-> c.star_t + 1, star_p |-> c.star_p,
                   star_t |-> c.star_t + 1]
  <2>0. c = [pi |-> c.pi, ti |-> c.ti, star_p |-> c.star_p, star_t |-> c.star_t]
    BY <1>5
  <2>1. turn(p, t, c) = d
    BY <1>11, <2>0 DEF turn
  <2>2. Aligned(d)
    <3>1. /\ p[c.star_p] = "*" /\ c.star_p < c.star_p + 1
          /\ (c.star_t + 1) - (c.star_t + 1) = (c.star_p + 1) - c.star_p - 1
          /\ c.star_p + 1 .. (c.star_p + 1) - 1 = {}
      BY <1>5, <1>11
    <3> QED BY <3>1
  <2>3. \A k : k \in c.star_t + 1 .. B + 1 <=> k = c.star_t + 1 \/ k \in (c.star_t + 1) + 1 .. B + 1
    <3>1. c.star_t \in Nat /\ c.star_t + 1 <= B + 1
      BY <1>0, <1>5, <1>11
    <3> QED BY <1>0, <3>1
  <2>4. Later(c) <=> G(c.star_p + 1, c.star_t + 1) \/ Later(d)
    BY <1>11, <2>3
  <2>5. d.pi = c.star_p + 1 /\ d.ti = c.star_t + 1
    OBVIOUS
  <2> HIDE DEF d, Aligned, Later
  <2> QED BY <2>1, <2>2, <2>4, <2>5
(* So every turn keeps what the loop answers. *)
<1>12. Bad = {}
  <2> SUFFICES ASSUME Bad # {} PROVE FALSE
    OBVIOUS
  <2> DEFINE T == {Left(p, t, c) : c \in Bad}
  <2>1. T \in SUBSET Nat /\ T # {}
    BY CursorTurns DEF D
  <2>2. PICK n \in T : \A m \in T : n <= m
    <3> HIDE DEF T
    <3> QED BY <2>1, LeastNumber
  <2>3. PICK c \in Bad : n = Left(p, t, c)
    BY <2>2
  <2>4. c \in D /\ Aligned(c) /\ ~Agrees(c)
    BY <2>3
  <2> HIDE DEF Aligned, Later
  <2>5. ~(c.ti > B)
    BY <1>7, <2>4
  <2>6. CASE fits(p, t, c) \/ at_star(p, c) \/ c.star_p # 0
    <3> DEFINE d == turn(p, t, c)
    <3>1. c.ti <= B
      BY <1>0, <1>5, <2>4, <2>5
    <3>2. d \in D /\ Left(p, t, d) < Left(p, t, c) /\ Left(p, t, d) \in Nat /\ Left(p, t, c) \in Nat
      BY <2>4, <2>6, <3>1, CursorTurns DEF D, B
    <3>3. loop[c] <=> loop[d]
      BY <1>4, <2>4, <2>5, <2>6 DEF Looks, B
    <3>4. Aligned(d) /\ (G(d.pi, d.ti) \/ Later(d) <=> G(c.pi, c.ti) \/ Later(c))
      <4>1. CASE fits(p, t, c)
        BY <1>8, <2>4, <2>5, <4>1
      <4>2. CASE ~fits(p, t, c) /\ at_star(p, c)
        BY <1>9, <2>4, <2>5, <4>2
      <4>3. CASE ~fits(p, t, c) /\ ~at_star(p, c)
        BY <1>10, <1>11, <2>4, <2>5, <2>6, <4>3
      <4> QED BY <4>1, <4>2, <4>3
    <3> HIDE DEF d
    <3>5. Agrees(d)
      <4> SUFFICES ASSUME ~Agrees(d) PROVE FALSE
        OBVIOUS
      <4>1. d \in Bad
        BY <3>2, <3>4
      <4>2. Left(p, t, d) \in T
        BY <4>1
      <4> HIDE DEF T
      <4> QED BY <2>2, <2>3, <3>2, <4>2
    <3> QED BY <2>4, <3>3, <3>4, <3>5
  <2>7. CASE ~fits(p, t, c) /\ ~at_star(p, c) /\ c.star_p = 0
    <3>1. ~loop[c]
      BY <1>4, <2>4, <2>5, <2>7 DEF Looks, B
    <3>2. ~G(c.pi, c.ti)
      BY <1>10, <2>4, <2>5, <2>7
    <3>3. ~Later(c)
      BY <2>7 DEF Later
    <3> QED BY <2>4, <3>1, <3>2, <3>3
  <2> QED BY <2>6, <2>7
<1> DEFINE first == [pi |-> 1, ti |-> 1, star_p |-> 0, star_t |-> 0]
<1>13. first \in D /\ Aligned(first) /\ ~Later(first) /\ first.pi = 1 /\ first.ti = 1
  BY <1>0 DEF D, Cursors, A, B
<1> HIDE DEF first, Aligned, Later
<1>14. Agrees(first)
  BY <1>12, <1>13
<1> QED BY <1>1, <1>2, <1>13, <1>14 DEF G, first

-------------------------------------------------------------------------------
(* The block that line i of ls heads, by what is in the lines after it up to the next break. *)
Breaks(ls, i) == ls[i].kind \in {"host", "match"}
Heads(ls) == {i \in DOMAIN ls : ls[i].kind = "host"}
Reaches(ls, i, j) == \A k \in i + 1 .. j : ~Breaks(ls, k)
Named(ls, i) ==
    {j \in i + 1 .. Len(ls) : ls[j].kind = "hostname" /\ ls[j].args # <<>> /\ Reaches(ls, i, j)}
Block(ls, i) ==
    [aliases |-> ls[i].args,
     host_name |-> IF Named(ls, i) = {} THEN NoName ELSE ls[Min(Named(ls, i))].args[1],
     open |-> TRUE]
OpenHeads(ls) == {i \in Heads(ls) : Reaches(ls, i, Len(ls))}

ReadInv ==
    /\ lines \in Seq(Lines)
    /\ blocks \in Seq(ToSet(blocks))
    /\ ToSet(blocks) = {Block(lines, i) : i \in Heads(lines) \ OpenHeads(lines)}
    /\ \A i \in OpenHeads(lines) : current = Block(lines, i)
    /\ OpenHeads(lines) = {} => current = NoBlock

(* Min of a set of numbers. *)
LEMMA MinFacts ==
    ASSUME NEW S \in SUBSET Nat, S # {}
    PROVE  Min(S) \in S /\ \A y \in S : Min(S) <= y
  BY LeastNumber DEF Min

(* A block ends in one place. *)
LEMMA NamedFacts ==
    ASSUME NEW ls \in Seq(Lines), NEW i \in 1 .. Len(ls)
    PROVE  HostNames(ls, i) = Named(ls, i)
<1> DEFINE N == Len(ls)
           E == {j \in i + 1 .. N + 1 : j = N + 1 \/ Breaks(ls, j)}
           Ends(j) == /\ j = N + 1 \/ ls[j].kind \in {"host", "match"}
                      /\ \A k \in i + 1 .. j - 1 : ls[k].kind \notin {"host", "match"}
<1>0. N \in Nat /\ i \in Nat /\ i <= N
  OBVIOUS
<1>1. PICK e \in E : \A m \in E : e <= m
  <2>1. N + 1 \in E /\ E \in SUBSET Nat
    BY <1>0
  <2> QED BY <2>1, LeastNumber
<1>2. e \in i + 1 .. N + 1 /\ Ends(e)
  <2>1. \A k \in i + 1 .. e - 1 : k \in i + 1 .. N + 1 /\ ~(e <= k)
    BY <1>0, <1>1
  <2> QED BY <1>1, <2>1 DEF Breaks
<1>3. BlockEnd(ls, i) \in i + 1 .. N + 1 /\ Ends(BlockEnd(ls, i))
  BY <1>2 DEF BlockEnd
<1> HIDE DEF N, E
<1> DEFINE b == BlockEnd(ls, i)
<1>4. ASSUME NEW j \in i + 1 .. N PROVE j <= b - 1 <=> Reaches(ls, i, j)
  <2>0. b \in i + 1 .. N + 1
    BY <1>3
  <2>1. CASE j <= b - 1
    <3>1. \A k \in i + 1 .. j : k \in i + 1 .. b - 1
      BY <1>0, <2>0, <2>1
    <3> QED BY <1>3, <2>1, <3>1 DEF Reaches, Breaks
  <2>2. CASE ~(j <= b - 1)
    <3>1. b \in i + 1 .. j /\ b # N + 1
      BY <1>0, <2>0, <2>2
    <3> QED BY <1>3, <2>2, <3>1 DEF Reaches, Breaks
  <2> QED BY <2>1, <2>2
<1>5. b \in i + 1 .. N + 1
  BY <1>3
<1>6. ASSUME NEW j PROVE j \in HostNames(ls, i) <=> j \in Named(ls, i)
  <2> HIDE DEF b
  <2>1. j \in i + 1 .. b - 1 <=> j \in i + 1 .. N /\ j <= b - 1
    BY <1>0, <1>5
  <2> QED BY <1>4, <2>1 DEF HostNames, Named, b, N
<1> QED BY <1>6

(* The hosts of the blocks, by those that ReadInv speaks of. *)
LEMMA HostsOfBlocks ==
    ASSUME NEW ls \in Seq(Lines)
    PROVE  BlockHosts(ls) = {host_of(Block(ls, i)) : i \in Heads(ls)} \ {NoName}
<1>1. ASSUME NEW i \in Heads(ls)
      PROVE  host_of([aliases |-> ls[i].args,
                      host_name |-> IF HostNames(ls, i) = {} THEN NoName
                                    ELSE ls[Min(HostNames(ls, i))].args[1]]) = host_of(Block(ls, i))
  <2>1. HostNames(ls, i) = Named(ls, i)
    BY NamedFacts DEF Heads
  <2> DEFINE a == [aliases |-> ls[i].args,
                   host_name |-> IF HostNames(ls, i) = {} THEN NoName
                                 ELSE ls[Min(HostNames(ls, i))].args[1]]
  <2>2. a.aliases = Block(ls, i).aliases /\ a.host_name = Block(ls, i).host_name
    BY <2>1 DEF Block
  <2> HIDE DEF a
  <2>3. host_of(a) = host_of(Block(ls, i))
    BY <2>2 DEF host_of
  <2> QED BY <2>3 DEF a
<1> QED BY <1>1 DEF BlockHosts, Heads

(* One line more: the blocks that are closed stay as they are; a break closes the open one, and a
   HostName is its name if it is the first. *)
LEMMA OneLineMore ==
    ASSUME NEW ls \in Seq(Lines), NEW l \in Lines
    PROVE  LET m == Append(ls, l)
               n == Len(ls) + 1
               breaks == l.kind \in {"host", "match"}
               new == IF l.kind = "host" THEN {n} ELSE {}
           IN  /\ m \in Seq(Lines)
               /\ Heads(m) = Heads(ls) \cup new
               /\ OpenHeads(m) = IF breaks THEN new ELSE OpenHeads(ls)
               /\ \A i \in Heads(ls) :
                    Block(m, i) = IF /\ l.kind = "hostname" /\ l.args # <<>>
                                     /\ i \in OpenHeads(ls) /\ Block(ls, i).host_name = NoName
                                  THEN [Block(ls, i) EXCEPT !.host_name = l.args[1]]
                                  ELSE Block(ls, i)
               /\ l.kind = "host" =>
                    Block(m, n) = [aliases |-> l.args, host_name |-> NoName, open |-> TRUE]
<1> DEFINE m == Append(ls, l)
           n == Len(ls) + 1
           breaks == l.kind \in {"host", "match"}
           new == IF l.kind = "host" THEN {n} ELSE {}
<1>1. /\ m \in Seq(Lines) /\ Len(m) = n /\ m[n] = l /\ n \in Nat /\ n >= 1
      /\ \A i \in 1 .. n - 1 : m[i] = ls[i]
      /\ DOMAIN m = 1 .. n /\ DOMAIN ls = 1 .. n - 1 /\ Len(ls) = n - 1 /\ n \notin 1 .. n - 1
      /\ 1 .. n = (1 .. n - 1) \cup {n}
  OBVIOUS
<1> HIDE DEF m, n
<1>2. Heads(m) = Heads(ls) \cup new
  BY <1>1 DEF Heads
<1>3. \A i \in 1 .. n - 1 : \A j \in i .. n - 1 : Reaches(m, i, j) <=> Reaches(ls, i, j)
  <2> SUFFICES ASSUME NEW i \in 1 .. n - 1, NEW j \in i .. n - 1
               PROVE  Reaches(m, i, j) <=> Reaches(ls, i, j)
    OBVIOUS
  <2>1. \A k \in i + 1 .. j : k \in 1 .. n - 1
    BY <1>1
  <2> QED BY <1>1, <2>1 DEF Reaches, Breaks
<1>4. \A i \in 1 .. n - 1 : Reaches(m, i, n) <=> Reaches(ls, i, n - 1) /\ ~breaks
  <2> SUFFICES ASSUME NEW i \in 1 .. n - 1
               PROVE  Reaches(m, i, n) <=> Reaches(ls, i, n - 1) /\ ~breaks
    OBVIOUS
  <2>1. Reaches(m, i, n - 1) <=> Reaches(ls, i, n - 1)
    BY <1>1, <1>3
  <2>2. i + 1 .. n = (i + 1 .. n - 1) \cup {n}
    BY <1>1
  <2> QED BY <1>1, <2>1, <2>2 DEF Reaches, Breaks
<1>5. OpenHeads(m) = IF breaks THEN new ELSE OpenHeads(ls)
  <2>1. Reaches(m, n, n)
    BY <1>1 DEF Reaches
  <2>2. Heads(ls) \subseteq 1 .. n - 1
    BY <1>1 DEF Heads
  <2>3. \A i \in Heads(ls) : i \in OpenHeads(m) <=> i \in OpenHeads(ls) /\ ~breaks
    BY <1>1, <1>2, <1>4, <2>2 DEF OpenHeads
  <2>4. OpenHeads(m) \subseteq Heads(ls) \cup new /\ OpenHeads(ls) \subseteq Heads(ls)
    BY <1>2 DEF OpenHeads
  <2>5. new \subseteq OpenHeads(m)
    BY <1>1, <1>2, <2>1 DEF OpenHeads
  <2>6. ~breaks => new = {}
    OBVIOUS
  <2> HIDE DEF new, breaks
  <2> QED BY <2>3, <2>4, <2>5, <2>6
<1>6. ASSUME NEW i \in Heads(ls)
      PROVE  Named(m, i) = Named(ls, i)
                \cup (IF l.kind = "hostname" /\ l.args # <<>> /\ i \in OpenHeads(ls) THEN {n} ELSE {})
  <2>0. i \in 1 .. n - 1 /\ n \in i + 1 .. n /\ i + 1 .. n = (i + 1 .. n - 1) \cup {n}
        /\ i + 1 .. n - 1 \subseteq 1 .. n - 1 /\ n \notin i + 1 .. n - 1
    BY <1>1 DEF Heads
  <2>1. ASSUME NEW j \in i + 1 .. n - 1 PROVE j \in Named(m, i) <=> j \in Named(ls, i)
    <3>1. j \in i .. n - 1 /\ j \in i + 1 .. Len(m) /\ j \in i + 1 .. Len(ls) /\ m[j] = ls[j]
      BY <1>1, <2>0
    <3>2. Reaches(m, i, j) <=> Reaches(ls, i, j)
      BY <1>3, <2>0, <3>1
    <3> QED BY <3>1, <3>2 DEF Named
  <2>2. n \in Named(m, i) <=> l.kind = "hostname" /\ l.args # <<>> /\ i \in OpenHeads(ls)
    <3>1. l.kind = "hostname" => ~breaks
      OBVIOUS
    <3>2. i \in OpenHeads(ls) <=> Reaches(ls, i, n - 1)
      BY <1>1, <1>6 DEF OpenHeads
    <3> HIDE DEF breaks
    <3> QED BY <1>1, <1>4, <2>0, <3>1, <3>2 DEF Named
  <2>3. Named(m, i) \subseteq i + 1 .. n /\ Named(ls, i) \subseteq i + 1 .. n - 1
    BY <1>1 DEF Named
  <2> QED BY <2>0, <2>1, <2>2, <2>3
<1>7. ASSUME NEW i \in Heads(ls)
      PROVE  Block(m, i) = IF /\ l.kind = "hostname" /\ l.args # <<>>
                              /\ i \in OpenHeads(ls) /\ Block(ls, i).host_name = NoName
                           THEN [Block(ls, i) EXCEPT !.host_name = l.args[1]]
                           ELSE Block(ls, i)
  <2>0. i \in 1 .. n - 1 /\ m[i] = ls[i]
    BY <1>1 DEF Heads
  <2>1. Named(ls, i) \in SUBSET (1 .. n - 1) /\ Named(ls, i) \in SUBSET Nat
    BY <1>1, <2>0 DEF Named
  <2>2. CASE l.kind = "hostname" /\ l.args # <<>> /\ i \in OpenHeads(ls)
    <3>1. Named(m, i) = Named(ls, i) \cup {n}
      BY <1>6, <2>2
    <3>2. CASE Named(ls, i) = {}
      <4>1. Min({n}) = n
        BY <1>1, MinFacts
      <4>2. Named(m, i) = {n} /\ {n} # {}
        BY <3>1, <3>2
      <4> QED BY <1>1, <2>0, <2>2, <3>2, <4>1, <4>2 DEF Block
    <3>3. CASE Named(ls, i) # {}
      <4> DEFINE a == Min(Named(ls, i))
                 b == Min(Named(m, i))
      <4>1. a \in Named(ls, i) /\ \A y \in Named(ls, i) : a <= y
        BY <2>1, <3>3, MinFacts
      <4>2. b \in Named(m, i) /\ \A y \in Named(m, i) : b <= y
        <5>1. Named(m, i) \in SUBSET Nat /\ Named(m, i) # {}
          BY <1>1, <2>1, <3>1
        <5> QED BY <5>1, MinFacts
      <4> HIDE DEF a, b
      <4>3. a \in 1 .. n - 1
        BY <2>1, <4>1
      <4>4. a = b
        BY <1>1, <2>1, <3>1, <4>1, <4>2, <4>3
      <4>5. m[b] = ls[a] /\ ls[a].args # <<>> /\ ls[a] \in Lines
        <5>1. ls[a] \in Lines
          BY <1>1, <4>3
        <5> QED BY <1>1, <4>1, <4>3, <4>4, <5>1 DEF Named
      <4>6. ls[a].args[1] # NoName
        BY <4>5, LinesAssumption DEF Word, NoName
      <4>7. Named(m, i) # {}
        BY <4>2
      <4> QED BY <2>0, <3>3, <4>5, <4>6, <4>7 DEF Block, a, b
    <3> QED BY <3>2, <3>3
  <2>3. CASE ~(l.kind = "hostname" /\ l.args # <<>> /\ i \in OpenHeads(ls))
    <3>1. Named(m, i) = Named(ls, i)
      BY <1>6, <2>3
    <3>2. Named(ls, i) # {} => m[Min(Named(ls, i))] = ls[Min(Named(ls, i))]
      BY <1>1, <2>1, MinFacts
    <3>3. Block(m, i) = Block(ls, i)
      BY <2>0, <3>1, <3>2 DEF Block
    <3> QED BY <2>3, <3>3
  <2> QED BY <2>2, <2>3
<1>8. l.kind = "host" => Block(m, n) = [aliases |-> l.args, host_name |-> NoName, open |-> TRUE]
  <2>1. Named(m, n) = {}
    BY <1>1 DEF Named
  <2> QED BY <1>1, <2>1 DEF Block
<1> QED BY <1>1, <1>2, <1>5, <1>7, <1>8 DEF m, n

(* What has been read, by blocks: those before the open one, and that one. *)
LEMMA CloseFacts ==
    ASSUME ReadInv
    PROVE  /\ Close(blocks, current) \in Seq(ToSet(Close(blocks, current)))
           /\ ToSet(Close(blocks, current)) = {Block(lines, i) : i \in Heads(lines)}
<1>1. CASE OpenHeads(lines) = {}
  <2>1. Close(blocks, current) = blocks
    BY <1>1 DEF ReadInv, Close, NoBlock
  <2> QED BY <1>1, <2>1 DEF ReadInv
<1>2. CASE OpenHeads(lines) # {}
  <2>1. PICK o : o \in OpenHeads(lines)
    BY <1>2
  <2>2. current = Block(lines, o) /\ current.open
    BY <2>1 DEF ReadInv, Block
  <2>3. \A i \in OpenHeads(lines) : Block(lines, i) = Block(lines, o)
    BY <2>2 DEF ReadInv
  <2>4. OpenHeads(lines) \subseteq Heads(lines)
    BY DEF OpenHeads
  <2>5. ToSet(blocks) \cup {current} = {Block(lines, i) : i \in Heads(lines)}
    BY <2>1, <2>2, <2>3, <2>4 DEF ReadInv
  <2>6. Close(blocks, current) = Append(blocks, current)
    BY <2>2 DEF Close
  <2>7. Append(blocks, current) \in Seq(ToSet(Append(blocks, current)))
        /\ ToSet(Append(blocks, current)) = ToSet(blocks) \cup {current}
    BY AppendSet DEF ReadInv
  <2> QED BY <2>5, <2>6, <2>7
<1> QED BY <1>1, <1>2

(* ReadInv holds of a file of which nothing was read. *)
LEMMA ReadInit == ASSUME lines = <<>>, blocks = <<>>, current = NoBlock PROVE ReadInv
<1>1. Heads(<<>>) = {} /\ OpenHeads(<<>>) = {}
  BY DEF Heads, OpenHeads
<1>2. ToSet(<<>>) = {}
  BY DEF ToSet
<1> QED BY <1>1, <1>2 DEF ReadInv

(* Every step keeps ReadInv: each kind of line by what OneLineMore says of it. *)
LEMMA ReadStep == ReadInv /\ [Next]_vars => ReadInv'
<1> SUFFICES ASSUME ReadInv, [Next]_vars PROVE ReadInv'
  OBVIOUS
<1>1. CASE UNCHANGED <<lines, blocks, current>>
  <2>1. Heads(lines') = Heads(lines) /\ OpenHeads(lines') = OpenHeads(lines)
        /\ \A i : Block(lines', i) = Block(lines, i)
    BY <1>1
  <2> QED BY <1>1, <2>1 DEF ReadInv
<1>2. ASSUME NEW l \in Lines, ReadLine(l) PROVE ReadInv'
  <2> DEFINE n == Len(lines) + 1
             breaks == l.kind \in {"host", "match"}
             new == IF l.kind = "host" THEN {n} ELSE {}
  <2>1. lines' = Append(lines, l) /\ lines \in Seq(Lines)
    BY <1>2 DEF ReadLine, ReadInv
  <2>2. /\ lines' \in Seq(Lines)
        /\ Heads(lines') = Heads(lines) \cup new
        /\ OpenHeads(lines') = IF breaks THEN new ELSE OpenHeads(lines)
        /\ \A i \in Heads(lines) :
              Block(lines', i) = IF /\ l.kind = "hostname" /\ l.args # <<>>
                                    /\ i \in OpenHeads(lines) /\ Block(lines, i).host_name = NoName
                                 THEN [Block(lines, i) EXCEPT !.host_name = l.args[1]]
                                 ELSE Block(lines, i)
        /\ l.kind = "host" =>
              Block(lines', n) = [aliases |-> l.args, host_name |-> NoName, open |-> TRUE]
    BY <2>1, OneLineMore
  <2>3. n \notin Heads(lines) /\ OpenHeads(lines) \subseteq Heads(lines)
    BY <2>1 DEF Heads, OpenHeads
  <2> DEFINE bs == {Block(lines', i) : i \in Heads(lines') \ OpenHeads(lines')}
  <2>w. ASSUME /\ blocks' \in Seq(ToSet(blocks'))
               /\ ToSet(blocks') = bs
               /\ \A i \in OpenHeads(lines') : current' = Block(lines', i)
               /\ OpenHeads(lines') = {} => current' = NoBlock
        PROVE  ReadInv'
    BY <2>2, <2>w DEF ReadInv, Heads, OpenHeads, Block, Named, Reaches, Breaks
  <2> HIDE DEF n
  <2>4. CASE TakeHost(l)
    <3>1. l.kind = "host" /\ new = {n} /\ breaks
      BY <2>4 DEF TakeHost
    <3>2. bs = {Block(lines, i) : i \in Heads(lines)}
      BY <2>2, <2>3, <3>1
    <3>3. blocks' = Close(blocks, current)
          /\ current' = [aliases |-> l.args, host_name |-> NoName, open |-> TRUE]
      BY <2>4 DEF TakeHost
    <3>4. blocks' \in Seq(ToSet(blocks')) /\ ToSet(blocks') = bs
      BY <3>2, <3>3, CloseFacts
    <3>5. \A i \in OpenHeads(lines') : current' = Block(lines', i)
      BY <2>2, <3>1, <3>3
    <3>6. OpenHeads(lines') # {}
      BY <2>2, <3>1
    <3> HIDE DEF bs
    <3> QED BY <2>w, <3>4, <3>5, <3>6
  <2>5. CASE TakeHostName(l)
    <3>1. l.kind = "hostname" /\ ~breaks /\ new = {} /\ blocks' = blocks
      BY <2>5 DEF TakeHostName
    <3>2. Heads(lines') = Heads(lines) /\ OpenHeads(lines') = OpenHeads(lines)
      BY <2>2, <3>1
    <3>3. bs = {Block(lines, i) : i \in Heads(lines) \ OpenHeads(lines)}
      BY <2>2, <3>2
    <3>4. ToSet(blocks') = bs /\ blocks' \in Seq(ToSet(blocks'))
      BY <3>1, <3>3 DEF ReadInv
    <3>5. OpenHeads(lines') = {} => current' = NoBlock
      BY <2>5, <3>2 DEF ReadInv, TakeHostName, NoBlock
    <3>6. ASSUME NEW i \in OpenHeads(lines') PROVE current' = Block(lines', i)
      <4>1. i \in OpenHeads(lines) /\ i \in Heads(lines) /\ current = Block(lines, i)
        BY <2>3, <3>2 DEF ReadInv
      <4>2. current.open
        BY <4>1 DEF Block
      <4>3. current' = IF current.host_name = NoName /\ l.args # <<>>
                       THEN [current EXCEPT !.host_name = l.args[1]] ELSE current
        BY <2>5, <4>2 DEF TakeHostName
      <4> QED BY <2>2, <3>1, <4>1, <4>3
    <3> HIDE DEF bs
    <3> QED BY <2>w, <3>4, <3>5, <3>6
  <2>6. CASE TakeInclude(l) \/ TakeOther(l)
    <3>1. l.kind \notin {"host", "match", "hostname"} /\ blocks' = blocks /\ current' = current
      BY <2>6 DEF TakeInclude, TakeOther
    <3>2. Heads(lines') = Heads(lines) /\ OpenHeads(lines') = OpenHeads(lines)
          /\ \A i \in Heads(lines) : Block(lines', i) = Block(lines, i)
      BY <2>2, <3>1
    <3>3. bs = {Block(lines, i) : i \in Heads(lines) \ OpenHeads(lines)}
      BY <3>2
    <3>4. /\ ToSet(blocks') = bs /\ blocks' \in Seq(ToSet(blocks'))
          /\ \A i \in OpenHeads(lines') : current' = Block(lines', i)
          /\ OpenHeads(lines') = {} => current' = NoBlock
      BY <2>3, <3>1, <3>2, <3>3 DEF ReadInv
    <3> HIDE DEF bs
    <3> QED BY <2>w, <3>4
  <2>7. CASE TakeMatch(l)
    <3>1. l.kind = "match" /\ new = {} /\ breaks /\ current' = NoBlock
          /\ blocks' = Close(blocks, current)
      BY <2>7 DEF TakeMatch
    <3>2. bs = {Block(lines, i) : i \in Heads(lines)} /\ OpenHeads(lines') = {}
      BY <2>2, <3>1
    <3>3. blocks' \in Seq(ToSet(blocks')) /\ ToSet(blocks') = bs
      BY <3>1, <3>2, CloseFacts
    <3> HIDE DEF bs
    <3> QED BY <2>w, <3>1, <3>2, <3>3
  <2> QED BY <1>2, <2>4, <2>5, <2>6, <2>7 DEF ReadLine
<1>3. CASE EndOfFile
  <2>1. lines' = <<>> /\ blocks' = <<>> /\ current' = NoBlock
    BY <1>3 DEF EndOfFile
  <2>2. (lines = <<>> /\ blocks = <<>> /\ current = NoBlock)' => ReadInv'
    BY ReadInit, PTL
  <2> QED BY <2>1, <2>2
<1>4. ASSUME NEW s \in Scans, Connection(s) PROVE UNCHANGED <<lines, blocks, current>>
  BY <1>4 DEF Connection, New, NewFails, CheckServerKey, Pin, PinFails, PinTorn, Again, configVars
<1> QED BY <1>1, <1>2, <1>3, <1>4 DEF Next, ReadConfig, vars, configVars

(* extract_hosts: the blocks kept, and the one that is open, are those of the lines read so far. *)
THEOREM ReadInvariance == Spec => []ReadInv
<1>1. Init => ReadInv
  BY ReadInit DEF Init, StartReading
<1> QED BY <1>1, ReadStep, PTL DEF Spec

(* What is kept of the first n names, from what is kept of those before. *)
Keeps(s, f, n) ==
    IF n = 0 THEN <<>>
    ELSE IF s[n] \in {NoName} \cup ToSet(f[n - 1]) THEN f[n - 1]
    ELSE Append(f[n - 1], s[n])

(* The recursion of dedup is well-founded. *)
LEMMA DedupDef ==
    ASSUME NEW s, Len(s) \in Nat
    PROVE  \E kept : kept = [n \in 0 .. Len(s) |-> Keeps(s, kept, n)] /\ dedup(s) = kept[Len(s)]
<1> DEFINE P(f, n) == f = [k \in 0 .. n |-> Keeps(s, f, k)]
<1>1. \A n \in Nat : \E f : P(f, n)
  <2> DEFINE T == {n \in Nat : ~ \E f : P(f, n)}
  <2> SUFFICES ASSUME T # {} PROVE FALSE
    OBVIOUS
  <2>1. PICK n \in T : \A m \in T : n <= m
    BY LeastNumber
  <2>2. CASE n = 0
    <3> DEFINE z == [k \in 0 .. 0 |-> <<>>]
    <3>1. z = [k \in 0 .. 0 |-> Keeps(s, z, k)]
      BY DEF Keeps
    <3> QED BY <2>2, <3>1
  <2>3. CASE n # 0
    <3>1. n \in Nat /\ n - 1 \in Nat /\ n - 1 \notin T
      <4>1. n \in Nat
        OBVIOUS
      <4>2. n - 1 \in Nat /\ ~(n <= n - 1)
        BY <2>3, <4>1
      <4> HIDE DEF T
      <4> QED BY <2>1, <4>1, <4>2
    <3>2. PICK f : P(f, n - 1)
      BY <3>1
    <3> DEFINE g == [k \in 0 .. n |-> Keeps(s, f, k)]
    <3>3. ASSUME NEW k \in 0 .. n - 1 PROVE g[k] = f[k]
      <4>1. k \in 0 .. n
        BY <3>1
      <4>2. f[k] = Keeps(s, f, k)
        BY <3>2
      <4> QED BY <4>1, <4>2
    <3>4. ASSUME NEW k \in 0 .. n PROVE Keeps(s, f, k) = Keeps(s, g, k)
      <4> HIDE DEF g
      <4>1. k # 0 => k - 1 \in 0 .. n - 1
        BY <3>1
      <4>2. k # 0 => f[k - 1] = g[k - 1]
        BY <3>3, <4>1
      <4> QED BY <4>2 DEF Keeps
    <3>5. P(g, n)
      <4>1. [k \in 0 .. n |-> Keeps(s, f, k)] = [k \in 0 .. n |-> Keeps(s, g, k)]
        <5> HIDE DEF g
        <5> QED BY <3>4
      <4> QED BY <4>1
    <3> HIDE DEF g, P
    <3> QED BY <2>1, <3>5
  <2> QED BY <2>2, <2>3
<1>2. \E f : f = [n \in 0 .. Len(s) |-> Keeps(s, f, n)]
  BY <1>1
<1> DEFINE kept == CHOOSE f : f = [n \in 0 .. Len(s) |-> Keeps(s, f, n)]
<1>3. kept = [n \in 0 .. Len(s) |-> Keeps(s, kept, n)]
  BY <1>2
<1>4. dedup(s) = kept[Len(s)]
  BY DEF dedup, Keeps
<1> HIDE DEF kept
<1> QED BY <1>3, <1>4

(* dedup gives every name there is, once. *)
LEMMA DedupFacts ==
    ASSUME NEW s, s \in Seq(ToSet(s))
    PROVE  /\ ToSet(dedup(s)) = ToSet(s) \ {NoName}
           /\ Len(dedup(s)) = Cardinality(ToSet(dedup(s)))
<1> DEFINE N == Len(s)
<1>0. N \in Nat /\ DOMAIN s = 1 .. N
  OBVIOUS
<1>1. PICK kept : kept = [n \in 0 .. N |-> Keeps(s, kept, n)] /\ dedup(s) = kept[N]
  BY <1>0, DedupDef
<1> DEFINE Q(n) == /\ kept[n] \in Seq(ToSet(kept[n]))
                   /\ ToSet(kept[n]) = {s[i] : i \in 1 .. n} \ {NoName}
                   /\ IsFiniteSet(ToSet(kept[n]))
                   /\ Len(kept[n]) = Cardinality(ToSet(kept[n]))
<1>2. \A n \in 0 .. N : Q(n)
  <2> DEFINE T == {n \in 0 .. N : ~Q(n)}
  <2> HIDE DEF Q, N
  <2> SUFFICES ASSUME T # {} PROVE FALSE
    OBVIOUS
  <2>0. T \in SUBSET Nat
    BY <1>0
  <2>1. PICK n \in T : \A m \in T : n <= m
    BY <2>0, LeastNumber
  <2>2. n \in 0 .. N /\ ~Q(n) /\ kept[n] = Keeps(s, kept, n)
    BY <1>1, <2>1
  <2>3. CASE n = 0
    <3>1. kept[n] = <<>>
      BY <2>2, <2>3 DEF Keeps
    <3>2. ToSet(<<>>) = {} /\ <<>> \in Seq({}) /\ Len(<<>>) = 0 /\ {s[i] : i \in 1 .. 0} = {}
      BY DEF ToSet
    <3>3. Q(n)
      BY <2>3, <3>1, <3>2, FS_EmptySet DEF Q
    <3> QED BY <2>2, <3>3
  <2>4. CASE n # 0
    <3>1. n - 1 \in 0 .. N /\ n - 1 \notin T /\ 1 .. n = (1 .. n - 1) \cup {n}
      BY <1>0, <2>1, <2>2, <2>4
    <3>2. Q(n - 1)
      BY <3>1
    <3> DEFINE k == kept[n - 1]
               x == s[n]
    <3>3. {s[i] : i \in 1 .. n} = {s[i] : i \in 1 .. n - 1} \cup {x}
      BY <3>1
    <3>4. CASE x \in {NoName} \cup ToSet(k)
      <4>1. kept[n] = k
        BY <2>2, <2>4, <3>4 DEF Keeps
      <4>2. {s[i] : i \in 1 .. n} \ {NoName} = {s[i] : i \in 1 .. n - 1} \ {NoName}
        BY <3>2, <3>3, <3>4 DEF Q
      <4>3. Q(n)
        BY <3>2, <4>1, <4>2 DEF Q
      <4> QED BY <2>2, <4>3
    <3>5. CASE x \notin {NoName} \cup ToSet(k)
      <4>1. kept[n] = Append(k, x)
        BY <2>2, <2>4, <3>5 DEF Keeps
      <4>2. k \in Seq(ToSet(k)) /\ ToSet(k) = {s[i] : i \in 1 .. n - 1} \ {NoName}
            /\ IsFiniteSet(ToSet(k)) /\ Len(k) = Cardinality(ToSet(k))
        BY <3>2 DEF Q
      <4> HIDE DEF k, x
      <4>3. Append(k, x) \in Seq(ToSet(Append(k, x))) /\ ToSet(Append(k, x)) = ToSet(k) \cup {x}
        BY <4>2, AppendSet
      <4>4. IsFiniteSet(ToSet(k) \cup {x}) /\ Cardinality(ToSet(k) \cup {x}) = Cardinality(ToSet(k)) + 1
        BY <3>5, <4>2, FS_AddElement
      <4>5. Len(Append(k, x)) = Len(k) + 1
        BY <4>2
      <4>6. ToSet(k) \cup {x} = {s[i] : i \in 1 .. n} \ {NoName}
        BY <3>3, <3>5, <4>2
      <4>7. Q(n)
        BY <4>1, <4>2, <4>3, <4>4, <4>5, <4>6 DEF Q
      <4> QED BY <2>2, <4>7
    <3> QED BY <3>4, <3>5
  <2> QED BY <2>3, <2>4
<1>3. Q(N)
  <2> HIDE DEF Q
  <2> QED BY <1>0, <1>2
<1>4. ToSet(s) = {s[i] : i \in 1 .. N}
  BY <1>0 DEF ToSet
<1> QED BY <1>1, <1>3, <1>4

(* No HostName of the file contains a star: on one that does, the loop takes the star of a pattern
   for that character and the recursion does not. *)
PlainNames ==
    \A l \in Lines : l.kind = "hostname" /\ l.args # <<>> => \A i \in DOMAIN l.args[1] : l.args[1][i] # "*"

(* At the end of the file the targets are the hosts of the blocks. *)
LEMMA TargetsAtEnd ==
    ASSUME ReadInv, EndOfFile
    PROVE  ToSet(targets') = BlockHosts(lines) /\ Len(targets') = Cardinality(ToSet(targets'))
<1> DEFINE all == Close(blocks, current)
           hs == [i \in DOMAIN all |-> host_of(all[i])]
<1>1. all \in Seq(ToSet(all)) /\ ToSet(all) = {Block(lines, i) : i \in Heads(lines)}
  BY CloseFacts
<1>2. targets' = dedup(hs)
  BY DEF EndOfFile
<1> HIDE DEF all
<1>3. DOMAIN all = 1 .. Len(all) /\ Len(all) \in Nat
  BY <1>1
<1>4. DOMAIN hs = 1 .. Len(all) /\ \A i \in 1 .. Len(all) : hs[i] = host_of(all[i])
  BY <1>3
<1>5. hs \in Seq(ToSet(hs))
  <2>1. \A i \in 1 .. Len(all) : hs[i] \in ToSet(hs)
    BY <1>4 DEF ToSet
  <2>2. hs = [i \in 1 .. Len(all) |-> hs[i]]
    BY <1>3
  <2> HIDE DEF hs
  <2> QED BY <1>3, <2>1, <2>2
<1>6. ToSet(hs) = {host_of(b) : b \in ToSet(all)}
  <2> HIDE DEF hs
  <2> QED BY <1>3, <1>4 DEF ToSet
<1>7. ToSet(hs) = {host_of(Block(lines, i)) : i \in Heads(lines)}
  <2> HIDE DEF hs
  <2> QED BY <1>1, <1>6
<1>8. BlockHosts(lines) = ToSet(hs) \ {NoName}
  <2> HIDE DEF hs
  <2> QED BY <1>7, HostsOfBlocks DEF ReadInv
<1>9. ToSet(dedup(hs)) = ToSet(hs) \ {NoName} /\ Len(dedup(hs)) = Cardinality(ToSet(dedup(hs)))
  <2> HIDE DEF hs
  <2> QED BY <1>5, DedupFacts
<1> QED BY <1>2, <1>8, <1>9

(* The hosts to scan are names, without a star. *)
LEMMA HostsArePlain ==
    ASSUME PlainNames, NEW ls \in Seq(Lines), NEW h \in BlockHosts(ls)
    PROVE  h \in Seq(STRING) /\ \A i \in 1 .. Len(h) : h[i] # "*"
<1>1. PICK i \in Heads(ls) : h = host_of(Block(ls, i)) /\ h # NoName
  BY HostsOfBlocks
<1> DEFINE b == Block(ls, i)
           wanted == {j \in DOMAIN b.aliases : asked_for(b.aliases[j])}
           alias == b.aliases[Min(wanted)]
<1>2. /\ wanted # {}
      /\ h = IF b.host_name # NoName THEN b.host_name ELSE IF is_glob(alias) THEN NoName ELSE alias
  BY <1>1 DEF host_of
<1>3. ls[i] \in Lines /\ DOMAIN ls = 1 .. Len(ls) /\ Len(ls) \in Nat /\ i \in 1 .. Len(ls)
  BY DEF Heads
<1>4. CASE b.host_name # NoName
  <2>1. Named(ls, i) # {} /\ b.host_name = ls[Min(Named(ls, i))].args[1]
    BY <1>4 DEF Block
  <2>2. Min(Named(ls, i)) \in Named(ls, i)
    <3>1. Named(ls, i) \in SUBSET Nat
      BY <1>3 DEF Named
    <3> QED BY <2>1, <3>1, MinFacts
  <2> DEFINE l == ls[Min(Named(ls, i))]
  <2>3. l \in Lines /\ l.kind = "hostname" /\ l.args # <<>>
    BY <1>3, <2>2 DEF Named
  <2> HIDE DEF l
  <2>4. l.args[1] \in Seq(STRING)
    BY <2>3, LinesAssumption DEF Word
  <2>5. \A k \in DOMAIN l.args[1] : l.args[1][k] # "*"
    BY <2>3 DEF PlainNames
  <2>6. h = l.args[1]
    BY <1>2, <1>4, <2>1 DEF l
  <2> QED BY <2>4, <2>5, <2>6
<1>5. CASE b.host_name = NoName
  <2>1. h = alias /\ ~is_glob(alias)
    BY <1>1, <1>2, <1>5
  <2>2. b.aliases = ls[i].args
    BY DEF Block
  <2>3. ls[i].args \in Seq(Word)
    BY <1>3, LinesAssumption
  <2>4. wanted \in SUBSET Nat /\ Min(wanted) \in wanted
    <3>1. wanted \in SUBSET Nat
      BY <2>2, <2>3
    <3> HIDE DEF wanted
    <3> QED BY <1>2, <3>1, MinFacts
  <2>5. alias \in Word
    <3>1. Min(wanted) \in DOMAIN b.aliases
      BY <2>4
    <3> HIDE DEF wanted
    <3> QED BY <2>2, <2>3, <3>1
  <2> HIDE DEF alias
  <2> QED BY <2>1, <2>5 DEF Word, is_glob
<1> QED BY <1>4, <1>5

(* Short sequences, and two put together. *)
LEMMA OneName ==
    ASSUME NEW S, NEW x \in S
    PROVE  <<x>> \in Seq(S) /\ Len(<<x>>) = 1 /\ <<x>>[1] = x
  OBVIOUS
LEMMA ThreeNames ==
    ASSUME NEW S, NEW x \in S, NEW y \in S, NEW z \in S
    PROVE  /\ <<x, y, z>> \in Seq(S) /\ Len(<<x, y, z>>) = 3
           /\ <<x, y, z>>[1] = x /\ <<x, y, z>>[2] = y /\ <<x, y, z>>[3] = z
  OBVIOUS
LEMMA ConcatPlain ==
    ASSUME NEW S, NEW x \in Seq(S), NEW y \in Seq(S),
           \A i \in 1 .. Len(x) : x[i] # "*", \A i \in 1 .. Len(y) : y[i] # "*"
    PROVE  x \o y \in Seq(S) /\ \A i \in 1 .. Len(x \o y) : (x \o y)[i] # "*"
<1> DEFINE z == x \o y
<1>1. /\ z \in Seq(S) /\ Len(z) = Len(x) + Len(y) /\ Len(x) \in Nat /\ Len(y) \in Nat
      /\ \A i \in 1 .. Len(x) + Len(y) : z[i] = IF i <= Len(x) THEN x[i] ELSE y[i - Len(x)]
  OBVIOUS
<1> HIDE DEF z
<1>2. \A i \in 1 .. Len(z) : i <= Len(x) => i \in 1 .. Len(x)
  BY <1>1
<1>3. \A i \in 1 .. Len(z) : ~(i <= Len(x)) => i - Len(x) \in 1 .. Len(y)
  BY <1>1
<1>4. \A i \in 1 .. Len(z) : z[i] # "*"
  BY <1>1, <1>2, <1>3
<1> QED BY <1>1, <1>4 DEF z

(* The name that known_hosts is asked for is as plain as the host. *)
LEMMA CandidatesArePlain ==
    ASSUME NEW h \in Seq(STRING), \A i \in 1 .. Len(h) : h[i] # "*"
    PROVE  LET n == host_candidates(h, Port) IN Len(n) \in Nat /\ \A i \in 1 .. Len(n) : n[i] # "*"
<1>0. Port \in STRING /\ Port # "*"
  BY NamesAssumption
<1>1. CASE Port = "22"
  BY <1>1 DEF host_candidates
<1>2. CASE Port # "22"
  <2> DEFINE S == STRING \cup {"[", "]", ":"}
             a == <<"[">>
             z == <<"]", ":", Port>>
  <2>1. a \in Seq(S) /\ Len(a) = 1 /\ a[1] = "["
    <3>1. "[" \in S
      OBVIOUS
    <3> QED BY <3>1, OneName, Zenon
  <2>2. z \in Seq(S) /\ Len(z) = 3 /\ z[1] = "]" /\ z[2] = ":" /\ z[3] = Port
    <3>1. "]" \in S /\ ":" \in S /\ Port \in S
      BY <1>0
    <3> QED BY <3>1, ThreeNames, Zenon
  <2>h. h \in Seq(S)
    OBVIOUS
  <2> HIDE DEF S, a, z
  <2>3. /\ \A i \in 1 .. Len(a) : a[i] # "*"
        /\ \A i \in 1 .. Len(z) : i = 1 \/ i = 2 \/ i = 3
    BY <2>1, <2>2
  <2>4. \A i \in 1 .. Len(z) : z[i] # "*"
    BY <1>0, <2>2, <2>3
  <2>5. a \o h \in Seq(S) /\ \A i \in 1 .. Len(a \o h) : (a \o h)[i] # "*"
    BY <2>1, <2>3, <2>h, ConcatPlain
  <2>6. (a \o h) \o z \in Seq(S) /\ \A i \in 1 .. Len((a \o h) \o z) : ((a \o h) \o z)[i] # "*"
    BY <2>2, <2>4, <2>5, ConcatPlain
  <2>7. host_candidates(h, Port) = (a \o h) \o z
    BY <1>2 DEF host_candidates, a, z
  <2> QED BY <2>6, <2>7
<1> QED BY <1>1, <1>2

(* TargetsAreNamed: extract_hosts gives exactly the hosts of the blocks asked for, each once, for
   every file, and on every one of them the two glob matchers decide alike. *)
THEOREM TargetsNamed == ASSUME PlainNames PROVE Spec => TargetsAreNamed
<1>1. ReadInv /\ [Next]_vars =>
        [reading /\ ~reading' => /\ ToSet(targets') = BlockHosts(lines)
                                 /\ Len(targets') = Cardinality(ToSet(targets'))]_vars
  <2> SUFFICES ASSUME ReadInv, [Next]_vars, reading, ~reading'
               PROVE  /\ ToSet(targets') = BlockHosts(lines)
                      /\ Len(targets') = Cardinality(ToSet(targets'))
    OBVIOUS
  <2>1. EndOfFile
    BY DEF Next, vars, ReadConfig, ReadLine, Connection, New, NewFails, CheckServerKey, Pin, PinFails,
           PinTorn, Again, configVars
  <2> QED BY <2>1, TargetsAtEnd
<1>2. ReadInv /\ [Next]_vars =>
        [\A p \in Patterns : \A h \in ToSet(targets') \ ToSet(targets) :
            LET n == host_candidates(h, Port) IN known_hosts_glob(p, n) <=> glob_match(p, n)]_vars
  <2> SUFFICES ASSUME ReadInv, [Next]_vars, NEW p \in Patterns, NEW h \in ToSet(targets') \ ToSet(targets)
               PROVE  known_hosts_glob(p, host_candidates(h, Port)) <=> glob_match(p, host_candidates(h, Port))
    OBVIOUS
  <2>1. EndOfFile
    <3>1. targets' # targets
      OBVIOUS
    <3> QED BY <3>1 DEF Next, vars, ReadConfig, ReadLine, Connection, New, NewFails, CheckServerKey, Pin,
           PinFails, PinTorn, Again, configVars
  <2>2. h \in BlockHosts(lines) /\ lines \in Seq(Lines)
    BY <2>1, TargetsAtEnd DEF ReadInv
  <2>3. h \in Seq(STRING) /\ \A i \in 1 .. Len(h) : h[i] # "*"
    BY <2>2, HostsArePlain
  <2> DEFINE n == host_candidates(h, Port)
  <2>4. Len(n) \in Nat /\ \A i \in 1 .. Len(n) : n[i] # "*"
    BY <2>3, CandidatesArePlain
  <2>5. Len(p) \in Nat
    BY NamesAssumption
  <2> HIDE DEF n
  <2>6. known_hosts_glob(p, n) <=> glob_match(p, n)
    BY <2>4, <2>5, MatchersAgree
  <2> QED BY <2>6 DEF n
<1> QED BY <1>1, <1>2, ReadInvariance, PTL DEF Spec, TargetsAreNamed, TargetsAreTheBlocks, GlobsAgree
===============================================================================
