---------------------------- MODULE SilenceProofs -----------------------------
(***************************************************************************)
(* A silent report is complete (SilentMeansComplete), for any machines,    *)
(* any limits of the scanners and any interleaving of the tasks.           *)
(*                                                                         *)
(* HeldInvariance of LocalScanProofs gives one half: behind a silent       *)
(* report every scanner of every task ran to its end without a warning.    *)
(* The other half is about each scanner as a function of the machine: one  *)
(* that warns of nothing finds the same on the ideal machine, where every  *)
(* file opens and is read to its end.                                      *)
(***************************************************************************)
EXTENDS LocalScanProofs

-------------------------------------------------------------------------------
(* The ideal machine, and the reads that are the same on it. *)

(* The same machine with nothing in the way.  Where failures are passed over, and cuts. *)
PassedOver(h) == AccessSilent(h).errors \cup PersistenceSilent(h).errors \cup InventorySilent(h).errors
                 \cup NamespaceSilent.errors
CutUnsaid(h) == AccessSilent(h).cuts \cup PersistenceSilent(h).cuts \cup InventorySilent(h).cuts
                \cup NamespaceSilent.cuts

(* The machine as it would be read without the errors that scanners pass over. *)
LEMMA IdealDef == ASSUME NEW h PROVE ideal(h) = unhindered(h, PassedOver(h), CutUnsaid(h))
<1> DEFINE a == AccessSilent(h)
           b == PersistenceSilent(h)
           c == InventorySilent(h)
           d == NamespaceSilent
           quiet == {a, b, c, d}
<1>1. ideal(h) = unhindered(h, UNION {q.errors : q \in quiet}, UNION {q.cuts : q \in quiet})
  BY Zenon DEF ideal
<1>2. PassedOver(h) = a.errors \cup b.errors \cup c.errors \cup d.errors
      /\ CutUnsaid(h) = a.cuts \cup b.cuts \cup c.cuts \cup d.cuts
  BY DEF PassedOver, CutUnsaid
<1> HIDE DEF a, b, c, d
<1>3. UNION {q.errors : q \in quiet} = a.errors \cup b.errors \cup c.errors \cup d.errors
  OBVIOUS
<1>4. UNION {q.cuts : q \in quiet} = a.cuts \cup b.cuts \cup c.cuts \cup d.cuts
  OBVIOUS
<1> HIDE DEF quiet
<1> QED BY <1>1, <1>2, <1>3, <1>4

(* The ideal machine differs in its files and caps only. *)
LEMMA IdealFields ==
    ASSUME NEW h, Machine(h)
    PROVE  /\ ideal(h).file = [p \in DOMAIN h.file |-> Freed(h, PassedOver(h), p)]
           /\ ideal(h).cap = [p \in DOMAIN h.file |-> Uncapped(h, CutUnsaid(h), p)]
           /\ \A x \in Fields \ {"file", "cap"} : ideal(h)[x] = h[x]
<1> DEFINE E == PassedOver(h)
           C == CutUnsaid(h)
<1> HIDE DEF E, C
<1>1. /\ unhindered(h, E, C).file = [p \in DOMAIN h.file |-> Freed(h, E, p)]
      /\ unhindered(h, E, C).cap = [p \in DOMAIN h.file |-> Uncapped(h, C, p)]
      /\ unhindered(h, E, C) = [x \in Fields |-> unhindered(h, E, C)[x]]
      /\ \A x \in Fields \ {"file", "cap"} : unhindered(h, E, C)[x] = h[x]
  BY UnhinderedFields
<1>2. ideal(h) = unhindered(h, E, C)
  BY IdealDef DEF E, C
<1> QED BY <1>1, <1>2 DEF E, C

(* What is not a file is the same on the ideal machine. *)
LEMMA IdealRest ==
    ASSUME NEW h, Machine(h)
    PROVE  LET u == ideal(h) IN
           /\ u.dir = h.dir /\ u.link = h.link /\ u.sshd = h.sshd /\ u.keys = h.keys
           /\ u.sysctl = h.sysctl /\ u.volatile = h.volatile /\ u.proc = h.proc
           /\ u.pam_dirs = h.pam_dirs /\ u.vendor = h.vendor /\ u.deep = h.deep
           /\ u.other_fs = h.other_fs /\ u.inode = h.inode /\ u.locked = h.locked
           /\ u.systemctl = h.systemctl /\ u.runtimes = h.runtimes /\ u.sockets = h.sockets
           /\ u.proc_net = h.proc_net /\ u.host_ns = h.host_ns /\ u.firewall = h.firewall
           /\ u.days = h.days /\ u.busy = h.busy
<1>1. \A x \in Fields \ {"file", "cap"} : ideal(h)[x] = h[x]
  BY IdealFields
<1> QED BY <1>1 DEF Fields

(* The files of the ideal machine. *)
LEMMA IdealFiles ==
    ASSUME NEW h, Machine(h)
    PROVE  /\ DOMAIN ideal(h).file = DOMAIN h.file
           /\ \A p \in DOMAIN h.file :
                 /\ ideal(h).file[p].kind = h.file[p].kind
                 /\ ideal(h).file[p].lines = h.file[p].lines
                 /\ ideal(h).file[p].children = h.file[p].children
                 /\ ideal(h).file[p].unsafe = h.file[p].unsafe
<1> DEFINE E == PassedOver(h)
<1> HIDE DEF E
<1>1. ideal(h).file = [p \in DOMAIN h.file |-> Freed(h, E, p)]
  <2>1. /\ ideal(h).file = [p \in DOMAIN h.file |-> Freed(h, PassedOver(h), p)]
        /\ ideal(h).cap = [p \in DOMAIN h.file |-> Uncapped(h, CutUnsaid(h), p)]
        /\ \A x \in Fields \ {"file", "cap"} : ideal(h)[x] = h[x]
    BY IdealFields
  <2> QED BY <2>1 DEF E
<1>2. ASSUME NEW p \in DOMAIN h.file
      PROVE  /\ Freed(h, E, p).kind = h.file[p].kind /\ Freed(h, E, p).lines = h.file[p].lines
             /\ Freed(h, E, p).children = h.file[p].children /\ Freed(h, E, p).unsafe = h.file[p].unsafe
  BY FreedFacts
<1> QED BY <1>1, <1>2

(* A file that opens and is whole is the same on the ideal machine. *)
LEMMA IdealOpen ==
    ASSUME NEW h, Machine(h), NEW p \in DOMAIN h.file
    PROVE  /\ ideal(h).file[p].open <=> (p \in PassedOver(h) => h.file[p].open)
           /\ ideal(h).file[p].open \in BOOLEAN
           /\ ideal(h).cap[p] = Uncapped(h, CutUnsaid(h), p)
<1> DEFINE E == PassedOver(h)
           C == CutUnsaid(h)
<1> HIDE DEF E, C
<1>1. /\ ideal(h).file = [q \in DOMAIN h.file |-> Freed(h, E, q)]
      /\ ideal(h).cap = [q \in DOMAIN h.file |-> Uncapped(h, C, q)]
  <2>1. /\ ideal(h).file = [q \in DOMAIN h.file |-> Freed(h, PassedOver(h), q)]
        /\ ideal(h).cap = [q \in DOMAIN h.file |-> Uncapped(h, CutUnsaid(h), q)]
        /\ \A x \in Fields \ {"file", "cap"} : ideal(h)[x] = h[x]
    BY IdealFields
  <2> QED BY <2>1 DEF E, C
<1>2. ideal(h).file[p] = Freed(h, E, p) /\ ideal(h).cap[p] = Uncapped(h, C, p)
  BY <1>1
<1>3. /\ Freed(h, E, p).open <=> (p \in E => h.file[p].open)
      /\ Freed(h, E, p).open \in BOOLEAN
  BY FreedFacts
<1> QED BY <1>2, <1>3 DEF E, C

(* The same paths are there, directories and files. *)
LEMMA IdealPaths ==
    ASSUME NEW h, Machine(h), NEW p
    PROVE  /\ exists(ideal(h), p) <=> exists(h, p)
           /\ is_dir(ideal(h), p) <=> is_dir(h, p)
           /\ is_file(ideal(h), p) <=> is_file(h, p)
           /\ children(ideal(h), p) = children(h, p)
<1>1. /\ DOMAIN ideal(h).file = DOMAIN h.file
      /\ \A q \in DOMAIN h.file :
            /\ ideal(h).file[q].kind = h.file[q].kind
            /\ ideal(h).file[q].lines = h.file[q].lines
            /\ ideal(h).file[q].children = h.file[q].children
            /\ ideal(h).file[q].unsafe = h.file[q].unsafe
  BY IdealFiles
<1>2. (exists(ideal(h), p) <=> exists(h, p)) /\ (exists(h, p) <=> p \in DOMAIN h.file)
  BY <1>1 DEF exists
<1>3. (is_dir(ideal(h), p) <=> is_dir(h, p)) /\ (is_file(ideal(h), p) <=> is_file(h, p))
  BY <1>1, <1>2 DEF is_dir, is_file
<1>4. is_dir(h, p) => p \in DOMAIN h.file
  BY <1>2 DEF is_dir
<1>5. children(ideal(h), p) = children(h, p)
  BY <1>1, <1>3, <1>4 DEF children
<1> QED BY <1>2, <1>3, <1>5

(* A directory shows the same entries, if it could be listed or passing over it is no news. *)
LEMMA IdealEntries ==
    ASSUME NEW h, Machine(h), NEW d, is_dir(h, d) /\ ~listable(h, d) => d \in PassedOver(h)
    PROVE  /\ dir_entries(ideal(h), d) = dir_entries(h, d)
           /\ listable(ideal(h), d) <=> listable(h, d)
<1>1. (is_dir(ideal(h), d) <=> is_dir(h, d)) /\ children(ideal(h), d) = children(h, d)
  BY IdealPaths
<1>2. is_dir(h, d) => d \in DOMAIN h.file
  BY DEF is_dir, exists
<1>3. is_dir(h, d) => (ideal(h).file[d].open <=> (d \in PassedOver(h) => h.file[d].open))
  BY <1>2, IdealOpen
<1>4. listable(ideal(h), d) <=> listable(h, d)
  BY <1>1, <1>3 DEF listable
<1> QED BY <1>1, <1>4 DEF dir_entries

(* Who may write where. *)
LEMMA IdealWritable ==
    ASSUME NEW h, Machine(h), NEW p
    PROVE  /\ hidden_by_dir(ideal(h), p) <=> hidden_by_dir(h, p)
           /\ unsafe_dir(ideal(h), p) <=> unsafe_dir(h, p)
           /\ assess_writability(ideal(h), p) = assess_writability(h, p)
           /\ canonical(ideal(h), p) = canonical(h, p)
<1>1. ideal(h).dir = h.dir /\ ideal(h).link = h.link
  BY IdealRest
<1>2. \A q : exists(ideal(h), q) <=> exists(h, q)
  BY IdealPaths
<1>3. \A q \in DOMAIN h.dir : h.dir[q] \in PassedOver(h)
  BY DEF PassedOver, PersistenceSilent
<1>4. \A q : exists(h, q) <=> q \in DOMAIN h.file
  BY DEF exists
<1>5. \A q \in DOMAIN h.file : (ideal(h).file[q].open <=> (q \in PassedOver(h) => h.file[q].open))
  BY IdealOpen
<1>6. hidden_by_dir(ideal(h), p) <=> hidden_by_dir(h, p)
  BY <1>1, <1>2, <1>3, <1>4, <1>5 DEF hidden_by_dir
<1>7. \A q \in DOMAIN h.file : /\ ideal(h).file[q].kind = h.file[q].kind
                               /\ ideal(h).file[q].lines = h.file[q].lines
                               /\ ideal(h).file[q].children = h.file[q].children
                               /\ ideal(h).file[q].unsafe = h.file[q].unsafe
  BY IdealFiles
<1>8. unsafe_dir(ideal(h), p) <=> unsafe_dir(h, p)
  BY <1>1, <1>2, <1>4, <1>7 DEF unsafe_dir
<1>9. assess_writability(ideal(h), p) = assess_writability(h, p)
  <2>1. CASE exists(h, p)
    BY <1>2, <1>4, <1>6, <1>7, <1>8, <2>1 DEF assess_writability
  <2>2. CASE ~exists(h, p)
    BY <1>2, <1>6, <2>2 DEF assess_writability
  <2> QED BY <2>1, <2>2
<1>10. canonical(ideal(h), p) = canonical(h, p)
  BY <1>1 DEF canonical
<1> QED BY <1>6, <1>8, <1>9, <1>10

(* A file reads the same, if it could be read to its end or passing over it is no news. *)
LEMMA IdealProcfs ==
    ASSUME NEW h, Machine(h), NEW p,
           read_procfs_capped(h, p).err = "PermissionDenied" => p \in PassedOver(h),
           read_procfs_capped(h, p).truncated => p \in CutUnsaid(h)
    PROVE  read_procfs_capped(ideal(h), p) = read_procfs_capped(h, p)
<1> DEFINE u == ideal(h)
           lines == h.file[p].lines
           n == h.cap[p]
           m == u.cap[p]
<1>0. exists(u, p) <=> exists(h, p)
  BY IdealPaths
<1>1. CASE ~exists(h, p)
  BY <1>0, <1>1 DEF read_procfs_capped
<1>2. CASE exists(h, p) /\ ~h.file[p].open
  <2>1. read_procfs_capped(h, p) = Result("PermissionDenied", <<>>, FALSE)
    BY <1>2 DEF read_procfs_capped
  <2>2. p \in PassedOver(h) /\ p \in DOMAIN h.file
    BY <1>2, <2>1 DEF Result, exists
  <2>3. ~u.file[p].open
    BY <1>2, <2>2, IdealOpen
  <2> QED BY <1>0, <1>2, <2>1, <2>3 DEF read_procfs_capped
<1>3. CASE exists(h, p) /\ h.file[p].open
  <2>1. p \in DOMAIN h.file
    BY <1>3 DEF exists
  <2>2. u.file[p].open /\ m = Uncapped(h, CutUnsaid(h), p)
    BY <1>3, <2>1, IdealOpen
  <2>3. u.file[p].lines = lines
    BY <2>1, IdealFiles
  <2>4. lines \in Seq(ToSet(lines)) /\ n \in Nat
    BY <2>1 DEF Machine, File
  <2> HIDE DEF u, n, m, lines
  <2>5. Len(lines) \in Nat
    BY <2>4
  <2>6. read_procfs_capped(h, p) = Result("none", SubSeq(lines, 1, Min({n, Len(lines)})), Len(lines) > n)
    BY <1>3, Zenon DEF read_procfs_capped, lines, n
  <2>7. read_procfs_capped(u, p) = Result("none", SubSeq(lines, 1, Min({m, Len(lines)})), Len(lines) > m)
    <3>1. read_procfs_capped(u, p) = Result("none", SubSeq(u.file[p].lines, 1, Min({m, Len(u.file[p].lines)})),
                                            Len(u.file[p].lines) > m)
      BY <1>0, <1>3, <2>2, Zenon DEF read_procfs_capped, m, u
    <3> QED BY <2>3, <3>1, Zenon
  <2>8. CASE p \in CutUnsaid(h)
    <3>1. m = n
      BY <2>2, <2>8 DEF Uncapped, n
    <3> QED BY <2>6, <2>7, <3>1, Zenon DEF u
  <2>9. CASE p \notin CutUnsaid(h)
    <3>1. m = Len(lines)
      BY <2>2, <2>9 DEF Uncapped, lines
    <3>2. ~(Len(lines) > n)
      <4> SUFFICES ASSUME Len(lines) > n PROVE FALSE
        OBVIOUS
      <4>1. (Len(lines) > n) = TRUE
        BY <2>4, <2>5
      <4>2. read_procfs_capped(h, p) = Result("none", SubSeq(lines, 1, Min({n, Len(lines)})), TRUE)
        BY <2>6, <4>1, Zenon
      <4>3. read_procfs_capped(h, p).truncated
        BY <4>2 DEF Result
      <4> QED BY <2>9, <4>3
    <3>3. Min({n, Len(lines)}) = Len(lines) /\ Min({m, Len(lines)}) = Len(lines)
      <4>1. ASSUME NEW a \in Nat, a >= Len(lines) PROVE Min({a, Len(lines)}) = Len(lines)
        <5>1. {a, Len(lines)} \in SUBSET Nat /\ {a, Len(lines)} # {}
          BY <2>5
        <5>2. Min({a, Len(lines)}) \in {a, Len(lines)} /\ \A y \in {a, Len(lines)} : Min({a, Len(lines)}) <= y
          BY <5>1, MinFacts
        <5> QED BY <2>5, <4>1, <5>2
      <4>2. n >= Len(lines) /\ m >= Len(lines) /\ m \in Nat
        BY <2>4, <2>5, <3>1, <3>2
      <4> QED BY <2>4, <4>1, <4>2
    <3>4. (Len(lines) > n) = FALSE /\ (Len(lines) > m) = FALSE
      BY <2>5, <3>1, <3>2
    <3> QED BY <2>6, <2>7, <3>3, <3>4, Zenon DEF u
  <2> QED BY <2>8, <2>9
<1> QED BY <1>1, <1>2, <1>3

(* The same with what a scanner does about its read: a note for what was not read. *)
LEMMA SameProcfs ==
    ASSUME NEW h, Machine(h), NEW p, NEW noted,
           Notes(p, read_procfs_capped(h, p), noted) = {},
           "PermissionDenied" \in noted \/ p \in PassedOver(h)
    PROVE  read_procfs_capped(ideal(h), p) = read_procfs_capped(h, p)
<1> DEFINE r == read_procfs_capped(h, p)
<1>1. (r.err \in noted => FALSE) /\ ~r.truncated
  <2> HIDE DEF r
  <2>1. Notes(p, r, noted) = {}
    BY DEF r
  <2> QED BY <2>1 DEF Notes
<1> HIDE DEF r
<1>2. (r.err = "PermissionDenied" => p \in PassedOver(h)) /\ (r.truncated => p \in CutUnsaid(h))
  BY <1>1
<1> QED BY <1>2, IdealProcfs DEF r

(* A regular file. *)
LEMMA SameRegular ==
    ASSUME NEW h, Machine(h), NEW p, NEW noted,
           Notes(p, read_file_capped_regular(h, p), noted) = {},
           "PermissionDenied" \in noted \/ p \in PassedOver(h)
    PROVE  read_file_capped_regular(ideal(h), p) = read_file_capped_regular(h, p)
<1> DEFINE r == read_procfs_capped(h, p)
           q == read_procfs_capped(ideal(h), p)
<1>0. is_file(ideal(h), p) <=> is_file(h, p)
  BY IdealPaths
<1>1. /\ read_file_capped_regular(h, p) =
            IF r.err = "none" /\ ~is_file(h, p) THEN Result("InvalidData", <<>>, FALSE) ELSE r
      /\ read_file_capped_regular(ideal(h), p) =
            IF q.err = "none" /\ ~is_file(ideal(h), p) THEN Result("InvalidData", <<>>, FALSE) ELSE q
  BY DEF read_file_capped_regular
<1>2. CASE ~(r.err = "none" /\ ~is_file(h, p))
  <2> HIDE DEF r, q
  <2>1. read_file_capped_regular(h, p) = r
    BY <1>1, <1>2
  <2>2. Notes(p, r, noted) = {}
    BY <2>1
  <2>3. q = r
    BY <2>2, SameProcfs DEF q, r
  <2> QED BY <1>0, <1>1, <1>2, <2>1, <2>3
<1>3. CASE r.err = "none" /\ ~is_file(h, p)
  <2>1. exists(h, p) /\ h.file[p].open
    BY <1>3 DEF read_procfs_capped, Result
  <2>2. exists(ideal(h), p) /\ ideal(h).file[p].open
    BY <2>1, IdealPaths, IdealOpen DEF exists
  <2>3. q.err = "none"
    BY <2>2 DEF read_procfs_capped, Result
  <2> HIDE DEF r, q
  <2> QED BY <1>0, <1>1, <1>3, <2>3
<1> QED BY <1>2, <1>3

-------------------------------------------------------------------------------
(* The scanners, one by one. *)

(* What reads no file. *)
LEMMA SameRest ==
    ASSUME NEW h, Machine(h)
    PROVE  /\ gather_runtime_topology(ideal(h)) = gather_runtime_topology(h)
           /\ scan_mount_namespace_anomalies(ideal(h)) = scan_mount_namespace_anomalies(h)
           /\ scan_systemd_hardening(ideal(h)) = scan_systemd_hardening(h)
           /\ listening_ports(ideal(h)) = listening_ports(h)
           /\ report_foreign_netns_listeners(ideal(h)) = report_foreign_netns_listeners(h)
           /\ firewall(ideal(h)) = firewall(h)
<1> DEFINE u == ideal(h)
<1> HIDE DEF u
<1>1. /\ u.proc = h.proc /\ u.systemctl = h.systemctl /\ u.runtimes = h.runtimes
      /\ u.sockets = h.sockets /\ u.proc_net = h.proc_net /\ u.host_ns = h.host_ns
      /\ u.firewall = h.firewall
  BY IdealRest DEF u
<1>2. live_runtimes(u) = live_runtimes(h) /\ connect(u) = connect(h)
  BY <1>1, Zenon DEF live_runtimes, connect
<1>3. gather_runtime_topology(u) = gather_runtime_topology(h)
  BY <1>1, <1>2, Zenon DEF gather_runtime_topology
<1>4. pids(u) = pids(h) /\ denied(u) = denied(h)
  BY <1>1, Zenon DEF pids, denied
<1>5. scan_mount_namespace_anomalies(u) = scan_mount_namespace_anomalies(h)
  BY <1>1, <1>4, Zenon DEF scan_mount_namespace_anomalies
<1>6. scan_systemd_hardening(u) = scan_systemd_hardening(h)
  BY <1>1, Zenon DEF scan_systemd_hardening
<1>7. \A ns : parse_proc_net(u, ns) = parse_proc_net(h, ns)
  BY <1>1, Zenon DEF parse_proc_net
<1>8. \A wanted : attribute_sockets(u, wanted) = attribute_sockets(h, wanted)
  BY <1>1, <1>4, Zenon DEF attribute_sockets
<1>9. listening_ports(u) = listening_ports(h)
  <2> DEFINE S(x) == IF x.proc_net THEN parse_proc_net(x, x.host_ns) ELSE {}
             owner(owners, proc, s) ==
                IF owners[s] = {} THEN "unknown process" ELSE proc[Min(owners[s])].exe
             F(net, sockets, owners, proc) ==
                Piece({<<"listening_ports", s[2], owner(owners, proc, s)>> :
                          s \in {s \in sockets : \A t \in sockets : t[2] = s[2] => s[1] <= t[1]}},
                      Where(~net, {<<"proc_net", "unreadable">>})
                      \cup Where(\E s \in sockets : owners[s] = {}, {<<"port attribution", "incomplete">>}))
  <2>1. \A x : listening_ports(x) = F(x.proc_net, S(x), attribute_sockets(x, S(x)), x.proc)
    BY Zenon DEF listening_ports
  <2>2. S(u) = S(h)
    BY <1>1, <1>7, Zenon
  <2> HIDE DEF S, F
  <2> QED BY <1>1, <1>8, <2>1, <2>2, Zenon
<1>10. report_foreign_netns_listeners(u) = report_foreign_netns_listeners(h)
  <2> DEFINE seen(x) == {x.proc[p].netns : p \in pids(x) \ denied(x)} \ {x.host_ns}
             inside(x, ns) == {<<"foreign_netns_listeners", ns, s[2]>> : s \in parse_proc_net(x, ns)}
             listed(x, N) == UNION {inside(x, ns) : ns \in N}
             kept(S) == Capped(S, MAX_FOREIGN_NETNS, "netns")
             first(x) == 1 \in denied(x) \/ 1 \notin pids(x)
             F(no, S, D, L) == IF no THEN Piece({}, {<<"netns", "init unreadable">>})
                               ELSE Piece(L, kept(S).warns \cup Where(D # {}, {<<"netns", "PermissionDenied">>}))
  <2>1. \A x : report_foreign_netns_listeners(x) =
                  F(first(x), seen(x), denied(x), listed(x, kept(seen(x)).found))
    BY Zenon DEF report_foreign_netns_listeners
  <2>2. first(u) = first(h) /\ seen(u) = seen(h)
    BY <1>1, <1>4, Zenon
  <2>3. ASSUME NEW N PROVE listed(u, N) = listed(h, N)
    <3>1. \A ns : inside(u, ns) = inside(h, ns)
      BY <1>7, Zenon
    <3> HIDE DEF inside
    <3> QED BY <3>1
  <2> HIDE DEF first, seen, listed, F, kept
  <2> QED BY <1>4, <2>1, <2>2, <2>3, Zenon
<1>11. firewall(u) = firewall(h)
  BY <1>1, Zenon DEF firewall
<1> QED BY <1>3, <1>5, <1>6, <1>9, <1>10, <1>11 DEF u

(* Mounts, the taint, security modules, anchors. *)
LEMMA SameMounts ==
    ASSUME NEW h, Machine(h), scan_mount_masking(h).warns = {}
    PROVE  scan_mount_masking(ideal(h)) = scan_mount_masking(h)
<1> DEFINE r == read_procfs_capped(h, "mountinfo")
           kept(x) == Capped(UNION {classify_line(l) : l \in ToSet(x.lines)}, MAX_MOUNT_FINDINGS, "mountinfo")
           F(x) == Piece(kept(x).found, kept(x).warns \cup Notes("mountinfo", x, AnyError))
<1>1. \A x : scan_mount_masking(x) = F(read_procfs_capped(x, "mountinfo"))
  BY Zenon DEF scan_mount_masking
<1>2. F(r).warns = kept(r).warns \cup Notes("mountinfo", r, AnyError)
  BY PieceFields
<1> HIDE DEF F, kept
<1>3. Notes("mountinfo", r, AnyError) = {}
  BY <1>1, <1>2
<1>4. read_procfs_capped(ideal(h), "mountinfo") = r
  BY <1>3, SameProcfs DEF AnyError
<1> QED BY <1>1, <1>4, Zenon

(* The taint mask is read the same: a mask that does not parse is a warning. *)
LEMMA SameTaint ==
    ASSUME NEW h, Machine(h), gather_kernel_taint(h).warns = {}
    PROVE  gather_kernel_taint(ideal(h)) = gather_kernel_taint(h)
<1> DEFINE r == read_procfs_capped(h, "tainted")
           parsed(x) == x.err = "none" /\ x.lines # <<>> /\ x.lines[1][1] = "bits"
           F(x) == Piece(IF parsed(x) THEN decode_taint(x.lines[1][2]) ELSE {<<"kernel_taint", "unavailable">>},
                         Where(~parsed(x), {<<"tainted", "unknown">>}))
<1>1. \A x : gather_kernel_taint(x) = F(read_procfs_capped(x, "tainted"))
  BY Zenon DEF gather_kernel_taint
<1>2. F(r).warns = Where(~parsed(r), {<<"tainted", "unknown">>})
  BY PieceFields
<1>3. parsed(r)
  <2> HIDE DEF F, parsed, r
  <2>1. Where(~parsed(r), {<<"tainted", "unknown">>}) = {}
    BY <1>1, <1>2 DEF r
  <2> QED BY <2>1 DEF Where
<1>4. "tainted" \in CutUnsaid(h)
  BY DEF CutUnsaid, InventorySilent
<1>5. read_procfs_capped(ideal(h), "tainted") = r
  BY <1>3, <1>4, IdealProcfs
<1> HIDE DEF F
<1> QED BY <1>1, <1>5, Zenon

(* The security modules: what fails to be read is passed over on the ideal machine too. *)
LEMMA SameConfinement ==
    ASSUME NEW h, Machine(h)
    PROVE  gather_confinement(ideal(h)) = gather_confinement(h)
<1> DEFINE u == ideal(h)
<1>1. {"lsm", "selinux_enforce"} \subseteq PassedOver(h) /\ {"lsm", "selinux_enforce"} \subseteq CutUnsaid(h)
  BY DEF CutUnsaid, PassedOver, InventorySilent
<1>2. /\ read_procfs_capped(u, "lsm") = read_procfs_capped(h, "lsm")
      /\ read_procfs_capped(u, "selinux_enforce") = read_procfs_capped(h, "selinux_enforce")
  BY <1>1, IdealProcfs
<1>3. u.proc = h.proc
  BY IdealRest
<1> HIDE DEF u
<1>4. gather_confinement(u) = gather_confinement(h)
  BY <1>2, <1>3, Zenon DEF gather_confinement
<1> QED BY <1>4 DEF u

(* The trust anchors: one that cannot be asked for its attributes is a warning. *)
LEMMA SameAnchors ==
    ASSUME NEW h, Machine(h), scan_immutable_anchors(h).warns = {}
    PROVE  scan_immutable_anchors(ideal(h)).found = scan_immutable_anchors(h).found
<1> DEFINE u == ideal(h)
           anchors(x) == {a \in TRUST_ANCHORS : hidden_by_dir(x, a) \/ exists(x, canonical(x, a))}
           shut(x, a) == hidden_by_dir(x, a) \/ ~x.file[canonical(x, a)].open
           F(x) == {<<"immutable_anchors", a>> :
                        a \in {b \in anchors(x) : ~shut(x, b) /\ canonical(x, b) \in x.locked}}
           W(x) == {<<a, "attributes">> : a \in {b \in anchors(x) : shut(x, b)}}
<1>1. \A x : scan_immutable_anchors(x) = Piece(F(x), W(x))
  BY Zenon DEF scan_immutable_anchors
<1>2. \A x : scan_immutable_anchors(x).found = F(x) /\ scan_immutable_anchors(x).warns = W(x)
  <2> HIDE DEF F, W
  <2> QED BY <1>1, PieceFields
<1>3. \A a \in anchors(h) : ~shut(h, a)
  <2>1. W(h) = {}
    <3> HIDE DEF W
    <3> QED BY <1>2
  <2> HIDE DEF anchors, shut
  <2> QED BY <2>1
<1>4. \A p : hidden_by_dir(u, p) <=> hidden_by_dir(h, p)
  BY IdealWritable
<1>5. \A p : canonical(u, p) = canonical(h, p)
  BY IdealWritable
<1>6. \A p : exists(u, p) <=> exists(h, p)
  BY IdealPaths
<1>7. anchors(u) = anchors(h)
  <2> HIDE DEF u
  <2> QED BY <1>4, <1>5, <1>6
<1>8. ASSUME NEW a \in anchors(h) PROVE ~shut(u, a)
  <2>1. ~hidden_by_dir(h, a) /\ h.file[canonical(h, a)].open
    BY <1>3
  <2>2. canonical(h, a) \in DOMAIN h.file
    BY <2>1 DEF exists
  <2>3. u.file[canonical(h, a)].open
    BY <2>1, <2>2, IdealOpen
  <2> HIDE DEF u
  <2> QED BY <1>4, <1>5, <2>1, <2>3
<1>9. u.locked = h.locked
  BY IdealRest
<1>10. F(u) = F(h)
  <2> HIDE DEF u, anchors, shut
  <2> QED BY <1>3, <1>5, <1>7, <1>8, <1>9
<1> HIDE DEF F
<1> QED BY <1>2, <1>10

(* Where neither an error nor a cut is told of, the read is the same. *)
LEMMA IdealRead ==
    ASSUME NEW h, Machine(h), NEW p \in PassedOver(h) \cap CutUnsaid(h)
    PROVE  /\ read_procfs_capped(ideal(h), p) = read_procfs_capped(h, p)
           /\ read_file_capped_regular(ideal(h), p) = read_file_capped_regular(h, p)
<1>1. read_procfs_capped(ideal(h), p) = read_procfs_capped(h, p)
  BY IdealProcfs
<1>2. is_file(ideal(h), p) <=> is_file(h, p)
  BY IdealPaths
<1>3. read_file_capped_regular(ideal(h), p) = read_file_capped_regular(h, p)
  BY <1>1, <1>2, Zenon DEF read_file_capped_regular
<1> QED BY <1>1, <1>3

(* Name resolution and certificates. *)
LEMMA SameNetwork ==
    ASSUME NEW h, Machine(h), gather_network_info(h).warns = {}
    PROVE  gather_network_info(ideal(h)) = gather_network_info(h)
<1> DEFINE u == ideal(h)
           read(x, p) == read_file_capped_regular(x, p)
           F(x) == {<<"dns_resolvers", r>> : r \in resolvers(x, "resolv.conf")}
                   \cup {<<"custom_host_overrides", l[2]>> : l \in ToSet(read(x, "hosts").lines)}
           W(x) == UNION {Notes(p, read(x, p), ErrorsButMissing) : p \in {"resolv.conf", "hosts"}}
<1>1. \A x : system_files(x) = Piece(F(x), W(x))
  BY Zenon DEF system_files
<1>2. system_files(h).warns \subseteq gather_network_info(h).warns
  <2> DEFINE PP == {listening_ports(h), report_foreign_netns_listeners(h), firewall(h), system_files(h),
                    dns_upstreams(h), certificates(h)}
  <2>1. gather_network_info(h) = All(PP) /\ system_files(h) \in PP
    BY Zenon DEF gather_network_info
  <2> HIDE DEF PP
  <2>2. All(PP).warns = UNION {p.warns : p \in PP}
    BY PieceFields
  <2> QED BY <2>1, <2>2
<1>3. system_files(h).warns = W(h)
  <2> HIDE DEF F, W
  <2> QED BY <1>1, PieceFields
<1>4. W(h) = {}
  <2> HIDE DEF W
  <2> QED BY <1>2, <1>3
<1>5. ASSUME NEW p \in {"resolv.conf", "hosts"} PROVE read(u, p) = read(h, p)
  <2>1. Notes(p, read(h, p), ErrorsButMissing) = {}
    <3> HIDE DEF read
    <3> QED BY <1>4
  <2> QED BY <2>1, SameRegular DEF ErrorsButMissing
<1>6. read(u, "run_resolv") = read(h, "run_resolv")
  <2>1. "run_resolv" \in PassedOver(h) \cap CutUnsaid(h)
    BY DEF PassedOver, CutUnsaid, NamespaceSilent
  <2> QED BY <2>1, IdealRead
<1>7. dir_entries(u, "letsencrypt") = dir_entries(h, "letsencrypt")
  <2>1. "letsencrypt" \in PassedOver(h)
    BY DEF PassedOver, NamespaceSilent
  <2> QED BY <2>1, IdealEntries
<1>8. u.days = h.days
  BY IdealRest
<1>9. /\ listening_ports(u) = listening_ports(h) /\ firewall(u) = firewall(h)
      /\ report_foreign_netns_listeners(u) = report_foreign_netns_listeners(h)
  BY SameRest
<1> HIDE DEF u
<1>10. \A p \in {"resolv.conf", "hosts", "run_resolv"} : read(u, p) = read(h, p)
  <2> HIDE DEF read
  <2> QED BY <1>5, <1>6
<1>11. \A p \in {"resolv.conf", "hosts", "run_resolv"} : resolvers(u, p) = resolvers(h, p)
  BY <1>10, Zenon DEF resolvers
<1>12. system_files(u) = system_files(h)
  <2>1. read(u, "resolv.conf") = read(h, "resolv.conf") /\ read(u, "hosts") = read(h, "hosts")
        /\ resolvers(u, "resolv.conf") = resolvers(h, "resolv.conf")
    BY <1>10, <1>11
  <2>2. W(u) = W(h)
    <3>1. \A x : W(x) = Notes("resolv.conf", read(x, "resolv.conf"), ErrorsButMissing)
                        \cup Notes("hosts", read(x, "hosts"), ErrorsButMissing)
      <4> HIDE DEF read
      <4> QED OBVIOUS
    <3> HIDE DEF W, read
    <3> QED BY <2>1, <3>1
  <2>3. F(u) = F(h)
    BY <2>1, Zenon
  <2> HIDE DEF F, W
  <2> QED BY <1>1, <2>2, <2>3, Zenon
<1>13. dns_upstreams(u) = dns_upstreams(h)
  <2>1. resolvers(u, "resolv.conf") = resolvers(h, "resolv.conf")
        /\ resolvers(u, "run_resolv") = resolvers(h, "run_resolv")
    BY <1>11
  <2> QED BY <2>1, Zenon DEF dns_upstreams
<1>14. certificates(u) = certificates(h)
  BY <1>7, <1>8, Zenon DEF certificates
<1>15. gather_network_info(u) = gather_network_info(h)
  BY <1>9, <1>12, <1>13, <1>14, Zenon DEF gather_network_info
<1> QED BY <1>15 DEF u

(* The vulnerabilities of the processor. *)
LEMMA SameCpu ==
    ASSUME NEW h, Machine(h), gather_cpu_vulnerabilities(h).warns = {}
    PROVE  gather_cpu_vulnerabilities(ideal(h)).found = gather_cpu_vulnerabilities(h).found
<1> DEFINE u == ideal(h)
           status(x, p) == read_procfs_capped(x, p)
           F(x) == {<<"cpu_vulnerabilities", p, status(x, p).lines>> :
                p \in {q \in dir_entries(x, "vulnerabilities") : status(x, q).err = "none"}}
           W(x) == Where(exists(x, "vulnerabilities") /\ ~listable(x, "vulnerabilities"),
                         {<<"vulnerabilities", "unreadable">>})
<1>1. \A x : gather_cpu_vulnerabilities(x) = Piece(F(x), W(x))
  BY Zenon DEF gather_cpu_vulnerabilities
<1>2. \A x : gather_cpu_vulnerabilities(x).found = F(x) /\ gather_cpu_vulnerabilities(x).warns = W(x)
  <2> HIDE DEF F, W
  <2> QED BY <1>1, PieceFields
<1>3. W(h) = {}
  <2> HIDE DEF F, W
  <2> QED BY <1>2
<1>4. exists(h, "vulnerabilities") => listable(h, "vulnerabilities")
  BY <1>3 DEF Where
<1>5. dir_entries(u, "vulnerabilities") = dir_entries(h, "vulnerabilities")
  BY <1>4, IdealEntries DEF is_dir
<1>6. ASSUME NEW p \in dir_entries(h, "vulnerabilities") PROVE status(u, p) = status(h, p)
  <2>1. p \in children(h, "vulnerabilities")
    BY DEF dir_entries
  <2>2. p \in PassedOver(h) \cap CutUnsaid(h)
    BY <2>1 DEF PassedOver, CutUnsaid, PersistenceSilent
  <2> QED BY <2>2, IdealRead
<1>7. F(u) = F(h)
  <2> HIDE DEF u, status
  <2> QED BY <1>5, <1>6
<1> HIDE DEF F, W
<1> QED BY <1>2, <1>7

(* The three lists of kernel modules. *)
LEMMA SameModules ==
    ASSUME NEW h, Machine(h), gather_kernel_modules(h).warns = {}
    PROVE  gather_kernel_modules(ideal(h)) = gather_kernel_modules(h)
<1> DEFINE u == ideal(h)
           read(x, p) == read_procfs_capped(x, p)
           live(x) == {<<p>> : p \in {q \in dir_entries(x, "sys_module") : read(x, q).lines = <<<<"live">>>>}}
           sysfs(x) == Result(IF listable(x, "sys_module") THEN "none" ELSE "PermissionDenied",
                              SetToSeq(live(x)), FALSE)
<1>1. \A x : gather_kernel_modules(x) = inventory_of(read(x, "modules"), sysfs(x), read(x, "kallsyms"), read(x, "modules"))
  BY Zenon DEF gather_kernel_modules
<1>2. ASSUME NEW a, NEW b, NEW c, inventory_of(a, b, c, a).warns = {}
      PROVE  Notes("modules", a, AnyError) = {} /\ Notes("sys_module", b, AnyError) = {}
             /\ Notes("kallsyms", c, AnyError) = {}
  <2> DEFINE pm == names_in(a) \cup names_in(a)
             hidden == reconcile(pm, names_in(b), names_in(c) \ PSEUDO_MODULES)
             blind == pm = {} /\ hidden # {}
             P == Where(~blind, {<<"hidden_candidates", m>> : m \in hidden})
             X == Where(c.err = "none" /\ c.lines = <<>>, {<<"kallsyms", "empty">>})
             Y == Where(blind, {<<"modules", "suppressed">>})
             V == Notes("modules", a, {}) \cup Notes("sys_module", b, AnyError)
                  \cup Notes("kallsyms", c, AnyError) \cup X
                  \cup Notes("modules", a, AnyError) \cup Y
  <2>1. inventory_of(a, b, c, a) = IF a.err # "none" THEN Piece({}, {<<"modules", a.err>>}) ELSE Piece(P, V)
    BY Zenon DEF inventory_of
  <2>2. a.err = "none"
    <3> SUFFICES ASSUME a.err # "none" PROVE FALSE
      OBVIOUS
    <3>1. inventory_of(a, b, c, a) = Piece({}, {<<"modules", a.err>>})
      BY <2>1
    <3>2. inventory_of(a, b, c, a).warns = {<<"modules", a.err>>}
      BY <3>1, PieceFields
    <3> QED BY <1>2, <3>2
  <2>3. V = {}
    <3> HIDE DEF P, V
    <3>1. inventory_of(a, b, c, a) = Piece(P, V)
      BY <2>1, <2>2
    <3> QED BY <1>2, <3>1, PieceFields
  <2> HIDE DEF X, Y
  <2> QED BY <2>3
<1>3. inventory_of(read(h, "modules"), sysfs(h), read(h, "kallsyms"), read(h, "modules")).warns = {}
  BY <1>1
<1>4. Notes("modules", read(h, "modules"), AnyError) = {} /\ Notes("sys_module", sysfs(h), AnyError) = {}
      /\ Notes("kallsyms", read(h, "kallsyms"), AnyError) = {}
  <2> HIDE DEF read, sysfs
  <2> QED BY <1>2, <1>3
<1>5. read(u, "modules") = read(h, "modules") /\ read(u, "kallsyms") = read(h, "kallsyms")
  BY <1>4, SameProcfs DEF AnyError
<1>6. listable(h, "sys_module")
  <2> HIDE DEF live, read
  <2>1. Notes("sys_module", sysfs(h), AnyError) = {}
    BY <1>4
  <2> QED BY <2>1 DEF Notes, AnyError, Result
<1>7. dir_entries(u, "sys_module") = dir_entries(h, "sys_module") /\ (listable(u, "sys_module") <=> listable(h, "sys_module"))
  BY <1>6, IdealEntries
<1>8. ASSUME NEW p \in dir_entries(h, "sys_module") PROVE read(u, p) = read(h, p)
  <2>1. p \in children(h, "sys_module")
    BY DEF dir_entries
  <2>2. p \in PassedOver(h) \cap CutUnsaid(h)
    BY <2>1 DEF PassedOver, CutUnsaid, InventorySilent
  <2> QED BY <2>2, IdealRead
<1>9. live(u) = live(h)
  <2> HIDE DEF u, read
  <2> QED BY <1>7, <1>8
<1>10. sysfs(u) = sysfs(h)
  <2> HIDE DEF u, live
  <2>1. listable(u, "sys_module") /\ listable(h, "sys_module")
    BY <1>6, <1>7
  <2> QED BY <1>9, <2>1
<1> HIDE DEF read, sysfs
<1> QED BY <1>1, <1>5, <1>10, Zenon

(* A tracer seen at work in a part of the files is at work. *)
LEMMA TracerSeen ==
    ASSUME NEW h, Machine(h), function_tracer_active(h)
    PROVE  function_tracer_active(ideal(h))
<1> DEFINE u == ideal(h)
           Nop == <<<<"nop">>>>
<1>1. PICK p \in {"current_tracer"} \cup dir_entries(h, "instances") :
         read_procfs_capped(h, p).lines \notin {<<>>, Nop}
  BY DEF function_tracer_active
<1>2. {"current_tracer", "instances"} \cup children(h, "instances") \subseteq PassedOver(h)
      /\ "current_tracer" \in CutUnsaid(h)
  BY DEF PassedOver, CutUnsaid, InventorySilent
<1>3. dir_entries(u, "instances") = dir_entries(h, "instances")
  BY <1>2, IdealEntries
<1> SUFFICES read_procfs_capped(u, p).lines \notin {<<>>, Nop}
  BY <1>3 DEF function_tracer_active
<1>4. CASE read_procfs_capped(h, p).truncated => p \in CutUnsaid(h)
  <2>1. p \in PassedOver(h)
    BY <1>2 DEF dir_entries
  <2>2. read_procfs_capped(u, p) = read_procfs_capped(h, p)
    BY <1>4, <2>1, IdealProcfs
  <2> QED BY <1>1, <2>2
<1>5. CASE read_procfs_capped(h, p).truncated /\ p \notin CutUnsaid(h)
  <2> DEFINE r == read_procfs_capped(h, p)
             q == read_procfs_capped(u, p)
             lines == h.file[p].lines
  <2>1. /\ r.err \in {"none", "NotFound", "PermissionDenied"} /\ r.truncated \in BOOLEAN
        /\ r.err # "none" => r.lines = <<>> /\ ~r.truncated
        /\ r.err = "none" =>
                 /\ p \in DOMAIN h.file /\ h.file[p].open
                 /\ r.lines \in Seq(ToSet(h.file[p].lines)) /\ Len(r.lines) <= Len(h.file[p].lines)
                 /\ ToSet(r.lines) \subseteq ToSet(h.file[p].lines)
                 /\ ~r.truncated => r.lines = h.file[p].lines
        /\ ToSet(r.lines) \subseteq lines_in(h, {p})
    BY ReadProcfs
  <2> HIDE DEF r
  <2>2. p \in DOMAIN h.file /\ h.file[p].open /\ r.lines \in Seq(ToSet(lines)) /\ Len(r.lines) <= Len(lines)
    BY <1>5, <2>1 DEF r
  <2>3. lines \in Seq(ToSet(lines))
    BY <2>2 DEF Machine, File
  <2>4. q.lines = lines
    <3>1. u.file[p].open /\ u.cap[p] = Uncapped(h, CutUnsaid(h), p)
      BY <2>2, IdealOpen
    <3>2. u.cap[p] = Len(lines)
      BY <1>5, <3>1 DEF Uncapped
    <3>3. u.file[p].lines = lines /\ exists(u, p)
      BY <2>2, IdealFiles DEF exists
    <3>4. q = Result("none", SubSeq(lines, 1, Min({Len(lines), Len(lines)})), Len(lines) > Len(lines))
      <4> HIDE DEF u, lines
      <4>1. q = Result("none", SubSeq(u.file[p].lines, 1, Min({u.cap[p], Len(u.file[p].lines)})),
                       Len(u.file[p].lines) > u.cap[p])
        BY <3>1, <3>3, Zenon DEF read_procfs_capped
      <4> QED BY <3>2, <3>3, <4>1, Zenon
    <3> HIDE DEF u, q, lines
    <3>5. Len(lines) \in Nat
      BY <2>3
    <3>6. Min({Len(lines), Len(lines)}) = Len(lines)
      <4>1. {Len(lines), Len(lines)} \in SUBSET Nat /\ {Len(lines), Len(lines)} # {}
        BY <3>5
      <4>2. Min({Len(lines), Len(lines)}) \in {Len(lines), Len(lines)}
        BY <4>1, MinFacts
      <4> QED BY <4>2
    <3>7. SubSeq(lines, 1, Len(lines)) = lines
      BY <2>3
    <3>8. q.lines = SubSeq(lines, 1, Min({Len(lines), Len(lines)}))
      BY <3>4 DEF Result
    <3> QED BY <3>6, <3>7, <3>8
  <2> SUFFICES ASSUME lines \in {<<>>, Nop} PROVE FALSE
    BY <2>4
  <2>5. r.lines \notin {<<>>, Nop}
    BY <1>1 DEF r
  <2>6. CASE lines = <<>>
    <3>1. r.lines \in Seq({}) /\ Len(r.lines) <= 0
      BY <2>2, <2>6 DEF ToSet
    <3>2. r.lines = <<>>
      BY <3>1
    <3> QED BY <2>5, <3>2
  <2>7. CASE lines = Nop
    <3>1. ToSet(lines) = {<<"nop">>} /\ Len(lines) = 1
      BY <2>7 DEF ToSet
    <3> DEFINE x == r.lines
    <3>2. x \in Seq({<<"nop">>}) /\ Len(x) <= 1
      BY <2>2, <3>1
    <3> HIDE DEF x
    <3>3. Len(x) \in Nat
      BY <3>2
    <3>4. CASE Len(x) = 0
      <4>1. x = <<>>
        BY <3>2, <3>4
      <4> QED BY <2>5, <4>1 DEF x
    <3>5. CASE Len(x) = 1
      <4>1. x[1] = <<"nop">>
        BY <3>2, <3>5
      <4>2. x = Nop
        BY <3>2, <3>5, <4>1
      <4> QED BY <2>5, <4>2 DEF x
    <3> QED BY <3>2, <3>3, <3>4, <3>5
  <2> QED BY <2>6, <2>7
<1> QED BY <1>4, <1>5

(* Hooks on system calls: nothing that would be found is missing. *)
LEMMA SameHooks ==
    ASSUME NEW h, Machine(h), gather_ftrace_hooks(h).warns = {}
    PROVE  gather_ftrace_hooks(ideal(h)).found \subseteq gather_ftrace_hooks(h).found
<1> DEFINE u == ideal(h)
           hooks(x) == read_procfs_capped(x, "enabled_functions")
           probes(x) == read_procfs_capped(x, "kprobe_events")
           P(x) == {<<"syscall_kprobes", l[2]>> : l \in ToSet(probes(x).lines)}
           H(x) == {<<"ftrace_hooks", l[2], l[3]>> :
                        l \in {l \in ToSet(hooks(x).lines) : l[3] \in {"module", "unresolved"}}}
           F(x) == P(x) \cup Where(~function_tracer_active(x), H(x))
           X(x) == Where(function_tracer_active(x) /\ hooks(x).lines # <<>>, {<<"ftrace", "suppressed">>})
           W(x) == Notes("kprobe_events", probes(x), {}) \cup Notes("enabled_functions", hooks(x), AnyError) \cup X(x)
           none_there(x) == Piece({}, {<<"tracefs", "NotFound">>})
<1>1. \A x : gather_ftrace_hooks(x) = IF ~exists(x, "enabled_functions") THEN none_there(x) ELSE Piece(F(x), W(x))
  BY Zenon DEF gather_ftrace_hooks
<1>2. exists(h, "enabled_functions")
  <2> SUFFICES ASSUME ~exists(h, "enabled_functions") PROVE FALSE
    OBVIOUS
  <2>1. gather_ftrace_hooks(h).warns = {<<"tracefs", "NotFound">>}
    BY <1>1, PieceFields
  <2> QED BY <2>1
<1>3. exists(u, "enabled_functions")
  BY <1>2, IdealPaths
<1>4. gather_ftrace_hooks(u).found = F(u) /\ gather_ftrace_hooks(h).found = F(h) /\ W(h) = {}
  <2> HIDE DEF F, W, u
  <2> QED BY <1>1, <1>2, <1>3, PieceFields
<1>5. Notes("kprobe_events", probes(h), {}) = {} /\ Notes("enabled_functions", hooks(h), AnyError) = {}
  <2> HIDE DEF probes, hooks, X
  <2> QED BY <1>4
<1>6. hooks(u) = hooks(h)
  BY <1>5, SameProcfs DEF AnyError
<1>7. probes(u) = probes(h)
  <2>1. "kprobe_events" \in PassedOver(h)
    BY DEF PassedOver, InventorySilent
  <2> QED BY <1>5, <2>1, SameProcfs
<1>8. function_tracer_active(h) => function_tracer_active(u)
  BY TracerSeen
<1>9. P(u) = P(h) /\ H(u) = H(h)
  <2> HIDE DEF u
  <2> QED BY <1>6, <1>7, Zenon
<1>10. F(u) \subseteq F(h)
  <2> HIDE DEF P, H, u
  <2> QED BY <1>8, <1>9 DEF Where
<1> HIDE DEF F
<1> QED BY <1>4, <1>10

(* The kernel's switches and facts, which are read apart. *)
LEMMA SameSwitches ==
    ASSUME NEW h, Machine(h), gather_one_way_switches(h).warns = {}
    PROVE  /\ gather_one_way_switches(ideal(h)).found = gather_one_way_switches(h).found
           /\ gather_kernel_facts(h).warns = {} =>
                 gather_kernel_facts(ideal(h)).found = gather_kernel_facts(h).found
<1> DEFINE u == ideal(h)
           read(x, p) == read_procfs_capped(x, p)
           listed(x) == {p \in ONE_WAY_SWITCHES : read(x, p).err # "NotFound"}
           F(x) == {<<"one_way_switches", p, number(read(x, p))>> : p \in listed(x)}
           N(x) == UNION {Notes(p, read(x, p), AnyError) : p \in ONE_WAY_SWITCHES}
           X(x) == {<<p, "not a number">> :
                     p \in {q \in listed(x) : read(x, q).err = "none" /\ number(read(x, q)) = "unknown"}}
           W(x) == N(x) \cup X(x)
<1>1. \A x : gather_one_way_switches(x) = Piece(F(x), W(x))
  BY Zenon DEF gather_one_way_switches
<1>2. \A x : gather_one_way_switches(x).found = F(x) /\ gather_one_way_switches(x).warns = W(x)
  <2> HIDE DEF F, W
  <2> QED BY <1>1, PieceFields
<1>3. N(h) = {}
  <2> HIDE DEF N, X, F
  <2> QED BY <1>2
<1>4. ASSUME NEW p \in ONE_WAY_SWITCHES PROVE read(u, p) = read(h, p)
  <2>1. Notes(p, read(h, p), AnyError) = {}
    <3> HIDE DEF read
    <3> QED BY <1>3
  <2> QED BY <2>1, SameProcfs DEF AnyError
<1>5. F(u) = F(h)
  <2>1. listed(u) = listed(h)
    <3> HIDE DEF read, u
    <3> QED BY <1>4
  <2> HIDE DEF read, u, listed
  <2>2. \A p \in listed(h) : p \in ONE_WAY_SWITCHES
    BY DEF listed
  <2> QED BY <1>4, <2>1, <2>2
<1>6. ASSUME gather_kernel_facts(h).warns = {}
      PROVE  gather_kernel_facts(u).found = gather_kernel_facts(h).found
  <2> DEFINE known(x, p) == IF p = "modules_disabled" THEN number(read(x, p)) # "unknown" ELSE read(x, p).err = "none"
             facts == {"core_pattern", "modules_disabled", "lockdown"}
             G(x) == {<<p, read(x, p).lines>> : p \in {q \in facts : known(x, q)}}
             V(x) == {<<p, "unreadable">> : p \in {q \in facts : ~known(x, q)}}
  <2>1. \A x : gather_kernel_facts(x) = Piece(G(x), V(x))
    BY Zenon DEF gather_kernel_facts
  <2>2. \A x : gather_kernel_facts(x).found = G(x) /\ gather_kernel_facts(x).warns = V(x)
    <3> HIDE DEF G, V
    <3> QED BY <2>1, PieceFields
  <2>3. V(h) = {}
    <3> HIDE DEF G, V
    <3> QED BY <1>6, <2>2
  <2>4. known(h, "lockdown")
    <3> HIDE DEF known
    <3> QED BY <2>3
  <2>5. read(h, "lockdown").err = "none"
    BY <2>4
  <2>6. read(u, "lockdown") = read(h, "lockdown")
    <3>1. "lockdown" \in CutUnsaid(h)
      BY DEF CutUnsaid, PersistenceSilent
    <3> QED BY <2>5, <3>1, IdealProcfs
  <2>7. read(u, "core_pattern") = read(h, "core_pattern")
    <3>1. "core_pattern" \in PassedOver(h) \cap CutUnsaid(h)
      BY DEF CutUnsaid, PassedOver, AccessSilent
    <3> QED BY <3>1, IdealRead
  <2>8. read(u, "modules_disabled") = read(h, "modules_disabled")
    BY <1>4 DEF ONE_WAY_SWITCHES
  <2>9. \A p \in facts : read(u, p) = read(h, p)
    <3> HIDE DEF read
    <3> QED BY <2>6, <2>7, <2>8
  <2>10. G(u) = G(h)
    <3>1. \A p \in facts : known(u, p) <=> known(h, p)
      <4> HIDE DEF read, u
      <4> QED BY <2>9
    <3> HIDE DEF read, u, known, facts
    <3> QED BY <2>9, <3>1
  <2> HIDE DEF G
  <2> QED BY <2>2, <2>10
<1> HIDE DEF F
<1> QED BY <1>2, <1>5, <1>6

(* ld.so.preload. *)
LEMMA SamePreload ==
    ASSUME NEW h, Machine(h), scan_ld_preload(h).warns = {}
    PROVE  scan_ld_preload(ideal(h)) = scan_ld_preload(h)
<1> DEFINE u == ideal(h)
           r(x) == read_file_capped_regular(x, "ld.so.preload")
           paths(x) == {l[2] : l \in ToSet(r(x).lines)}
           mapped(x) == count_mapped(x, paths(x))
           shown(x) == {<<"preload_injections", p, volatile(x, p)>> : p \in paths(x)}
<1>1. \A x : scan_ld_preload(x) = Asking(shown(x) \cup mapped(x).found,
                  Notes("ld.so.preload", r(x), ErrorsButMissing) \cup mapped(x).warns, paths(x))
  BY Zenon DEF scan_ld_preload
<1>2. Notes("ld.so.preload", r(h), ErrorsButMissing) = {}
  <2> DEFINE A == shown(h) \cup mapped(h).found
             B == Notes("ld.so.preload", r(h), ErrorsButMissing)
             C == B \cup mapped(h).warns
  <2>1. scan_ld_preload(h) = Asking(A, C, paths(h))
    BY <1>1
  <2> HIDE DEF A, C, paths
  <2>2. C = {}
    BY <2>1, PieceFields
  <2> HIDE DEF B, mapped
  <2>3. B = {}
    BY <2>2 DEF C
  <2> QED BY <2>3 DEF B
<1>3. r(u) = r(h)
  BY <1>2, SameRegular DEF ErrorsButMissing
<1>4. u.proc = h.proc /\ u.volatile = h.volatile /\ \A p : canonical(u, p) = canonical(h, p)
  BY IdealRest, IdealWritable
<1> HIDE DEF u
<1>5. paths(u) = paths(h)
  BY <1>3, Zenon
<1>6. readable_pids(u) = readable_pids(h)
  BY <1>4, Zenon DEF readable_pids
<1>7. \A p : mapping(u, p) = mapping(h, p)
  <2> SUFFICES ASSUME NEW path PROVE mapping(u, path) = mapping(h, path)
    OBVIOUS
  <2> DEFINE M(x) == {p \in readable_pids(x) : canonical(x, path) \in x.proc[p].read}
  <2>1. M(u) = M(h)
    BY <1>4, <1>6
  <2>2. mapping(u, path) = Cardinality(M(u)) /\ mapping(h, path) = Cardinality(M(h))
    BY Zenon DEF mapping
  <2> HIDE DEF M
  <2> QED BY <2>1, <2>2
<1>8. \A p : volatile(u, p) <=> volatile(h, p)
  BY <1>4 DEF volatile
<1>9. mapped(u) = mapped(h)
  <2> DEFINE N == paths(h)
             counted(x) == {p \in N : ~hindered(x) \/ mapping(x, p) > 0}
             C(x) == {<<"mapped_by_pids", p, mapping(x, p)>> : p \in counted(x)}
  <2>1. \A x : count_mapped(x, N) = Piece(Where(readable_pids(x) # {}, C(x)),
                                          Where(hindered(x) /\ N # {}, {<<"maps", "partial">>}))
    BY Zenon DEF count_mapped
  <2>2. hindered(u) <=> hindered(h)
    BY <1>4, Zenon DEF hindered
  <2>3. counted(u) = counted(h)
    <3> HIDE DEF N
    <3> QED BY <1>7, <2>2
  <2>4. C(u) = C(h)
    <3> HIDE DEF counted
    <3> QED BY <1>7, <2>3
  <2> HIDE DEF C, N, counted
  <2>5. Where(readable_pids(u) # {}, C(u)) = Where(readable_pids(h) # {}, C(h))
        /\ Where(hindered(u) /\ N # {}, {<<"maps", "partial">>})
           = Where(hindered(h) /\ N # {}, {<<"maps", "partial">>})
    BY <1>6, <2>2, <2>4 DEF Where
  <2>6. count_mapped(u, N) = count_mapped(h, N)
    BY <2>1, <2>5, Zenon
  <2> QED BY <1>5, <2>6, Zenon DEF N
<1>10. shown(u) = shown(h)
  <2> HIDE DEF paths
  <2> QED BY <1>4, <1>5, Zenon DEF volatile
<1> HIDE DEF shown, mapped, paths, r
<1>11. scan_ld_preload(u) = scan_ld_preload(h)
  BY <1>1, <1>3, <1>5, <1>9, <1>10, Zenon
<1> QED BY <1>11 DEF u

(* passwd, read without a word. *)
LEMMA SamePasswd ==
    ASSUME NEW h, Machine(h), Notes("passwd", passwd(h), AnyError) = {}
    PROVE  passwd(ideal(h)) = passwd(h) /\ users(ideal(h)) = users(h) /\ login_users(ideal(h)) = login_users(h)
<1>1. passwd(ideal(h)) = passwd(h)
  BY SameRegular DEF passwd, AnyError
<1>2. users(ideal(h)) = users(h)
  BY <1>1, Zenon DEF users
<1>3. login_users(ideal(h)) = login_users(h)
  BY <1>2, Zenon DEF login_users
<1> QED BY <1>1, <1>2, <1>3

(* Accounts and credential files. *)
LEMMA SameHygiene ==
    ASSUME NEW h, Machine(h), scan_account_hygiene(h).warns = {}
    PROVE  scan_account_hygiene(ideal(h)).found = scan_account_hygiene(h).found
<1> DEFINE u == ideal(h)
           shadow(x) == read_file_capped_regular(x, "shadow")
           unread(x) == {p \in credentials(x) : hidden_by_dir(x, p)}
           too_open(x) == {p \in credentials(x) : exists(x, p) /\ p \notin unread(x) /\ x.file[p].unsafe}
           G(U, H, T) ==
            {<<"duplicate_uid_zero", v[2]>> : v \in {x \in U : x[3] = 0 /\ x[2] # "root"}}
            \cup {<<"system_accounts_with_shell", v[2]>> :
                    v \in {x \in U : x[3] \in 1..999 /\ x[4] # "nologin"}}
            \cup {<<"empty_password_users", l[2]>> :
                    l \in {x \in U : x[5] = "empty"} \cup {x \in H : x[3] = "empty"}}
            \cup {<<"weak_password_hashes", l[2]>> :
                    l \in {x \in U : x[5] \notin {"x", "empty", "locked"}}
                            \cup {x \in H : classify_hash(x[3]) # {}}}
            \cup {<<"file_permission_issues", p>> : p \in T}
           F(x) == G(users(x), ToSet(shadow(x).lines), too_open(x))
           N(x) == Notes("passwd", passwd(x), AnyError)
           M(x) == Notes("shadow", shadow(x), ErrorsButMissing)
           X(x) == Where(exists(x, "sudoers.d") /\ ~x.file["sudoers.d"].open, {<<"sudoers.d", "unreadable">>})
           Y(x) == Where(unread(x) # {}, {<<"credentials", "unreadable">>})
           W(x) == N(x) \cup M(x) \cup X(x) \cup Y(x)
<1>1. \A x : scan_account_hygiene(x) = IF passwd(x).err # "none" THEN Piece({}, N(x)) ELSE Piece(F(x), W(x))
  BY Zenon DEF scan_account_hygiene
<1>2. N(h) = {}
  <2>1. CASE passwd(h).err # "none"
    <3> HIDE DEF N, F, W
    <3> QED BY <1>1, <2>1, PieceFields
  <2>2. CASE passwd(h).err = "none"
    <3>1. W(h) = {}
      <4> HIDE DEF F, W, N
      <4> QED BY <1>1, <2>2, PieceFields
    <3> HIDE DEF N, M, X, Y
    <3> QED BY <3>1
  <2> QED BY <2>1, <2>2
<1>3. passwd(h).err = "none"
  <2>1. passwd(h).err \in {"none", "NotFound", "PermissionDenied", "InvalidData"}
    BY ReadRegular DEF passwd
  <2> QED BY <1>2, <2>1 DEF Notes, AnyError
<1>4. W(h) = {}
  <2> HIDE DEF F, W, N
  <2> QED BY <1>1, <1>3, PieceFields
<1>5. M(h) = {}
  <2> HIDE DEF N, M, X, Y
  <2> QED BY <1>4
<1>6. shadow(u) = shadow(h)
  BY <1>5, SameRegular DEF ErrorsButMissing
<1>7. passwd(u) = passwd(h) /\ users(u) = users(h)
  BY <1>2, SamePasswd
<1>8. too_open(u) = too_open(h)
  <2>1. \A p : (exists(u, p) <=> exists(h, p)) /\ (hidden_by_dir(u, p) <=> hidden_by_dir(h, p))
    BY IdealPaths, IdealWritable
  <2>2. \A p : exists(h, p) => (u.file[p].unsafe = h.file[p].unsafe)
    BY IdealFiles DEF exists
  <2>3. credentials(u) = credentials(h)
    BY DEF credentials
  <2>4. unread(u) = unread(h)
    <3> HIDE DEF u
    <3> QED BY <2>1, <2>3
  <2> HIDE DEF u, unread
  <2> QED BY <2>1, <2>2, <2>3, <2>4
<1>9. scan_account_hygiene(u).found = F(u) /\ scan_account_hygiene(h).found = F(h)
  <2> HIDE DEF F, W, N, u
  <2> QED BY <1>1, <1>3, <1>7, PieceFields
<1>10. F(u) = F(h)
  <2> HIDE DEF G, u, too_open
  <2> QED BY <1>6, <1>7, <1>8, Zenon
<1> HIDE DEF F
<1> QED BY <1>9, <1>10

(* Kernel settings. *)
LEMMA SameSysctl ==
    ASSUME NEW h, Machine(h), gather_sysctl_issues(h).warns = {}
    PROVE  gather_sysctl_issues(ideal(h)).found = gather_sysctl_issues(h).found
<1> DEFINE u == ideal(h)
           value(x, p) == read_procfs_capped(x, p)
           read(x) == {p \in x.sysctl : value(x, p).lines # <<>>}
           F(x) == {<<"sysctl_issues", p>> : p \in {q \in read(x) : ~sysctl_ok(x, q, value(x, q).lines[1])}}
           W(x) == UNION {Notes(p, value(x, p), {}) : p \in x.sysctl}
<1>1. \A x : gather_sysctl_issues(x) = Piece(F(x), W(x))
  BY Zenon DEF gather_sysctl_issues
<1>2. \A x : gather_sysctl_issues(x).found = F(x) /\ gather_sysctl_issues(x).warns = W(x)
  <2> HIDE DEF F, W
  <2> QED BY <1>1, PieceFields
<1>3. W(h) = {}
  <2> HIDE DEF W, F
  <2> QED BY <1>2
<1>4. ASSUME NEW p \in h.sysctl PROVE value(u, p) = value(h, p)
  <2>1. p \in PassedOver(h)
    BY DEF PassedOver, AccessSilent
  <2>2. Notes(p, value(h, p), {}) = {}
    <3> HIDE DEF value
    <3> QED BY <1>3
  <2> QED BY <2>1, <2>2, SameProcfs
<1>5. "core_pattern" \in PassedOver(h) \cap CutUnsaid(h)
  BY DEF CutUnsaid, PassedOver, AccessSilent
<1>6. read_procfs_capped(u, "core_pattern") = read_procfs_capped(h, "core_pattern") /\ u.sysctl = h.sysctl
  BY <1>5, IdealRead, IdealRest
<1>7. \A p, v : sysctl_ok(u, p, v) <=> sysctl_ok(h, p, v)
  BY <1>6 DEF sysctl_ok
<1>8. F(u) = F(h)
  <2> HIDE DEF u, value
  <2>1. read(u) = read(h)
    BY <1>4, <1>6
  <2>2. \A p \in read(h) : p \in h.sysctl
    OBVIOUS
  <2> HIDE DEF read
  <2> QED BY <1>4, <1>7, <2>1, <2>2
<1> HIDE DEF F
<1> QED BY <1>2, <1>8

(* Who may log in, and with which keys. *)
LEMMA SameShells ==
    ASSUME NEW h, Machine(h), shell_users(h).warns = {}
    PROVE  shell_users(ideal(h)).found = shell_users(h).found
<1> DEFINE u == ideal(h)
           keys(x, v) == read_file_capped_regular(x, x.keys[v[2]])
           F(x) == {<<"shell_users", v[2], Len(keys(x, v).lines)>> : v \in login_users(x)}
           N(x) == Notes("passwd", passwd(x), AnyError)
           K(x) == UNION {Notes(x.keys[v[2]], keys(x, v), ErrorsButMissing) : v \in login_users(x)}
           W(x) == N(x) \cup K(x)
<1>1. \A x : shell_users(x) = Piece(F(x), W(x))
  BY Zenon DEF shell_users
<1>2. \A x : shell_users(x).found = F(x) /\ shell_users(x).warns = W(x)
  <2> HIDE DEF F, W
  <2> QED BY <1>1, PieceFields
<1>3. N(h) = {} /\ K(h) = {}
  <2> HIDE DEF N, K, F
  <2> QED BY <1>2
<1>4. login_users(u) = login_users(h) /\ u.keys = h.keys
  BY <1>3, SamePasswd, IdealRest
<1>5. ASSUME NEW v \in login_users(h) PROVE keys(u, v) = keys(h, v)
  <2>1. Notes(h.keys[v[2]], keys(h, v), ErrorsButMissing) = {}
    <3> HIDE DEF keys
    <3> QED BY <1>3
  <2>2. read_file_capped_regular(u, h.keys[v[2]]) = read_file_capped_regular(h, h.keys[v[2]])
    BY <2>1, SameRegular DEF ErrorsButMissing
  <2> HIDE DEF u
  <2> QED BY <1>4, <2>2
<1>6. F(u) = F(h)
  <2> HIDE DEF u, keys
  <2> QED BY <1>4, <1>5
<1> HIDE DEF F
<1> QED BY <1>2, <1>6

(* The access alignment keeps its notes in the report, and a silent report has none. *)
LEMMA SameAlignment ==
    ASSUME NEW h, Machine(h),
           \A f \in gather_access_alignment(h).found : f[1] # "access_alignment.coverage_warnings"
    PROVE  gather_access_alignment(ideal(h)).found = gather_access_alignment(h).found
<1> DEFINE u == ideal(h)
           keys(x, v) == read_file_capped_regular(x, x.keys[v[2]])
           group(x) == read_file_capped_regular(x, "group")
           holders(x) == {v \in users(x) : v[4] # "nologin"}
           N(x) == Notes("passwd", passwd(x), AnyError)
           M(x) == Notes("group", group(x), AnyError)
           K(x) == UNION {Notes(x.keys[v[2]], keys(x, v), ErrorsButMissing) : v \in holders(x)}
           notes(x) == N(x) \cup M(x) \cup K(x)
           A(x) == UNION {{<<"keys", v[2], k>> : k \in ToSet(keys(x, v).lines)} : v \in holders(x)}
           B(x) == {<<"root_equivalent_groups", g[2], g[3]>> : g \in ToSet(group(x).lines)}
           C(x) == {<<"access_alignment.coverage_warnings", n[1], n[2]>> : n \in notes(x)}
<1>1. \A x : gather_access_alignment(x) = Piece(A(x) \cup B(x) \cup C(x), {})
  BY Zenon DEF gather_access_alignment
<1>2. \A x : gather_access_alignment(x).found = A(x) \cup B(x) \cup C(x)
  <2> HIDE DEF A, B, C
  <2> QED BY <1>1, PieceFields
<1>3. notes(h) = {}
  <2> SUFFICES ASSUME NEW n \in notes(h) PROVE FALSE
    OBVIOUS
  <2> HIDE DEF notes, A, B
  <2>1. <<"access_alignment.coverage_warnings", n[1], n[2]>> \in C(h)
    OBVIOUS
  <2> HIDE DEF C
  <2>2. <<"access_alignment.coverage_warnings", n[1], n[2]>> \in gather_access_alignment(h).found
    BY <1>2, <2>1
  <2>3. <<"access_alignment.coverage_warnings", n[1], n[2]>>[1] = "access_alignment.coverage_warnings"
    OBVIOUS
  <2> QED BY <2>2, <2>3
<1>4. N(h) = {} /\ M(h) = {} /\ K(h) = {}
  <2> HIDE DEF N, M, K
  <2> QED BY <1>3
<1>5. users(u) = users(h) /\ u.keys = h.keys /\ passwd(u) = passwd(h)
  BY <1>4, SamePasswd, IdealRest
<1>6. group(u) = group(h)
  BY <1>4, SameRegular DEF AnyError
<1>7. ASSUME NEW v \in holders(h) PROVE keys(u, v) = keys(h, v)
  <2>1. Notes(h.keys[v[2]], keys(h, v), ErrorsButMissing) = {}
    <3> HIDE DEF keys, holders
    <3> QED BY <1>4
  <2>2. read_file_capped_regular(u, h.keys[v[2]]) = read_file_capped_regular(h, h.keys[v[2]])
    BY <2>1, SameRegular DEF ErrorsButMissing
  <2> HIDE DEF u
  <2> QED BY <1>5, <2>2
<1> HIDE DEF u
<1>8. holders(u) = holders(h)
  BY <1>5, Zenon
<1>9. A(u) = A(h)
  <2> DEFINE J(x, v) == {<<"keys", v[2], k>> : k \in ToSet(keys(x, v).lines)}
  <2>1. ASSUME NEW v \in holders(h) PROVE J(u, v) = J(h, v)
    <3>1. keys(u, v) = keys(h, v)
      BY <1>7
    <3> HIDE DEF keys
    <3> QED BY <3>1, Zenon
  <2> HIDE DEF J, holders
  <2>2. UNION {J(u, v) : v \in holders(u)} = UNION {J(h, v) : v \in holders(h)}
    BY <1>8, <2>1
  <2> QED BY <2>2, Zenon DEF J
<1>10. B(u) = B(h)
  <2> HIDE DEF group
  <2> QED BY <1>6, Zenon
<1>11. N(u) = N(h) /\ M(u) = M(h)
  <2> HIDE DEF group
  <2> QED BY <1>5, <1>6, Zenon
<1>12. K(u) = K(h)
  <2> HIDE DEF keys, holders
  <2> QED BY <1>5, <1>7, <1>8
<1>13. C(u) = C(h)
  <2> HIDE DEF N, M, K
  <2> QED BY <1>11, <1>12, Zenon
<1> HIDE DEF A, B, C
<1>14. gather_access_alignment(u).found = gather_access_alignment(h).found
  BY <1>2, <1>9, <1>10, <1>13, Zenon
<1> QED BY <1>14 DEF u

(* systemd's generators. *)
LEMMA SameGenerators ==
    ASSUME NEW h, Machine(h), scan_generators(h).warns = {}
    PROVE  scan_generators(ideal(h)).found = scan_generators(h).found
<1> DEFINE u == ideal(h)
           dirs == DOMAIN GENERATOR_DIRS
           pieces(x) == UNION {{inspect_entry(x, p, GENERATOR_DIRS[d]) : p \in dir_entries(x, d)} : d \in dirs}
           seen(x) == All(pieces(x))
           own(x) == UNION {inspect_dir(x, d, GENERATOR_DIRS[d]) : d \in dirs}
           kept(x) == Capped(seen(x).found \cup own(x), MAX_GENERATORS, "generators")
           shut(x) == {<<d, "unreadable">> : d \in {e \in dirs : exists(x, e) /\ ~listable(x, e)}}
           W(x) == seen(x).warns \cup kept(x).warns \cup shut(x)
<1>1. \A x : \E A : scan_generators(x) = Asking(kept(x).found, W(x), A)
  BY Zenon DEF scan_generators
<1>2. scan_generators(u).found = kept(u).found /\ scan_generators(h).found = kept(h).found /\ W(h) = {}
  <2> HIDE DEF kept, W, u
  <2> QED BY <1>1, PieceFields
<1>3. shut(h) = {}
  <2> HIDE DEF kept, seen, shut
  <2> QED BY <1>2
<1>4. ASSUME NEW d \in dirs PROVE dir_entries(u, d) = dir_entries(h, d)
  <2>1. exists(h, d) => listable(h, d)
    <3> HIDE DEF dirs
    <3> QED BY <1>3
  <2> QED BY <2>1, IdealEntries DEF is_dir
<1>5. /\ \A p : exists(u, p) <=> exists(h, p)
      /\ \A p : canonical(u, p) = canonical(h, p)
      /\ \A p : hidden_by_dir(u, p) <=> hidden_by_dir(h, p)
      /\ \A p : assess_writability(u, p) = assess_writability(h, p)
      /\ \A p : exists(h, p) => u.file[p].kind = h.file[p].kind /\ u.file[p].unsafe = h.file[p].unsafe
      /\ u.volatile = h.volatile
  BY IdealPaths, IdealWritable, IdealFiles, IdealRest DEF exists
<1> HIDE DEF u
<1>6. ASSUME NEW p, NEW o PROVE inspect_entry(u, p, o) = inspect_entry(h, p, o)
  <2> DEFINE t == canonical(h, p)
             F(x) == {<<"generators", p, o, assess_writability(x, t), volatile(x, t)>>}
             K(x) == exists(x, t) => x.file[t].kind = "file"
             X(x) == Where(hidden_by_dir(x, t), {<<p, "unresolvable">>})
  <2>1. canonical(u, p) = t
    BY <1>5
  <2>2. inspect_entry(h, p, o) = Piece(Where(K(h), F(h)), X(h)) /\ inspect_entry(u, p, o) = Piece(Where(K(u), F(u)), X(u))
    <3>1. inspect_entry(h, p, o) = Piece(Where(K(h), F(h)), X(h))
      BY Zenon DEF inspect_entry
    <3>2. inspect_entry(u, p, o) = Piece(Where(K(u), F(u)), X(u))
      BY <2>1, Zenon DEF inspect_entry
    <3> QED BY <3>1, <3>2
  <2> HIDE DEF t
  <2>3. F(u) = F(h)
    BY <1>5, Zenon DEF volatile
  <2>4. K(u) <=> K(h)
    BY <1>5
  <2>5. X(u) = X(h)
    BY <1>5 DEF Where
  <2> HIDE DEF F, K, X
  <2>6. Where(K(u), F(u)) = Where(K(h), F(h))
    BY <2>3, <2>4 DEF Where
  <2> QED BY <2>2, <2>5, <2>6, Zenon
<1>7. pieces(u) = pieces(h)
  <2> DEFINE J(x, d) == {inspect_entry(x, p, GENERATOR_DIRS[d]) : p \in dir_entries(x, d)}
  <2>1. ASSUME NEW d \in dirs PROVE J(u, d) = J(h, d)
    BY <1>4, <1>6
  <2> HIDE DEF J, dirs
  <2>2. UNION {J(u, d) : d \in dirs} = UNION {J(h, d) : d \in dirs}
    BY <2>1
  <2> QED BY <2>2, Zenon DEF J
<1>8. own(u) = own(h)
  <2>1. \A d, o : inspect_dir(u, d, o) = inspect_dir(h, d, o)
    BY <1>5 DEF inspect_dir, Where
  <2> HIDE DEF dirs
  <2> QED BY <2>1
<1>9. kept(u) = kept(h)
  <2> HIDE DEF pieces, own
  <2> QED BY <1>7, <1>8, Zenon
<1> HIDE DEF kept
<1>10. scan_generators(u).found = scan_generators(h).found
  BY <1>2, <1>9
<1> QED BY <1>10 DEF u

(* PAM. *)
LEMMA SamePam ==
    ASSUME NEW h, Machine(h), scan_pam(h).warns = {}
    PROVE  scan_pam(ideal(h)).found = scan_pam(h).found
<1> DEFINE u == ideal(h)
           read(x, p) == read_file_capped_regular(x, p)
           services(x) == {p \in dir_entries(x, "pam.d") : is_file(x, p)}
           slots(x) == UNION {pam_entry("Config", x, p) :
                                p \in {q \in services(x) : assess_writability(x, q) # "RootOnly"}}
           lines(x) == UNION {ToSet(read(x, p).lines) : p \in services(x)}
           loads(x) == UNION {pam_line(x, l) : l \in lines(x)}
           kept(x) == Capped(slots(x) \cup loads(x), MAX_PAM_FINDINGS, "pam")
           N(x) == UNION {Notes(p, read(x, p), {}) : p \in services(x)}
           W(x) == kept(x).warns \cup N(x)
<1>1. \A x : IF ~listable(x, "pam.d") THEN scan_pam(x) = Piece({}, {<<"pam.d", "unreadable">>})
             ELSE \E A : scan_pam(x) = Asking(kept(x).found, W(x), A)
  BY Zenon DEF scan_pam
<1>2. listable(h, "pam.d")
  <2> SUFFICES ASSUME ~listable(h, "pam.d") PROVE FALSE
    OBVIOUS
  <2>1. scan_pam(h) = Piece({}, {<<"pam.d", "unreadable">>})
    BY <1>1
  <2>2. scan_pam(h).warns = {<<"pam.d", "unreadable">>}
    BY <2>1, PieceFields
  <2> QED BY <2>2
<1>3. dir_entries(u, "pam.d") = dir_entries(h, "pam.d") /\ (listable(u, "pam.d") <=> listable(h, "pam.d"))
  BY <1>2, IdealEntries
<1>4. scan_pam(u).found = kept(u).found /\ scan_pam(h).found = kept(h).found /\ W(h) = {}
  <2> HIDE DEF kept, W, u
  <2> QED BY <1>1, <1>2, <1>3, PieceFields
<1>5. N(h) = {}
  <2> HIDE DEF kept, N
  <2> QED BY <1>4
<1>6. ASSUME NEW p \in services(h) PROVE read(u, p) = read(h, p)
  <2>1. Notes(p, read(h, p), {}) = {}
    <3> HIDE DEF read, services
    <3> QED BY <1>5
  <2>2. p \in children(h, "pam.d")
    BY DEF dir_entries
  <2>3. p \in PassedOver(h)
    BY <2>2 DEF PassedOver, PersistenceSilent
  <2> QED BY <2>1, <2>3, SameRegular
<1>7. /\ \A p : is_file(u, p) <=> is_file(h, p)
      /\ \A p : canonical(u, p) = canonical(h, p)
      /\ \A p : unsafe_dir(u, p) <=> unsafe_dir(h, p)
      /\ \A p : assess_writability(u, p) = assess_writability(h, p)
      /\ u.volatile = h.volatile /\ u.pam_dirs = h.pam_dirs
  BY IdealPaths, IdealWritable, IdealRest
<1> HIDE DEF u
<1>8. services(u) = services(h)
  BY <1>3, <1>7
<1>9. \A p : (parent_takeable(u, p) <=> parent_takeable(h, p)) /\ (volatile(u, p) <=> volatile(h, p))
  BY <1>7 DEF parent_takeable, volatile
<1>10. ASSUME NEW kind, NEW p PROVE pam_entry(kind, u, p) = pam_entry(kind, h, p)
  <2>1. parent_takeable(u, p) = parent_takeable(h, p) /\ volatile(u, p) = volatile(h, p)
    <3>1. parent_takeable(u, p) \in BOOLEAN /\ parent_takeable(h, p) \in BOOLEAN
          /\ volatile(u, p) \in BOOLEAN /\ volatile(h, p) \in BOOLEAN
      BY DEF parent_takeable, volatile
    <3> QED BY <1>9, <3>1
  <2>2. assess_writability(u, p) = assess_writability(h, p)
    BY <1>7
  <2> QED BY <2>1, <2>2, Zenon DEF pam_entry
<1>11. ASSUME NEW l PROVE pam_line(u, l) = pam_line(h, l)
  <2> DEFINE p == canonical(h, l[2])
             S(x) == \/ p \notin x.pam_dirs
                     \/ assess_writability(x, p) = "NonRootWritable"
                     \/ volatile(x, p) \/ parent_takeable(x, p)
             L(x) == IF l[1] = "exec" THEN pam_entry("ExecScript", x, l[2])
                     ELSE Where(S(x), pam_entry("Module", x, p))
  <2>1. canonical(u, l[2]) = p
    BY <1>7
  <2>2. pam_line(h, l) = L(h)
    BY Zenon DEF pam_line
  <2>3. pam_line(u, l) = L(u)
    BY <2>1, Zenon DEF pam_line
  <2> HIDE DEF p
  <2>4. S(u) <=> S(h)
    BY <1>7, <1>9
  <2> HIDE DEF S
  <2>5. L(u) = L(h)
    BY <1>10, <2>4 DEF Where
  <2> HIDE DEF L
  <2> QED BY <2>2, <2>3, <2>5
<1>12. lines(u) = lines(h)
  <2> HIDE DEF read, services
  <2> QED BY <1>6, <1>8
<1>13. loads(u) = loads(h)
  <2> HIDE DEF lines
  <2> QED BY <1>11, <1>12
<1>14. slots(u) = slots(h)
  <2> HIDE DEF services
  <2> QED BY <1>7, <1>8, <1>10
<1>15. kept(u) = kept(h)
  <2> HIDE DEF slots, loads
  <2> QED BY <1>13, <1>14, Zenon
<1> HIDE DEF kept
<1>16. scan_pam(u).found = scan_pam(h).found
  BY <1>4, <1>15
<1> QED BY <1>16 DEF u

(* Units and cron tables. *)
LEMMA SameExec ==
    ASSUME NEW h, Machine(h), scan_exec_provenance(h).warns = {}
    PROVE  scan_exec_provenance(ideal(h)).found = scan_exec_provenance(h).found
<1> DEFINE u == ideal(h)
           read(x, p) == read_file_capped_regular(x, p)
           dirs == DOMAIN UNIT_DIRS
           pieces(x) == UNION {{scan_service_file(x, v, UNIT_DIRS[d]) : v \in units_of(x, d)} : d \in dirs}
           units(x) == All(pieces(x))
           cron(x) == scan_cron_files(x).found
           kept(x) == Capped(units(x).found \cup cron(x), MAX_EXEC_FINDINGS, "exec")
           W(x) == units(x).warns \cup kept(x).warns
<1>1. \A x : \E A : scan_exec_provenance(x) = Asking(kept(x).found, W(x), A)
  BY Zenon DEF scan_exec_provenance
<1>2. scan_exec_provenance(u).found = kept(u).found /\ scan_exec_provenance(h).found = kept(h).found /\ W(h) = {}
  <2> HIDE DEF kept, W, u
  <2> QED BY <1>1, PieceFields
<1>3. units(h).warns = {}
  <2> HIDE DEF kept, units
  <2> QED BY <1>2
<1>4. \A q \in pieces(h) : q.warns = {}
  <2> HIDE DEF pieces
  <2>1. units(h).warns = UNION {q.warns : q \in pieces(h)}
    BY PieceFields
  <2>2. UNION {q.warns : q \in pieces(h)} = {}
    BY <1>3, <2>1
  <2> SUFFICES ASSUME NEW q \in pieces(h), NEW w \in q.warns PROVE FALSE
    OBVIOUS
  <2>3. w \in UNION {x.warns : x \in pieces(h)}
    OBVIOUS
  <2> QED BY <2>2, <2>3
<1>5. ASSUME NEW d \in dirs PROVE units_of(u, d) = units_of(h, d)
  <2>1. d \in PassedOver(h)
    BY DEF PassedOver, PersistenceSilent
  <2>2. dir_entries(u, d) = dir_entries(h, d)
    BY <2>1, IdealEntries
  <2>3. ASSUME NEW p \in dir_entries(h, d), is_dir(h, p) PROVE dir_entries(u, p) = dir_entries(h, p)
    <3>1. p \in children(h, d)
      BY DEF dir_entries
    <3>2. p \in {v \in UNION {children(h, e) : e \in DOMAIN UNIT_DIRS} : is_dir(h, v)}
      BY <2>3, <3>1
    <3>3. p \in PassedOver(h)
      BY <3>2 DEF PassedOver, PersistenceSilent
    <3> QED BY <3>3, IdealEntries
  <2>4. \A p : is_dir(u, p) <=> is_dir(h, p)
    BY IdealPaths
  <2> DEFINE plain(x) == {p \in dir_entries(x, d) : ~is_dir(x, p)}
             drop(x) == UNION {dir_entries(x, p) : p \in {q \in dir_entries(x, d) : is_dir(x, q)}}
  <2> HIDE DEF u
  <2>5. plain(u) = plain(h)
    BY <2>2, <2>4
  <2>6. drop(u) = drop(h)
    BY <2>2, <2>3, <2>4
  <2>7. \A x : units_of(x, d) = plain(x) \cup drop(x)
    BY Zenon DEF units_of
  <2> HIDE DEF plain, drop
  <2> QED BY <2>5, <2>6, <2>7
<1>6. ASSUME NEW d \in dirs, NEW v \in units_of(h, d) PROVE read(u, v) = read(h, v)
  <2>1. scan_service_file(h, v, UNIT_DIRS[d]) \in pieces(h)
    <3> HIDE DEF dirs
    <3> QED OBVIOUS
  <2>2. \E F : scan_service_file(h, v, UNIT_DIRS[d]) = Piece(F, Notes(v, read(h, v), AnyError))
    BY Zenon DEF scan_service_file
  <2> HIDE DEF pieces, read
  <2>3. Notes(v, read(h, v), AnyError) = {}
    BY <1>4, <2>1, <2>2, PieceFields
  <2> QED BY <2>3, SameRegular DEF AnyError, read
<1>7. /\ u.volatile = h.volatile
      /\ \A p : canonical(u, p) = canonical(h, p)
      /\ \A p : assess_writability(u, p) = assess_writability(h, p)
  BY IdealRest, IdealWritable
<1>8. \A p \in {"crontab"} \cup dir_entries(h, "cron.d") : read(u, p) = read(h, p)
  <2> SUFFICES ASSUME NEW p \in {"crontab"} \cup dir_entries(h, "cron.d") PROVE read(u, p) = read(h, p)
    OBVIOUS
  <2>1. p \in {"crontab"} \cup children(h, "cron.d")
    BY DEF dir_entries
  <2>2. p \in PassedOver(h) \cap CutUnsaid(h)
    BY <2>1 DEF PassedOver, CutUnsaid, PersistenceSilent
  <2> QED BY <2>2, IdealRead
<1>9. dir_entries(u, "cron.d") = dir_entries(h, "cron.d")
  <2>1. "cron.d" \in PassedOver(h)
    BY DEF PassedOver, PersistenceSilent
  <2> QED BY <2>1, IdealEntries
<1> HIDE DEF u
<1>10. ASSUME NEW p, NEW unit, NEW as_root PROVE exec_entry(u, p, unit, as_root) = exec_entry(h, p, unit, as_root)
  BY <1>7, Zenon DEF exec_entry, volatile
<1>11. cron(u) = cron(h)
  <2> DEFINE tables(x) == {"crontab"} \cup dir_entries(x, "cron.d")
             E(x, p) == {exec_entry(x, l[2], p, l[3] = "root") : l \in ToSet(read(x, p).lines)}
             C(x) == UNION {E(x, p) : p \in tables(x)}
  <2>1. \A x : scan_cron_files(x) = Piece(C(x), {})
    BY Zenon DEF scan_cron_files
  <2>2. ASSUME NEW p \in tables(h) PROVE E(u, p) = E(h, p)
    <3>1. read(u, p) = read(h, p)
      BY <1>8
    <3> HIDE DEF read
    <3> QED BY <1>10, <3>1
  <2>3. tables(u) = tables(h)
    BY <1>9
  <2> HIDE DEF E, tables
  <2>4. C(u) = C(h)
    BY <2>2, <2>3
  <2> HIDE DEF C
  <2> QED BY <2>1, <2>4
<1>12. pieces(u) = pieces(h)
  <2>1. ASSUME NEW d \in dirs, NEW v \in units_of(h, d)
        PROVE  scan_service_file(u, v, UNIT_DIRS[d]) = scan_service_file(h, v, UNIT_DIRS[d])
    <3> DEFINE o == UNIT_DIRS[d]
               F(x, r) == {exec_entry(x, l[2], v, runs_as_root(o, r.lines)) : l \in {l \in ToSet(r.lines) : l[1] = "Exec"}}
               G(x, r) == Piece(F(x, r), Notes(v, r, AnyError))
    <3>1. \A x : scan_service_file(x, v, o) = G(x, read_file_capped_regular(x, v))
      BY Zenon DEF scan_service_file
    <3>2. read_file_capped_regular(u, v) = read_file_capped_regular(h, v)
      BY <1>6
    <3>3. ASSUME NEW r PROVE F(u, r) = F(h, r)
      <4> HIDE DEF o
      <4> QED BY <1>10
    <3>4. ASSUME NEW r PROVE G(u, r) = G(h, r)
      <4> HIDE DEF F
      <4> QED BY <3>3, Zenon
    <3> HIDE DEF G, o
    <3>5. scan_service_file(u, v, o) = scan_service_file(h, v, o)
      BY <3>1, <3>2, <3>4, Zenon
    <3> QED BY <3>5 DEF o
  <2> DEFINE J(x, d) == {scan_service_file(x, v, UNIT_DIRS[d]) : v \in units_of(x, d)}
  <2>2. ASSUME NEW d \in dirs PROVE J(u, d) = J(h, d)
    <3> HIDE DEF dirs
    <3> QED BY <1>5, <2>1
  <2> HIDE DEF J, dirs
  <2>3. UNION {J(u, d) : d \in dirs} = UNION {J(h, d) : d \in dirs}
    BY <2>2
  <2> QED BY <2>3, Zenon DEF J
<1>13. kept(u) = kept(h)
  <2> HIDE DEF pieces, cron
  <2> QED BY <1>11, <1>12, Zenon
<1> HIDE DEF kept
<1>14. scan_exec_provenance(u).found = scan_exec_provenance(h).found
  BY <1>2, <1>13
<1> QED BY <1>14 DEF u

(* It is a machine. *)
LEMMA IdealMachine == ASSUME NEW h, Machine(h) PROVE Machine(ideal(h))
<1> DEFINE u == ideal(h)
           E == PassedOver(h)
           C == CutUnsaid(h)
<1>1. /\ u.file = [p \in DOMAIN h.file |-> Freed(h, E, p)]
      /\ u.cap = [p \in DOMAIN h.file |-> Uncapped(h, C, p)]
      /\ \A x \in Fields \ {"file", "cap"} : u[x] = h[x]
  BY IdealFields
<1>2. u = [x \in Fields |-> u[x]]
  <2>1. /\ unhindered(h, E, C).file = [p \in DOMAIN h.file |-> Freed(h, E, p)]
        /\ unhindered(h, E, C).cap = [p \in DOMAIN h.file |-> Uncapped(h, C, p)]
        /\ unhindered(h, E, C) = [x \in Fields |-> unhindered(h, E, C)[x]]
        /\ \A x \in Fields \ {"file", "cap"} : unhindered(h, E, C)[x] = h[x]
    BY UnhinderedFields
  <2>2. u = unhindered(h, E, C)
    BY IdealDef
  <2> HIDE DEF u, E, C
  <2> QED BY <2>1, <2>2
<1>3. u.proc = h.proc /\ u.busy = h.busy /\ u.rpm = h.rpm
  BY <1>1 DEF Fields
<1>4. children(u, "dpkg_info") = children(h, "dpkg_info")
  BY IdealPaths
<1>5. /\ DOMAIN u.file = DOMAIN h.file
      /\ \A p \in DOMAIN h.file :
                 /\ u.file[p].kind = h.file[p].kind
                 /\ u.file[p].lines = h.file[p].lines
                 /\ u.file[p].children = h.file[p].children
                 /\ u.file[p].unsafe = h.file[p].unsafe
  BY IdealFiles
<1>6. lines_in(u, {"apk_installed"}) = lines_in(h, {"apk_installed"})
  <2> HIDE DEF u
  <2> QED BY <1>5 DEF lines_in
<1>7. ASSUME NEW p \in DOMAIN u.file PROVE File(u.file[p])
  <2>0. p \in DOMAIN h.file
    BY <1>5
  <2>1. u.file[p] = Freed(h, E, p)
    BY <1>1, <2>0
  <2>2. /\ Freed(h, E, p) = [x \in {"kind", "open", "lines", "children", "unsafe"} |-> Freed(h, E, p)[x]]
        /\ Freed(h, E, p).open \in BOOLEAN
    BY <2>0, FreedFacts
  <2>3. File(h.file[p])
    BY <2>0 DEF Machine
  <2>4. u.file[p] = [x \in {"kind", "open", "lines", "children", "unsafe"} |-> u.file[p][x]] /\ u.file[p].open \in BOOLEAN
    <3> HIDE DEF u, E
    <3> QED BY <2>1, <2>2
  <2> HIDE DEF u
  <2>5. u.file[p].lines \in Seq(ToSet(u.file[p].lines)) /\ IsFiniteSet(u.file[p].children)
        /\ (u.file[p].kind = "dir" => u.file[p].lines = <<>>)
    BY <1>5, <2>0, <2>3, Zenon DEF File
  <2> QED BY <2>4, <2>5, Zenon DEF File
<1>8. u.cap \in [DOMAIN u.file -> Nat]
  <2>1. \A p \in DOMAIN h.file : Uncapped(h, C, p) \in Nat
    <3> SUFFICES ASSUME NEW p \in DOMAIN h.file PROVE Uncapped(h, C, p) \in Nat
      OBVIOUS
    <3>1. h.cap[p] \in Nat /\ h.file[p].lines \in Seq(ToSet(h.file[p].lines))
      BY DEF Machine, File
    <3>2. Len(h.file[p].lines) \in Nat
      BY <3>1
    <3> HIDE DEF C
    <3> QED BY <3>1, <3>2 DEF Uncapped
  <2> HIDE DEF u, C
  <2> QED BY <1>1, <1>5, <2>1
<1>9. u.file = [p \in DOMAIN u.file |-> u.file[p]]
  <2> HIDE DEF u, E
  <2> QED BY <1>1
<1> HIDE DEF u
<1>10. Machine(u)
  <2>1. /\ IsFiniteSet(DOMAIN h.file) /\ IsFiniteSet(DOMAIN h.proc) /\ h.busy \subseteq Tasks
        /\ "none" \notin children(h, "dpkg_info")
        /\ \A l \in lines_in(h, {"apk_installed"}) : l[3] # "none"
        /\ \A p \in DOMAIN h.rpm : h.rpm[p] # "none"
    BY Zenon DEF Machine
  <2>2. IsFiniteSet(DOMAIN u.file) /\ IsFiniteSet(DOMAIN u.proc) /\ u.busy \subseteq Tasks
    BY <1>3, <1>5, <2>1
  <2>3. /\ "none" \notin children(u, "dpkg_info")
        /\ \A l \in lines_in(u, {"apk_installed"}) : l[3] # "none"
        /\ \A p \in DOMAIN u.rpm : u.rpm[p] # "none"
    BY <1>3, <1>4, <1>6, <2>1
  <2> QED BY <1>2, <1>7, <1>8, <1>9, <2>2, <2>3, Zenon DEF Machine
<1> QED BY <1>10 DEF u

(* Nothing is in sshd's way on either. *)
LEMMA SameEverywhere == ASSUME NEW h, Machine(h) PROVE Everywhere(ideal(h)) = Everywhere(h)
<1> DEFINE u == ideal(h)
           a == unhindered(h, {}, {})
           b == unhindered(u, {}, {})
<1>1. /\ a.file = [p \in DOMAIN h.file |-> Freed(h, {}, p)]
      /\ a.cap = [p \in DOMAIN h.file |-> Uncapped(h, {}, p)]
      /\ a = [x \in Fields |-> a[x]]
      /\ \A x \in Fields \ {"file", "cap"} : a[x] = h[x]
  BY UnhinderedFields
<1>2. Machine(u)
  BY IdealMachine
<1>3. /\ b.file = [p \in DOMAIN u.file |-> Freed(u, {}, p)]
      /\ b.cap = [p \in DOMAIN u.file |-> Uncapped(u, {}, p)]
      /\ b = [x \in Fields |-> b[x]]
      /\ \A x \in Fields \ {"file", "cap"} : b[x] = u[x]
  BY <1>2, UnhinderedFields
<1>4. \A x \in Fields \ {"file", "cap"} : u[x] = h[x]
  <2>1. /\ u.file = [p \in DOMAIN h.file |-> Freed(h, PassedOver(h), p)]
        /\ u.cap = [p \in DOMAIN h.file |-> Uncapped(h, CutUnsaid(h), p)]
        /\ \A x \in Fields \ {"file", "cap"} : u[x] = h[x]
    BY IdealFields
  <2> QED BY <2>1
<1>5. /\ DOMAIN u.file = DOMAIN h.file
      /\ \A p \in DOMAIN h.file :
                 /\ u.file[p].kind = h.file[p].kind
                 /\ u.file[p].lines = h.file[p].lines
                 /\ u.file[p].children = h.file[p].children
                 /\ u.file[p].unsafe = h.file[p].unsafe
  BY IdealFiles
<1>6. ASSUME NEW p \in DOMAIN h.file PROVE Freed(u, {}, p) = Freed(h, {}, p) /\ Uncapped(u, {}, p) = Uncapped(h, {}, p)
  <2> DEFINE f == Freed(h, {}, p)
             g == Freed(u, {}, p)
             K == {"kind", "open", "lines", "children", "unsafe"}
  <2>0. p \in DOMAIN u.file
    BY <1>5
  <2>1. /\ f.kind = h.file[p].kind /\ f.lines = h.file[p].lines
        /\ f.children = h.file[p].children /\ f.unsafe = h.file[p].unsafe
        /\ f.open <=> (p \in {} => h.file[p].open)
        /\ f = [x \in K |-> f[x]]
        /\ f.open \in BOOLEAN
    BY FreedFacts
  <2>2. /\ g.kind = u.file[p].kind /\ g.lines = u.file[p].lines
        /\ g.children = u.file[p].children /\ g.unsafe = u.file[p].unsafe
        /\ g.open <=> (p \in {} => u.file[p].open)
        /\ g = [x \in K |-> g[x]]
        /\ g.open \in BOOLEAN
    BY <1>2, <2>0, FreedFacts
  <2> HIDE DEF f, g, u
  <2>3. g.open = f.open
    BY <2>1, <2>2
  <2>4. \A x \in K : g[x] = f[x]
    BY <1>5, <2>1, <2>2, <2>3
  <2> HIDE DEF K
  <2>5. g = f
    BY <2>1, <2>2, <2>4
  <2>6. Uncapped(u, {}, p) = Uncapped(h, {}, p)
    BY <1>5 DEF Uncapped
  <2> QED BY <2>5, <2>6 DEF f, g
<1> HIDE DEF u, a, b
<1>7. a.file = b.file /\ a.cap = b.cap
  BY <1>1, <1>3, <1>5, <1>6
<1>8. \A x \in Fields : b[x] = a[x]
  BY <1>1, <1>3, <1>4, <1>7
<1>9. a = b
  <2> HIDE DEF Fields
  <2> QED BY <1>1, <1>3, <1>8
<1> QED BY <1>9 DEF a, b, u, Everywhere

(* What sshd says of itself. *)
LEMMA SameSshdT ==
    ASSUME NEW h, Machine(h)
    PROVE  /\ sshd_T(ideal(h)) = sshd_T(h)
           /\ \A lines, d : sshd_facts(ideal(h), lines, d) = sshd_facts(h, lines, d)
<1> DEFINE u == ideal(h)
<1>1. Everywhere(u) = Everywhere(h)
  BY SameEverywhere
<1>2. exists(u, "sshd_config") = exists(h, "sshd_config")
  <2>1. DOMAIN u.file = DOMAIN h.file
    BY IdealFiles
  <2> QED BY <2>1, Zenon DEF exists
<1>3. \A p : assess_writability(u, p) = assess_writability(h, p)
  BY IdealWritable
<1> HIDE DEF u
<1>4. sshd_lines(u) = sshd_lines(h)
  <2> DEFINE S(all, there) ==
        LET expanded[d \in 0..SERVCONF_MAX_DEPTH] ==
              [p \in DOMAIN all.file |->
                  IF d = 0 THEN <<>>
                  ELSE LET lines == all.file[p].lines
                       IN FlattenSeq([i \in DOMAIN lines |-> sshd_line(all, lines[i], expanded[d - 1])])]
        IN IF there THEN expanded[SERVCONF_MAX_DEPTH]["sshd_config"] ELSE <<>>
  <2>1. \A x : sshd_lines(x) = S(Everywhere(x), exists(x, "sshd_config"))
    BY Zenon DEF sshd_lines, Everywhere
  <2> HIDE DEF S
  <2> QED BY <1>1, <1>2, <2>1, Zenon
<1>5. ASSUME NEW lines, NEW d PROVE sshd_facts(u, lines, d) = sshd_facts(h, lines, d)
  <2> DEFINE M == {m \in ToSet(lines) : m[1] \in SSHD_SENSITIVE /\ ~neutral(m[1], m[2])}
             D(x) == {<<"sshd_directives", l[1], assess_writability(x, l[2])>> : l \in M}
             A == Where(first_value(lines, "passwordauthentication", "yes") = "yes", {<<"password_auth">>})
             B == {<<"root_login", first_value(lines, "permitrootlogin", d)>>}
  <2>1. \A x : sshd_facts(x, lines, d) = A \cup B \cup D(x)
    BY Zenon DEF sshd_facts
  <2>2. D(u) = D(h)
    <3> HIDE DEF M
    <3> QED BY <1>3
  <2> HIDE DEF A, B, D
  <2> QED BY <2>1, <2>2
<1>6. sshd_T(u) = sshd_T(h)
  BY <1>4, <1>5, Zenon DEF sshd_T
<1> QED BY <1>5, <1>6 DEF u

(* What the fallback reads of sshd_config. *)
LEMMA SameSshd ==
    ASSUME NEW h, Machine(h), scan_sshd(h).warns = {}
    PROVE  scan_sshd(ideal(h)).found = scan_sshd(h).found
<1> DEFINE u == ideal(h)
<1>0. u.sshd = h.sshd
  BY IdealRest
<1>1. CASE h.sshd
  <2>1. sshd_T(u) = sshd_T(h)
    BY SameSshdT
  <2>2. scan_sshd(u) = Piece(sshd_T(u), {}) /\ scan_sshd(h) = Piece(sshd_T(h), {})
    BY <1>0, <1>1, Zenon DEF scan_sshd
  <2> QED BY <2>1, <2>2
<1>2. CASE ~h.sshd
  <2> DEFINE read(x, p) == read_file_capped_regular(x, p)
             r == read(h, "sshd_config")
             parts == UNION {ToSet(fallback_included(h, l)) :
                                l \in {m \in ToSet(r.lines) : m[1] = "Include"}}
             A == Notes("sshd_config", r, ErrorsButMissing)
             B == UNION {Notes(p, read(h, p), {"InvalidData"}) : p \in parts}
  <2>1. scan_sshd(u) = fallback_parse_main_config(u) /\ scan_sshd(h) = fallback_parse_main_config(h)
    BY <1>0, <1>2, Zenon DEF scan_sshd
  <2>2. PICK V : fallback_parse_main_config(h) = Piece(FallbackFound(h), A \cup B \cup V)
    BY FallbackDef
  <2>3. \E Z : fallback_parse_main_config(u) = Piece(FallbackFound(u), Z)
    BY Zenon DEF fallback_parse_main_config, FallbackFound, FallbackLines
  <2>4. scan_sshd(u).found = FallbackFound(u) /\ scan_sshd(h).found = FallbackFound(h) /\ A \cup B \cup V = {}
    <3> HIDE DEF A, B, u
    <3> QED BY <2>1, <2>2, <2>3, PieceFields
  <2>5. A = {} /\ B = {}
    <3> HIDE DEF A, B
    <3> QED BY <2>4
  <2>6. read(u, "sshd_config") = r
    BY <2>5, SameRegular DEF ErrorsButMissing
  <2>7. ASSUME NEW l \in ToSet(r.lines), l[1] = "Include", NEW p \in ToSet(l[2])
        PROVE  p.at \in PassedOver(h) /\ children(h, p.at) \subseteq PassedOver(h)
    <3> DEFINE M == {m \in lines_in(h, {"sshd_config"}) : m[1] = "Include"}
               N == {k.at : k \in UNION {ToSet(m[2]) : m \in M}}
    <3>1. l \in M
      <4>1. ToSet(r.lines) \subseteq lines_in(h, {"sshd_config"})
        BY ReadRegular
      <4> HIDE DEF r
      <4> QED BY <2>7, <4>1
    <3>2. p \in UNION {ToSet(m[2]) : m \in M}
      <4> HIDE DEF M
      <4> QED BY <2>7, <3>1
    <3>3. p.at \in N
      <4> HIDE DEF M
      <4> QED BY <3>2
    <3>4. N \cup UNION {children(h, d) : d \in N} \subseteq PassedOver(h)
      <4>1. AccessSilent(h).errors = N \cup (UNION {children(h, d) : d \in N}) \cup h.sysctl
                   \cup {"core_pattern"}
                   \cup {q \in {"sudoers"} \cup {k[2] : k \in {m \in lines_in(h, DOMAIN h.file) : m[1] \in {"include", "includedir"}}} : is_dir(h, q)}
        BY DEF AccessSilent
      <4> HIDE DEF N
      <4> QED BY <4>1 DEF PassedOver
    <3> HIDE DEF N
    <3> QED BY <3>3, <3>4
  <2>8. ASSUME NEW l \in ToSet(r.lines) PROVE fallback_lines(u, l) = fallback_lines(h, l)
    <3>1. CASE l[1] # "Include"
      BY <3>1 DEF fallback_lines
    <3>2. CASE l[1] = "Include"
      <4> DEFINE at == l[2][1].at
                 files == fallback_included(h, l)
                 S(x) == [i \in DOMAIN files |-> read(x, files[i]).lines]
      <4>1. l[2][1] \in ToSet(l[2]) => at \in PassedOver(h) /\ children(h, at) \subseteq PassedOver(h)
        BY <2>7, <3>2
      <4>2. fallback_included(u, l) = files
        <5>1. CASE l[2][1] \in ToSet(l[2])
          <6>1. dir_entries(u, at) = dir_entries(h, at)
            BY <4>1, <5>1, IdealEntries
          <6> QED BY <6>1 DEF fallback_included
        <5>2. CASE l[2][1] \notin ToSet(l[2])
          <6>1. ~alone(l)
            <7> SUFFICES ASSUME alone(l) PROVE FALSE
              OBVIOUS
            <7>1. 1 \in DOMAIN l[2]
              BY DEF alone
            <7> QED BY <5>2, <7>1 DEF ToSet
          <6> QED BY <6>1 DEF fallback_included
        <5> QED BY <5>1, <5>2
      <4>3. fallback_lines(h, l) = FlattenSeq(S(h))
        BY <3>2, Zenon DEF fallback_lines
      <4>4. fallback_lines(u, l) = FlattenSeq(S(u))
        BY <3>2, <4>2, Zenon DEF fallback_lines
      <4>5. ASSUME NEW i \in DOMAIN files PROVE read(u, files[i]) = read(h, files[i])
        <5>1. files[i] \in ToSet(files)
          BY DEF ToSet
        <5>2. files[i] \in parts
          <6> HIDE DEF r
          <6> QED BY <3>2, <5>1
        <5>3. Notes(files[i], read(h, files[i]), {"InvalidData"}) = {}
          <6> HIDE DEF parts, files, read
          <6> QED BY <2>5, <5>2
        <5>4. files[i] \in PassedOver(h)
          <6>1. /\ ToSet(files) \subseteq {at} \cup children(h, at)
                /\ ToSet(files) # {} => l[2][1] \in ToSet(l[2])
            BY FallbackParts
          <6> HIDE DEF files, at
          <6> QED BY <4>1, <5>1, <6>1
        <5> QED BY <5>3, <5>4, SameRegular
      <4>6. S(u) = S(h)
        <5> HIDE DEF read, u, files
        <5> QED BY <4>5
      <4> HIDE DEF S
      <4> QED BY <4>3, <4>4, <4>6
    <3> QED BY <3>1, <3>2
  <2>9. FallbackLines(u) = FallbackLines(h)
    <3> DEFINE G(x, q) == [i \in DOMAIN q.lines |-> fallback_lines(x, q.lines[i])]
    <3>1. \A x : FallbackLines(x) = FlattenSeq(G(x, read_file_capped_regular(x, "sshd_config")))
      BY Zenon DEF FallbackLines
    <3>2. \A i \in DOMAIN r.lines : r.lines[i] \in ToSet(r.lines)
      <4> HIDE DEF r
      <4> QED BY DEF ToSet
    <3>3. G(u, r) = G(h, r)
      <4> HIDE DEF r, u
      <4> QED BY <2>8, <3>2
    <3> HIDE DEF G
    <3>4. FallbackLines(u) = FlattenSeq(G(u, r))
      BY <2>6, <3>1
    <3>5. FallbackLines(h) = FlattenSeq(G(h, r))
      BY <3>1
    <3> QED BY <3>3, <3>4, <3>5
  <2>10. FallbackFound(u) = FallbackFound(h)
    <3> DEFINE Q(facts) == {f \in facts : f[1] # "root_login" \/ f[2] = "no"}
                           \cup Where(<<"root_login", "no">> \notin facts, {<<"root_login", "yes">>})
    <3>1. \A x : FallbackFound(x) = Q(sshd_facts(x, before_match(FallbackLines(x)), "yes"))
      BY Zenon DEF FallbackFound
    <3>2. \A lines, d : sshd_facts(u, lines, d) = sshd_facts(h, lines, d)
      BY SameSshdT
    <3> HIDE DEF Q, u
    <3> QED BY <2>9, <3>1, <3>2, Zenon
  <2> QED BY <2>4, <2>10
<1> QED BY <1>1, <1>2

-------------------------------------------------------------------------------
(* The walk of the sudoers files. *)

(* A directory that an include of sudo's names may be closed without a word. *)
Passes(h, f) == is_dir(h, f) /\ ~listable(h, f) => f \in PassedOver(h)

(* The file that an include names is read, or its failure is noted. *)
LEMMA NamedPasses ==
    ASSUME NEW h, Machine(h), NEW l \in lines_in(h, DOMAIN h.file), l[1] \in {"include", "includedir"}
    PROVE  Passes(h, l[2])
<1> DEFINE N == {k[2] : k \in {m \in lines_in(h, DOMAIN h.file) : m[1] \in {"include", "includedir"}}}
           S == {k.at : k \in UNION {ToSet(m[2]) :
                    m \in {x \in lines_in(h, {"sshd_config"}) : x[1] = "Include"}}}
<1>1. AccessSilent(h).errors = S \cup (UNION {children(h, d) : d \in S}) \cup h.sysctl
                   \cup {"core_pattern"} \cup {p \in {"sudoers"} \cup N : is_dir(h, p)}
  BY DEF AccessSilent
<1>2. l[2] \in N
  OBVIOUS
<1> HIDE DEF N, S
<1> QED BY <1>1, <1>2 DEF Passes, PassedOver

(* So are the two files the walk starts from. *)
LEMMA RootPasses ==
    ASSUME NEW h, Machine(h)
    PROVE  Passes(h, "sudoers")
<1> DEFINE N == {k[2] : k \in {m \in lines_in(h, DOMAIN h.file) : m[1] \in {"include", "includedir"}}}
           S == {k.at : k \in UNION {ToSet(m[2]) :
                    m \in {x \in lines_in(h, {"sshd_config"}) : x[1] = "Include"}}}
<1>1. AccessSilent(h).errors = S \cup (UNION {children(h, d) : d \in S}) \cup h.sysctl
                   \cup {"core_pattern"} \cup {p \in {"sudoers"} \cup N : is_dir(h, p)}
  BY DEF AccessSilent
<1> HIDE DEF N, S
<1> QED BY <1>1 DEF Passes, PassedOver

(* A file that was read leads to the same files. *)
LEMMA SameLeads ==
    ASSUME NEW h, Machine(h), NEW f, Passes(h, f),
           is_dir(h, f) \/ Notes(f, read_file_capped_regular(h, f), AnyError) = {}
    PROVE  /\ leads_to(ideal(h), f) = leads_to(h, f)
           /\ ~is_dir(h, f) => read_file_capped_regular(ideal(h), f) = read_file_capped_regular(h, f)
           /\ is_dir(ideal(h), f) = is_dir(h, f)
<1> DEFINE u == ideal(h)
           read(x) == read_file_capped_regular(x, f)
<1>1. \A p : (is_file(u, p) <=> is_file(h, p)) /\ (is_dir(u, p) <=> is_dir(h, p))
  BY IdealPaths
<1>2. \A S : regular(u, S) = regular(h, S)
  <2> HIDE DEF u
  <2> QED BY <1>1 DEF regular
<1>3. is_dir(u, f) = is_dir(h, f)
  <2>1. is_dir(u, f) \in BOOLEAN /\ is_dir(h, f) \in BOOLEAN
    BY DEF is_dir
  <2> QED BY <1>1, <2>1
<1>4. CASE is_dir(h, f)
  <2>1. dir_entries(u, f) = dir_entries(h, f)
    BY IdealEntries DEF Passes
  <2>2. leads_to(h, f) = SetToSeq(regular(h, dir_entries(h, f)))
        /\ leads_to(u, f) = SetToSeq(regular(u, dir_entries(u, f)))
    BY <1>1, <1>4, Zenon DEF leads_to
  <2> HIDE DEF u
  <2>3. leads_to(u, f) = leads_to(h, f)
    BY <1>2, <2>1, <2>2
  <2> QED BY <1>3, <1>4, <2>3 DEF u
<1>5. CASE ~is_dir(h, f)
  <2>1. read(u) = read(h)
    BY <1>5, SameRegular DEF AnyError
  <2> DEFINE lines == read(h).lines
             T(x) == [i \in DOMAIN lines |-> targets(x, lines[i])]
  <2>2. leads_to(h, f) = FlattenSeq(T(h))
    BY <1>5, Zenon DEF leads_to
  <2>3. leads_to(u, f) = FlattenSeq(T(u))
    <3>1. leads_to(u, f) = FlattenSeq([i \in DOMAIN read(u).lines |-> targets(u, read(u).lines[i])])
      BY <1>1, <1>5, Zenon DEF leads_to
    <3> HIDE DEF read, u
    <3> QED BY <2>1, <3>1, Zenon
  <2>4. ASSUME NEW i \in DOMAIN lines PROVE targets(u, lines[i]) = targets(h, lines[i])
    <3> DEFINE l == lines[i]
    <3>1. ToSet(lines) \subseteq lines_in(h, {f}) /\ l \in ToSet(lines)
      <4>1. ToSet(lines) \subseteq lines_in(h, {f})
        BY ReadRegular
      <4> HIDE DEF lines
      <4> QED BY <4>1 DEF ToSet
    <3>2. l \in lines_in(h, DOMAIN h.file)
      <4> HIDE DEF lines, l
      <4> QED BY <3>1 DEF lines_in
    <3> HIDE DEF l, lines
    <3>3. CASE l[1] = "includedir"
      <4>1. Passes(h, l[2])
        BY <3>2, <3>3, NamedPasses
      <4>2. dir_entries(u, l[2]) = dir_entries(h, l[2])
        BY <4>1, IdealEntries DEF Passes
      <4>3. targets(u, l) = SetToSeq(regular(u, dir_entries(u, l[2])))
            /\ targets(h, l) = SetToSeq(regular(h, dir_entries(h, l[2])))
        BY <3>3, Zenon DEF targets
      <4> HIDE DEF u
      <4>4. targets(u, l) = targets(h, l)
        BY <1>2, <4>2, <4>3
      <4> QED BY <4>4 DEF l
    <3>4. CASE l[1] # "includedir"
      <4>1. targets(u, l) = targets(h, l)
        BY <3>4 DEF targets
      <4> QED BY <4>1 DEF l
    <3> QED BY <3>3, <3>4
  <2>5. T(u) = T(h)
    <3> HIDE DEF lines, u
    <3> QED BY <2>4
  <2> HIDE DEF T, u
  <2>6. leads_to(u, f) = leads_to(h, f)
    BY <2>2, <2>3, <2>5
  <2> QED BY <1>3, <2>1, <2>6 DEF u, read
<1> QED BY <1>4, <1>5

(* A turn without a word is the same turn, and leads to what may be passed over. *)
LEMMA SameTurn ==
    ASSUME NEW h, Machine(h), NEW s, s.queue # <<>> => Passes(h, Last(s.queue).file),
           next_file(h, s).warns = {}
    PROVE  next_file(ideal(h), s) = next_file(h, s) /\ s.warns = {}
<1> DEFINE u == ideal(h)
           top == Last(s.queue)
           f == top.file
           popped == Front(s.queue)
           pushed(L) == popped \o queued(L, top.depth + 1)
           r == read_file_capped_regular(h, f)
           F(L, dir, q) ==
             IF s.queue = <<>> THEN s
             ELSE IF Cardinality(s.visited) >= MAX_SUDOERS_FILES
                  THEN Progress(<<>>, s.visited, s.entries, s.warns \cup {<<f, "budget">>})
             ELSE IF top.depth > MAX_INCLUDE_DEPTH
                  THEN Progress(popped, s.visited, s.entries, s.warns \cup {<<f, "depth">>})
             ELSE IF f \in s.visited THEN Progress(popped, s.visited, s.entries, s.warns)
             ELSE IF dir THEN Progress(pushed(L), s.visited \cup {f}, s.entries, s.warns)
             ELSE Progress(pushed(L), s.visited \cup {f}, s.entries \cup ToSet(q.lines),
                           s.warns \cup Notes(f, q, AnyError))
<1>1. \A x : next_file(x, s) = F(leads_to(x, f), is_dir(x, f), read_file_capped_regular(x, f))
  BY Zenon DEF next_file
<1>2. s.warns = {}
  <2>1. \/ s.queue = <<>> /\ next_file(h, s) = s
        \/ /\ s.queue # <<>> /\ next_file(h, s).visited = s.visited
           /\ next_file(h, s).warns # {} /\ next_file(h, s).queue \in {<<>>, Front(s.queue)}
        \/ /\ s.queue # <<>> /\ f \in s.visited
           /\ next_file(h, s).queue = Front(s.queue) /\ next_file(h, s).visited = s.visited
           /\ next_file(h, s).entries = s.entries /\ next_file(h, s).warns = s.warns
        \/ /\ s.queue # <<>> /\ f \notin s.visited /\ ~(Cardinality(s.visited) >= MAX_SUDOERS_FILES)
           /\ next_file(h, s).queue = pushed(leads_to(h, f)) /\ next_file(h, s).visited = s.visited \cup {f}
           /\ \/ is_dir(h, f) /\ next_file(h, s).entries = s.entries /\ next_file(h, s).warns = s.warns
              \/ /\ ~is_dir(h, f) /\ next_file(h, s).entries = s.entries \cup ToSet(r.lines)
                 /\ next_file(h, s).warns = s.warns \cup Notes(f, r, AnyError)
    BY TurnCases
  <2> HIDE DEF f, r, pushed
  <2> QED BY <2>1
<1> DEFINE opens == /\ s.queue # <<>> /\ ~(Cardinality(s.visited) >= MAX_SUDOERS_FILES)
                    /\ ~(top.depth > MAX_INCLUDE_DEPTH) /\ f \notin s.visited
<1>3. CASE ~opens
  <2>1. \A L, d, q, L2, d2, q2 : F(L, d, q) = F(L2, d2, q2)
    BY <1>3, Zenon
  <2> HIDE DEF F
  <2> QED BY <1>1, <1>2, <2>1
<1>4. CASE opens
  <2>1. Passes(h, f)
    BY <1>4
  <2>2. is_dir(h, f) \/ Notes(f, r, AnyError) = {}
    <3> SUFFICES ASSUME ~is_dir(h, f) PROVE Notes(f, r, AnyError) = {}
      OBVIOUS
    <3> DEFINE P == Progress(pushed(leads_to(h, f)), s.visited \cup {f}, s.entries \cup ToSet(r.lines),
                             s.warns \cup Notes(f, r, AnyError))
    <3>1. F(leads_to(h, f), is_dir(h, f), r) = P
      <4> HIDE DEF f, r, pushed
      <4> QED BY <1>4
    <3>2. next_file(h, s) = P
      <4> HIDE DEF F, P
      <4> QED BY <1>1, <3>1
    <3>3. P.warns = s.warns \cup Notes(f, r, AnyError)
      <4> HIDE DEF f, r, pushed
      <4> QED BY ProgressFields
    <3> HIDE DEF P, f, r
    <3> QED BY <3>2, <3>3
  <2>3. /\ leads_to(u, f) = leads_to(h, f)
        /\ ~is_dir(h, f) => read_file_capped_regular(u, f) = r
        /\ is_dir(u, f) = is_dir(h, f)
    <3> HIDE DEF f
    <3> QED BY <2>1, <2>2, SameLeads
  <2>4. CASE is_dir(h, f)
    <3>1. \A L, q : F(L, is_dir(h, f), q) = F(L, is_dir(h, f), r)
      BY <2>4, Zenon
    <3> HIDE DEF F, f, r, u
    <3>2. next_file(u, s) = F(leads_to(h, f), is_dir(h, f), read_file_capped_regular(u, f))
      BY <1>1, <2>3
    <3>3. next_file(h, s) = F(leads_to(h, f), is_dir(h, f), r)
      BY <1>1 DEF r
    <3>4. next_file(u, s) = next_file(h, s)
      BY <3>1, <3>2, <3>3
    <3> QED BY <1>2, <3>4 DEF u
  <2>5. CASE ~is_dir(h, f)
    <3> HIDE DEF F, f, u
    <3>1. next_file(u, s) = next_file(h, s)
      BY <1>1, <2>3, <2>5
    <3> QED BY <1>2, <3>1 DEF u
  <2> QED BY <2>4, <2>5
<1> QED BY <1>3, <1>4

(* A turn puts only such files in the queue. *)
LEMMA TurnPasses ==
    ASSUME NEW h, Machine(h), NEW s, Shaped(h, s), \A f \in QFiles(s.queue) : Passes(h, f)
    PROVE  /\ \A f \in QFiles(next_file(h, s).queue) : Passes(h, f)
           /\ s.queue # <<>> => Last(s.queue).file \in QFiles(s.queue)
<1> DEFINE t == next_file(h, s)
           top == Last(s.queue)
           f == top.file
           more == queued(leads_to(h, f), top.depth + 1)
           pushed == Front(s.queue) \o more
           r == read_file_capped_regular(h, f)
<1>1. \/ s.queue = <<>> /\ t = s
      \/ /\ s.queue # <<>> /\ t.visited = s.visited
         /\ t.warns # {} /\ t.queue \in {<<>>, Front(s.queue)}
      \/ /\ s.queue # <<>> /\ f \in s.visited
         /\ t.queue = Front(s.queue) /\ t.visited = s.visited /\ t.entries = s.entries
         /\ t.warns = s.warns
      \/ /\ s.queue # <<>> /\ f \notin s.visited /\ ~(Cardinality(s.visited) >= MAX_SUDOERS_FILES)
         /\ t.queue = pushed /\ t.visited = s.visited \cup {f}
         /\ \/ is_dir(h, f) /\ t.entries = s.entries /\ t.warns = s.warns
            \/ /\ ~is_dir(h, f) /\ t.entries = s.entries \cup ToSet(r.lines)
               /\ t.warns = s.warns \cup Notes(f, r, AnyError)
  BY TurnCases
<1>2. s.queue = <<>> \/ (s.queue # <<>> /\ t.queue \in {<<>>, Front(s.queue), pushed})
  <2> HIDE DEF t, f, r, pushed
  <2> QED BY <1>1
<1>3. s.queue = <<>> => t = s
  <2> HIDE DEF t, f, r, pushed
  <2> QED BY <1>1
<1>4. CASE s.queue = <<>>
  <2>1. QFiles(t.queue) = QFiles(s.queue)
    BY <1>3, <1>4
  <2> QED BY <1>4, <2>1
<1>5. CASE s.queue # <<>>
  <2>1. s.queue \in Seq(Item(h))
    BY DEF Shaped
  <2>2. Front(s.queue) \in Seq(Item(h)) /\ Last(s.queue) \in Item(h)
    BY <1>5, <2>1, FrontFacts
  <2>3. top.depth \in Nat /\ top.depth + 1 \in Nat
    BY <2>2 DEF Item
  <2>4. /\ leads_to(h, f) \in Seq(Names(h)) /\ Len(leads_to(h, f)) <= Width(h)
        /\ ToSet(leads_to(h, f)) = IF is_dir(h, f) THEN regular(h, dir_entries(h, f))
                                   ELSE UNION {ToSet(targets(h, l)) : l \in ToSet(r.lines)}
        /\ Width(h) \in Nat
    BY LeadsFacts
  <2>5. more \in Seq(Item(h)) /\ QFiles(more) = ToSet(leads_to(h, f))
    BY <2>3, <2>4, QueuedFacts
  <2>6. QFiles(s.queue) = QFiles(Front(s.queue)) \cup {f} /\ QFiles(pushed) = QFiles(Front(s.queue)) \cup QFiles(more)
    <3> HIDE DEF more
    <3> QED BY <1>5, <2>1, <2>5, QueueFiles
  <2>7. QFiles(<<>>) = {}
    BY DEF QFiles, ToSet
  <2>8. QFiles(t.queue) \subseteq QFiles(s.queue) \cup ToSet(leads_to(h, f))
    <3> HIDE DEF t, f, pushed, more
    <3> QED BY <1>2, <1>5, <2>5, <2>6, <2>7
  <2>9. ASSUME NEW g \in ToSet(leads_to(h, f)) PROVE Passes(h, g)
    <3>1. \A S : \A p \in regular(h, S) : Passes(h, p)
      BY DEF regular, Passes, is_file, is_dir
    <3>2. CASE is_dir(h, f)
      BY <2>4, <2>9, <3>1, <3>2
    <3>3. CASE ~is_dir(h, f)
      <4>1. PICK l \in ToSet(r.lines) : g \in ToSet(targets(h, l))
        <5> HIDE DEF r, f
        <5> QED BY <2>4, <2>9, <3>3
      <4>2. ToSet(r.lines) \subseteq lines_in(h, {f})
        BY ReadRegular
      <4>3. l \in lines_in(h, DOMAIN h.file)
        <5> HIDE DEF r, f
        <5> QED BY <4>1, <4>2 DEF lines_in
      <4>4. ToSet(targets(h, l)) = IF l[1] = "include" THEN {l[2]}
                                   ELSE IF l[1] = "includedir" THEN regular(h, dir_entries(h, l[2]))
                                   ELSE {}
        BY <4>3, TargetsFacts
      <4>5. CASE l[1] = "include"
        BY <4>1, <4>3, <4>4, <4>5, NamedPasses
      <4>6. CASE l[1] # "include"
        BY <3>1, <4>1, <4>4, <4>6
      <4> QED BY <4>5, <4>6
    <3> QED BY <3>2, <3>3
  <2> QED BY <2>6, <2>8, <2>9
<1> QED BY <1>4, <1>5

(* The same bound on the turns. *)
LEMMA SameTurns ==
    ASSUME NEW h, Machine(h), NEW roots
    PROVE  turns(ideal(h), roots) = turns(h, roots)
<1> DEFINE u == ideal(h)
           L(x) == {Len(x.file[p].lines) : p \in DOMAIN x.file}
           B(x) == {Cardinality(x.file[p].children) : p \in DOMAIN x.file}
           F(l, b) == Len(roots) + MAX_SUDOERS_FILES * ((Max(l \cup {0}) + 1) * (Max(b \cup {0}) + 1))
<1>1. \A x : turns(x, roots) = F(L(x), B(x))
  BY Zenon DEF turns
<1>2. L(u) = L(h) /\ B(u) = B(h)
  <2>1. /\ DOMAIN u.file = DOMAIN h.file
        /\ \A p \in DOMAIN h.file :
                 /\ u.file[p].kind = h.file[p].kind
                 /\ u.file[p].lines = h.file[p].lines
                 /\ u.file[p].children = h.file[p].children
                 /\ u.file[p].unsafe = h.file[p].unsafe
    BY IdealFiles
  <2> HIDE DEF u
  <2> QED BY <2>1
<1> HIDE DEF F, L, B
<1> QED BY <1>1, <1>2

(* The whole walk, turn by turn. *)
LEMMA SameSudoers ==
    ASSUME NEW h, Machine(h), exists(h, "sudoers.d") => h.file["sudoers.d"].open,
           scan_sudoers(h).warns = {}
    PROVE  scan_sudoers(ideal(h)) = scan_sudoers(h)
<1> DEFINE u == ideal(h)
           roots == <<"sudoers", "sudoers.d">>
           T == turns(h, roots)
           start == Progress(queued(roots, 0), {}, {}, {})
<1>1. /\ Width(h) \in Nat /\ MAX_SUDOERS_FILES \in Nat /\ Len(roots) = 2
  BY LeadsFacts, SudoersLimits
<1>2. T \in Nat
  <2>1. T = Len(roots) + MAX_SUDOERS_FILES * Width(h)
    BY Zenon DEF turns, Width, Longest, Broadest
  <2>2. MAX_SUDOERS_FILES * Width(h) \in Nat
    BY <1>1
  <2> HIDE DEF T, roots
  <2> QED BY <1>1, <2>1, <2>2
<1>3. turns(u, roots) = T
  BY SameTurns
<1> HIDE DEF T, roots
<1>4. PICK a : /\ a = [n \in 0 .. T |-> IF n = 0 THEN start ELSE next_file(h, a[n - 1])]
               /\ each_sudoers_entry_from(h, roots) = a[T]
  BY <1>2, AfterDef DEF T
<1>5. PICK b : /\ b = [n \in 0 .. T |-> IF n = 0 THEN start ELSE next_file(u, b[n - 1])]
               /\ each_sudoers_entry_from(u, roots) = b[T]
  <2>1. turns(u, roots) \in Nat
    BY <1>2, <1>3
  <2>2. \E f : /\ f = [n \in 0 .. turns(u, roots) |-> IF n = 0 THEN start ELSE next_file(u, f[n - 1])]
               /\ each_sudoers_entry_from(u, roots) = f[turns(u, roots)]
    BY <2>1, AfterDef
  <2> HIDE DEF u, start
  <2> QED BY <1>3, <2>2
<1> HIDE DEF start, u
<1>6. /\ \A n \in 0 .. T : a[n] = IF n = 0 THEN start ELSE next_file(h, a[n - 1])
      /\ \A n \in 0 .. T : b[n] = IF n = 0 THEN start ELSE next_file(u, b[n - 1])
  BY <1>4, <1>5
<1>7. scan_sudoers(h) = a[T] /\ scan_sudoers(u) = b[T]
  BY <1>4, <1>5 DEF scan_sudoers, roots
<1> DEFINE fine(s) == Shaped(h, s) /\ \A f \in QFiles(s.queue) : Passes(h, f)
<1>8. fine(start)
  <2>1. roots \in Seq(Names(h)) /\ ToSet(roots) = {"sudoers", "sudoers.d"}
    BY DEF Names, ToSet, roots
  <2>2. queued(roots, 0) \in Seq(Item(h)) /\ QFiles(queued(roots, 0)) = ToSet(roots)
    BY <2>1, QueuedFacts
  <2>3. start.queue = queued(roots, 0) /\ start.visited = {}
    BY ProgressFields DEF start
  <2>4. IsFiniteSet({}) /\ Cardinality({}) = 0
    BY FS_EmptySet
  <2>5. Shaped(h, start)
    BY <1>1, <2>2, <2>3, <2>4 DEF Shaped
  <2>6. Passes(h, "sudoers") /\ Passes(h, "sudoers.d")
    BY RootPasses DEF Passes, listable, is_dir
  <2> QED BY <2>1, <2>2, <2>3, <2>5, <2>6
<1>9. ASSUME NEW s, fine(s) PROVE fine(next_file(h, s))
  <2> DEFINE R == Len(s.queue)
             c == Cardinality(s.visited)
  <2>1. R \in Nat /\ c \in Nat
    BY <1>9, FS_CardinalityType DEF Shaped
  <2>2. c * Width(h) \in Nat
    BY <1>1, <2>1
  <2>3. R + 0 <= R + c * Width(h)
    <3> DEFINE k == c * Width(h)
    <3> HIDE DEF k, R
    <3>1. k \in Nat
      BY <2>2 DEF k
    <3>2. R + 0 <= R + k
      BY <2>1, <3>1
    <3> QED BY <3>2 DEF k
  <2>4. /\ Shaped(h, next_file(h, s))
        /\ \/ next_file(h, s).queue = <<>>
           \/ Len(next_file(h, s).queue) + (0 + 1) <= R + Cardinality(next_file(h, s).visited) * Width(h)
    <3>1. 0 \in Nat
      OBVIOUS
    <3> QED BY <1>9, <2>1, <2>3, <3>1, TurnShaped
  <2>5. \A f \in QFiles(next_file(h, s).queue) : Passes(h, f)
    BY <1>9, TurnPasses
  <2> QED BY <2>4, <2>5
<1>10. ASSUME NEW s, fine(s), next_file(h, s).warns = {}
       PROVE  next_file(u, s) = next_file(h, s) /\ s.warns = {}
  <2>1. s.queue # <<>> => Last(s.queue).file \in QFiles(s.queue)
    BY <1>10, TurnPasses
  <2>2. s.queue # <<>> => Passes(h, Last(s.queue).file)
    BY <1>10, <2>1
  <2> QED BY <1>10, <2>2, SameTurn DEF u
<1> HIDE DEF fine
<1>11. \A n \in 0 .. T : fine(a[n])
  <2> DEFINE X == {n \in 0 .. T : ~fine(a[n])}
  <2> SUFFICES ASSUME X # {} PROVE FALSE
    OBVIOUS
  <2>1. X \in SUBSET Nat
    BY <1>2
  <2>2. PICK n \in X : \A m \in X : n <= m
    BY <2>1, LeastNumber
  <2>3. n \in 0 .. T /\ ~fine(a[n])
    BY <2>2
  <2>4. n # 0
    BY <1>6, <1>8, <2>3
  <2>5. n - 1 \in 0 .. T /\ ~(n <= n - 1)
    BY <1>2, <2>3, <2>4
  <2>6. n - 1 \notin X
    BY <2>2, <2>5
  <2>7. fine(a[n - 1])
    BY <2>5, <2>6
  <2>8. a[n] = next_file(h, a[n - 1])
    BY <1>6, <2>3, <2>4
  <2> QED BY <1>9, <2>3, <2>7, <2>8
<1>12. \A n \in 0 .. T : a[n].warns = {}
  <2> DEFINE X == {k \in 0 .. T : a[T - k].warns # {}}
  <2>1. X = {}
    <3> SUFFICES ASSUME X # {} PROVE FALSE
      OBVIOUS
    <3>1. X \in SUBSET Nat
      BY <1>2
    <3>2. PICK k \in X : \A m \in X : k <= m
      BY <3>1, LeastNumber
    <3>3. k \in 0 .. T /\ a[T - k].warns # {}
      BY <3>2
    <3>4. k # 0
      <4> SUFFICES ASSUME k = 0 PROVE FALSE
        OBVIOUS
      <4>1. T - k = T
        BY <1>2
      <4> QED BY <1>7, <3>3, <4>1
    <3>5. k - 1 \in 0 .. T /\ ~(k <= k - 1) /\ T - k \in 0 .. T /\ T - (k - 1) \in 0 .. T
          /\ T - (k - 1) # 0 /\ (T - (k - 1)) - 1 = T - k
      BY <1>2, <3>3, <3>4
    <3>6. k - 1 \notin X
      BY <3>2, <3>5
    <3>7. a[T - (k - 1)].warns = {}
      BY <3>5, <3>6
    <3>8. a[T - (k - 1)] = next_file(h, a[T - k])
      BY <1>6, <3>5
    <3>9. fine(a[T - k])
      BY <1>11, <3>5
    <3> QED BY <1>10, <3>3, <3>7, <3>8, <3>9
  <2> SUFFICES ASSUME NEW n \in 0 .. T PROVE a[n].warns = {}
    OBVIOUS
  <2>2. T - n \in 0 .. T /\ T - (T - n) = n
    BY <1>2
  <2>3. T - n \notin X
    BY <2>1
  <2> HIDE DEF X
  <2>4. ~(a[T - (T - n)].warns # {})
    BY <2>2, <2>3 DEF X
  <2> QED BY <2>2, <2>4
<1>13. \A n \in 0 .. T : b[n] = a[n]
  <2> DEFINE X == {n \in 0 .. T : b[n] # a[n]}
  <2> SUFFICES ASSUME X # {} PROVE FALSE
    OBVIOUS
  <2>1. X \in SUBSET Nat
    BY <1>2
  <2>2. PICK n \in X : \A m \in X : n <= m
    BY <2>1, LeastNumber
  <2>3. n \in 0 .. T /\ b[n] # a[n]
    BY <2>2
  <2>4. n # 0
    BY <1>6, <2>3
  <2>5. n - 1 \in 0 .. T /\ ~(n <= n - 1)
    BY <1>2, <2>3, <2>4
  <2>6. n - 1 \notin X
    BY <2>2, <2>5
  <2>7. b[n - 1] = a[n - 1]
    BY <2>5, <2>6
  <2>8. a[n] = next_file(h, a[n - 1]) /\ b[n] = next_file(u, b[n - 1])
    BY <1>6, <2>3, <2>4
  <2>9. next_file(u, a[n - 1]) = next_file(h, a[n - 1])
    BY <1>10, <1>11, <1>12, <2>3, <2>5, <2>8
  <2> QED BY <2>3, <2>7, <2>8, <2>9
<1>14. b[T] = a[T]
  BY <1>2, <1>13
<1> QED BY <1>7, <1>14 DEF u

(* The rules found in what was read. *)
LEMMA SameRules ==
    ASSUME NEW h, Machine(h), exists(h, "sudoers.d") => h.file["sudoers.d"].open,
           sudoers_nopasswd_all(h).warns = {}
    PROVE  /\ sudoers_nopasswd_all(ideal(h)).found = sudoers_nopasswd_all(h).found
           /\ gather_sudo_nopasswd(ideal(h)).found = gather_sudo_nopasswd(h).found
<1> DEFINE u == ideal(h)
           rules(s) == {e \in s.entries : e[1] = "nopasswd"}
           verdict(s, e) == resolves_to_all(s.entries, e[3])
           free(s) == {x \in rules(s) : verdict(s, x) = "yes"} \cup {x \in s.entries : x[1] = "noauth"}
           F(s) == {<<"sudoers_nopasswd_all", e[2]>> : e \in free(s)}
           W(s) == s.warns \cup {<<e[3], "alias chain">> : e \in {x \in rules(s) : verdict(s, x) = "cut"}}
<1>1. \A x : sudoers_nopasswd_all(x) = Piece(F(scan_sudoers(x)), W(scan_sudoers(x)))
  BY Zenon DEF sudoers_nopasswd_all
<1>2. sudoers_nopasswd_all(h).warns = W(scan_sudoers(h))
  <2> HIDE DEF F, W
  <2> QED BY <1>1, PieceFields
<1>3. scan_sudoers(h).warns = {}
  <2> HIDE DEF rules, verdict
  <2> QED BY <1>2
<1>4. scan_sudoers(u) = scan_sudoers(h)
  BY <1>3, SameSudoers
<1>5. sudoers_nopasswd_all(u) = sudoers_nopasswd_all(h)
  <2> HIDE DEF F, W, u
  <2> QED BY <1>1, <1>4
<1>6. gather_sudo_nopasswd(u) = gather_sudo_nopasswd(h)
  <2> DEFINE R(s) == {e \in s.entries : e[1] \in {"nopasswd", "noauth"}}
             own(s, x) == {e \in R(s) : e[1] = "nopasswd" /\ e[3] = "owlzops-mapper"
                                    /\ assess_writability(x, e[3]) = "RootOnly"}
             G(s, o) == Piece({<<"sudo_nopasswd_entries", e[2], e[1]>> : e \in R(s) \ o},
                              Where(o # {}, {<<"owlzops-mapper", "excluded">>}))
  <2>1. \A x : gather_sudo_nopasswd(x) = G(scan_sudoers(x), own(scan_sudoers(x), x))
    BY Zenon DEF gather_sudo_nopasswd
  <2>2. \A p : assess_writability(u, p) = assess_writability(h, p)
    BY IdealWritable
  <2> HIDE DEF u
  <2>3. \A s : own(s, u) = own(s, h)
    <3> HIDE DEF R
    <3> QED BY <2>2
  <2> HIDE DEF G, own
  <2> QED BY <1>4, <2>1, <2>3
<1> QED BY <1>5, <1>6

-------------------------------------------------------------------------------
(* The loader and the binary directories. *)

(* Two runs whose steps are the same as long as nothing is said: if nothing is said at the end,
   the ends are the same. *)
LEMMA SameRuns ==
    ASSUME NEW N \in Nat, NEW a, NEW b, b[0] = a[0],
           \A n \in 1 .. N : a[n].warns = {} => a[n - 1].warns = {},
           \A n \in 1 .. N : a[n].warns = {} /\ b[n - 1] = a[n - 1] => b[n] = a[n],
           a[N].warns = {}
    PROVE  b[N] = a[N] /\ a[0].warns = {}
<1>1. \A n \in 0 .. N : a[n].warns = {}
  <2> DEFINE X == {k \in 0 .. N : a[N - k].warns # {}}
  <2>1. X = {}
    <3> SUFFICES ASSUME X # {} PROVE FALSE
      OBVIOUS
    <3>1. PICK k \in X : \A m \in X : k <= m
      <4>1. X \in SUBSET Nat
        OBVIOUS
      <4> QED BY <4>1, LeastNumber
    <3>2. k \in 0 .. N /\ a[N - k].warns # {}
      BY <3>1
    <3>3. k # 0
      <4> SUFFICES ASSUME k = 0 PROVE FALSE
        OBVIOUS
      <4>1. N - k = N
        OBVIOUS
      <4> QED BY <3>2, <4>1
    <3>4. k - 1 \in 0 .. N /\ ~(k <= k - 1) /\ N - (k - 1) \in 1 .. N /\ (N - (k - 1)) - 1 = N - k
      BY <3>2, <3>3
    <3>5. k - 1 \notin X
      BY <3>1, <3>4
    <3>6. a[N - (k - 1)].warns = {}
      BY <3>4, <3>5
    <3>7. a[(N - (k - 1)) - 1].warns = {}
      BY <3>4, <3>6
    <3> QED BY <3>2, <3>4, <3>7
  <2> SUFFICES ASSUME NEW n \in 0 .. N PROVE a[n].warns = {}
    OBVIOUS
  <2>2. N - n \in 0 .. N /\ N - (N - n) = n
    OBVIOUS
  <2>3. ~(a[N - (N - n)].warns # {})
    BY <2>1, <2>2
  <2> QED BY <2>2, <2>3
<1>2. \A n \in 0 .. N : b[n] = a[n]
  <2> DEFINE X == {n \in 0 .. N : b[n] # a[n]}
  <2> SUFFICES ASSUME X # {} PROVE FALSE
    OBVIOUS
  <2>1. PICK n \in X : \A m \in X : n <= m
    <3>1. X \in SUBSET Nat
      OBVIOUS
    <3> QED BY <3>1, LeastNumber
  <2>2. n \in 0 .. N /\ b[n] # a[n]
    BY <2>1
  <2>3. n \in 1 .. N /\ n - 1 \in 0 .. N /\ ~(n <= n - 1)
    BY <2>2
  <2>4. n - 1 \notin X
    BY <2>1, <2>3
  <2>5. b[n - 1] = a[n - 1]
    BY <2>3, <2>4
  <2> QED BY <1>1, <2>2, <2>3, <2>5
<1> QED BY <1>1, <1>2

(* The worklist of the loader's files. *)
LEMMA WorklistFields ==
    /\ \A q, s, d, w : LET l == Worklist(q, s, d, w) IN
                      l.queue = q /\ l.seen = s /\ l.dirs = d /\ l.warns = w
    /\ \A l, x : Warned(l, x).warns = l.warns \cup {x}
    /\ \A l, files : l.warns \subseteq Grow(l, files).warns
BY DEF Worklist, Warned, Grow

(* An include that is taken in without a word. *)
LEMMA SameInclude ==
    ASSUME NEW h, Machine(h), NEW w, NEW l, expand_include(h, w, l).warns = {}
    PROVE  expand_include(ideal(h), w, l) = expand_include(h, w, l) /\ w.warns = {}
<1> DEFINE u == ideal(h)
           full == Len(w.queue) >= MAX_QUEUE_LEN
           p == l[2]
           A == Warned(w, <<"ld.so.conf", "queue">>)
           B == Worklist(Append(w.queue, p), w.seen, w.dirs, w.warns)
           C(x) == Grow(w, SetToSeq(dir_entries(x, p)))
           D == Warned(w, <<p, "unreadable">>)
<1>1. \A x : expand_include(x, w, l) =
               IF full THEN A ELSE IF l[1] = "include" /\ ~is_dir(x, p) THEN B
               ELSE IF listable(x, p) THEN C(x) ELSE D
  BY Zenon DEF expand_include
<1>2. is_dir(u, p) <=> is_dir(h, p)
  BY IdealPaths
<1>3. listable(h, p) => dir_entries(u, p) = dir_entries(h, p) /\ (listable(u, p) <=> listable(h, p))
  BY IdealEntries
<1>4. A.warns # {} /\ D.warns # {} /\ B.warns = w.warns /\ w.warns \subseteq C(h).warns
  <2>1. \A x : Warned(w, x).warns # {}
    <3> SUFFICES ASSUME NEW x PROVE Warned(w, x).warns # {}
      OBVIOUS
    <3>1. Warned(w, x).warns = w.warns \cup {x}
      BY Zenon, WorklistFields
    <3>2. x \in w.warns \cup {x}
      OBVIOUS
    <3> QED BY Zenon, <3>1, <3>2
  <2>2. A.warns # {} /\ D.warns # {}
    BY <2>1
  <2>3. B.warns = w.warns
    BY WorklistFields
  <2>4. \A files : w.warns \subseteq Grow(w, files).warns
    BY WorklistFields
  <2>5. w.warns \subseteq C(h).warns
    BY <2>4
  <2> QED BY <2>2, <2>3, <2>5
<1> HIDE DEF u, full, A, B, C, D
<1>5. CASE full
  <2>1. expand_include(h, w, l) = A
    BY <1>1, <1>5
  <2> QED BY <1>4, <2>1
<1>6. CASE ~full /\ l[1] = "include" /\ ~is_dir(h, p)
  <2>1. expand_include(h, w, l) = B /\ expand_include(u, w, l) = B
    BY <1>1, <1>2, <1>6
  <2> QED BY <1>4, <2>1 DEF u
<1>7. CASE ~full /\ ~(l[1] = "include" /\ ~is_dir(h, p))
  <2>1. listable(h, p)
    <3> SUFFICES ASSUME ~listable(h, p) PROVE FALSE
      OBVIOUS
    <3>1. expand_include(h, w, l) = D
      BY <1>1, <1>7
    <3> QED BY <1>4, <3>1
  <2>2. C(u) = C(h)
    BY <1>3, <2>1 DEF C
  <2>3. expand_include(h, w, l) = C(h) /\ expand_include(u, w, l) = C(u)
    BY <1>1, <1>2, <1>3, <1>7, <2>1
  <2> QED BY <1>4, <2>2, <2>3 DEF u
<1> QED BY <1>5, <1>6, <1>7

(* The lines of a file, one after the other. *)
Taken(h, line, w) == IF line[1] = "dir" THEN w ELSE expand_include(h, w, line)

(* The lines of a loader file are taken in one after the other (ld_so_conf::parse_conf_file). *)
LEMMA ExpandDef ==
    ASSUME NEW h, NEW w, NEW lines, Len(lines) \in Nat
    PROVE  \E upto : /\ upto = [i \in 0 .. Len(lines) |-> IF i = 0 THEN w ELSE Taken(h, lines[i], upto[i - 1])]
                     /\ expand_all(h, w, lines) = upto[Len(lines)]
<1> DEFINE P(f, n) == f = [i \in 0 .. n |-> IF i = 0 THEN w ELSE Taken(h, lines[i], f[i - 1])]
<1>1. \A n \in Nat : \E f : P(f, n)
  <2> DEFINE T == {n \in Nat : ~ \E f : P(f, n)}
  <2> SUFFICES ASSUME T # {} PROVE FALSE
    OBVIOUS
  <2>1. PICK n \in T : \A m \in T : n <= m
    BY LeastNumber
  <2>2. n # 0
    <3>1. P([i \in 0 .. 0 |-> w], 0)
      OBVIOUS
    <3> QED BY <2>1, <3>1
  <2>3. PICK f : P(f, n - 1)
    <3> HIDE DEF P
    <3>1. n - 1 \in Nat /\ ~(n <= n - 1)
      BY <2>1, <2>2
    <3>2. n - 1 \notin T
      BY <2>1, <3>1
    <3> QED BY <3>1, <3>2
  <2> DEFINE g == [i \in 0 .. n |-> IF i = 0 THEN w ELSE Taken(h, lines[i], f[i - 1])]
  <2>4. \A i \in 0 .. (n - 1) : g[i] = f[i]
    <3> SUFFICES ASSUME NEW i \in 0 .. (n - 1) PROVE g[i] = f[i]
      OBVIOUS
    <3>1. f[i] = IF i = 0 THEN w ELSE Taken(h, lines[i], f[i - 1])
      BY <2>3
    <3>2. i \in 0 .. n
      BY <2>1
    <3> QED BY <3>1, <3>2
  <2>5. P(g, n)
    <3>1. ASSUME NEW i \in 0 .. n
          PROVE  g[i] = IF i = 0 THEN w ELSE Taken(h, lines[i], g[i - 1])
      <4>1. i # 0 => i - 1 \in 0 .. (n - 1)
        BY <2>1
      <4>2. i # 0 => g[i - 1] = f[i - 1]
        BY <2>4, <4>1
      <4>3. g[i] = IF i = 0 THEN w ELSE Taken(h, lines[i], f[i - 1])
        OBVIOUS
      <4> HIDE DEF g
      <4> QED BY <4>2, <4>3
    <3>2. g = [i \in 0 .. n |-> g[i]]
      OBVIOUS
    <3> HIDE DEF g
    <3> QED BY <3>1, <3>2
  <2> QED BY <2>1, <2>5
<1>2. PICK e : P(e, Len(lines))
  BY <1>1
<1> DEFINE F == CHOOSE f : P(f, Len(lines))
<1>3. P(F, Len(lines))
  BY <1>2
<1>4. expand_all(h, w, lines) = F[Len(lines)]
  BY Zenon DEF expand_all, Taken
<1> HIDE DEF F
<1> QED BY <1>3, <1>4

(* Lines taken in without a word are taken in the same on the ideal machine. *)
LEMMA SameExpansion ==
    ASSUME NEW h, Machine(h), NEW w, NEW lines, Len(lines) \in Nat, expand_all(h, w, lines).warns = {}
    PROVE  expand_all(ideal(h), w, lines) = expand_all(h, w, lines) /\ w.warns = {}
<1> DEFINE u == ideal(h)
           N == Len(lines)
<1> HIDE DEF u
<1>1. PICK a : /\ a = [i \in 0 .. N |-> IF i = 0 THEN w ELSE Taken(h, lines[i], a[i - 1])]
               /\ expand_all(h, w, lines) = a[N]
  BY ExpandDef
<1>2. PICK b : /\ b = [i \in 0 .. N |-> IF i = 0 THEN w ELSE Taken(u, lines[i], b[i - 1])]
               /\ expand_all(u, w, lines) = b[N]
  BY ExpandDef
<1> HIDE DEF N
<1>0. N \in Nat
  BY DEF N
<1>3. a[0] = w /\ b[0] = w
      /\ \A n \in 1 .. N : a[n] = Taken(h, lines[n], a[n - 1]) /\ b[n] = Taken(u, lines[n], b[n - 1])
  <2>1. \A n \in 0 .. N : a[n] = IF n = 0 THEN w ELSE Taken(h, lines[n], a[n - 1])
    BY <1>1
  <2>2. \A n \in 0 .. N : b[n] = IF n = 0 THEN w ELSE Taken(u, lines[n], b[n - 1])
    BY <1>2
  <2> QED BY <1>0, <2>1, <2>2
<1>4. ASSUME NEW l, NEW s, Taken(h, l, s).warns = {}
      PROVE  Taken(u, l, s) = Taken(h, l, s) /\ s.warns = {}
  <2>1. CASE l[1] = "dir"
    BY <1>4, <2>1 DEF Taken
  <2>2. CASE l[1] # "dir"
    <3>1. Taken(h, l, s) = expand_include(h, s, l) /\ Taken(u, l, s) = expand_include(u, s, l)
      BY <2>2 DEF Taken
    <3>2. expand_include(h, s, l).warns = {}
      BY <1>4, <3>1
    <3> QED BY <3>1, <3>2, SameInclude DEF u
  <2> QED BY <2>1, <2>2
<1>5. \A n \in 1 .. N : a[n].warns = {} => a[n - 1].warns = {}
  BY <1>3, <1>4
<1>6. \A n \in 1 .. N : a[n].warns = {} /\ b[n - 1] = a[n - 1] => b[n] = a[n]
  BY <1>3, <1>4
<1>7. b[N] = a[N] /\ a[0].warns = {}
  <2>1. b[0] = a[0] /\ a[N].warns = {}
    <3>1. expand_all(h, w, lines).warns = {}
      OBVIOUS
    <3> QED BY <1>1, <1>3, <3>1
  <2> HIDE DEF u
  <2> QED BY <1>0, <2>1, <1>5, <1>6, SameRuns
<1> QED BY <1>1, <1>2, <1>3, <1>7 DEF u

(* One file. *)
LEMMA SameConf ==
    ASSUME NEW h, Machine(h), NEW w, next_conf(h, w).warns = {}
    PROVE  next_conf(ideal(h), w) = next_conf(h, w) /\ w.warns = {}
<1> DEFINE u == ideal(h)
           f == Last(w.queue)
           popped == Front(w.queue)
           r == read_file_capped_regular(h, f)
           read(q) == Worklist(popped, w.seen \cup {f},
                               w.dirs \cup {l[2] : l \in {m \in ToSet(q.lines) : m[1] = "dir"}},
                               w.warns \cup Notes(f, q, ErrorsButMissing))
           none_left == w.queue = <<>>
           full == Cardinality(w.seen) >= MAX_CONF_FILES
           again == f \in w.seen
           A == Worklist(<<>>, w.seen, w.dirs, w.warns \cup {<<"ld.so.conf", "files">>})
           B == Worklist(popped, w.seen, w.dirs, w.warns)
           C(x, q) == expand_all(x, read(q), q.lines)
<1>1. \A x : next_conf(x, w) = IF none_left THEN w ELSE IF full THEN A ELSE IF again THEN B
                               ELSE C(x, read_file_capped_regular(x, f))
  BY Zenon DEF next_conf
<1>2. A.warns # {} /\ B.warns = w.warns /\ \A q : read(q).warns = w.warns \cup Notes(f, q, ErrorsButMissing)
  <2> HIDE DEF f, popped
  <2>1. A.warns # {} /\ B.warns = w.warns
    <3> DEFINE W == w.warns \cup {<<"ld.so.conf", "files">>}
    <3>1. A = Worklist(<<>>, w.seen, w.dirs, W)
      OBVIOUS
    <3>2. W # {}
      OBVIOUS
    <3> HIDE DEF A, W
    <3>3. A.warns = W
      BY <3>1, WorklistFields
    <3>4. B = Worklist(popped, w.seen, w.dirs, w.warns)
      OBVIOUS
    <3> HIDE DEF B
    <3>5. B.warns = w.warns
      BY <3>4, WorklistFields
    <3> QED BY <3>2, <3>3, <3>5
  <2>2. \A q : read(q).warns = w.warns \cup Notes(f, q, ErrorsButMissing)
    <3> SUFFICES ASSUME NEW q PROVE read(q).warns = w.warns \cup Notes(f, q, ErrorsButMissing)
      OBVIOUS
    <3> DEFINE D == w.dirs \cup {l[2] : l \in {m \in ToSet(q.lines) : m[1] = "dir"}}
               W == w.warns \cup Notes(f, q, ErrorsButMissing)
    <3>1. read(q) = Worklist(popped, w.seen \cup {f}, D, W)
      OBVIOUS
    <3> HIDE DEF D, W
    <3>2. read(q).warns = W
      BY <3>1, WorklistFields
    <3> QED BY <3>2 DEF W
  <2> QED BY <2>1, <2>2
<1> HIDE DEF A, B, C, none_left, full, again, u
<1>3. CASE none_left
  BY <1>1, <1>3 DEF u
<1>4. CASE ~none_left /\ full
  <2>1. next_conf(h, w) = A
    BY <1>1, <1>4
  <2> QED BY <1>2, <2>1
<1>5. CASE ~none_left /\ ~full /\ again
  <2>1. next_conf(h, w) = B /\ next_conf(u, w) = B
    BY <1>1, <1>5
  <2> QED BY <1>2, <2>1 DEF u
<1>6. CASE ~none_left /\ ~full /\ ~again
  <2>1. next_conf(h, w) = C(h, r) /\ next_conf(u, w) = C(u, read_file_capped_regular(u, f))
    BY <1>1, <1>6
  <2>2. Len(r.lines) \in Nat
    <3>1. /\ r.err \in {"none", "NotFound", "PermissionDenied", "InvalidData"}
          /\ r.truncated \in BOOLEAN
          /\ r.err # "none" => r.lines = <<>> /\ ~r.truncated
          /\ r.err = "none" =>
                 /\ f \in DOMAIN h.file /\ h.file[f].open /\ is_file(h, f)
                 /\ r.lines \in Seq(ToSet(h.file[f].lines)) /\ Len(r.lines) <= Len(h.file[f].lines)
                 /\ ToSet(r.lines) \subseteq ToSet(h.file[f].lines)
                 /\ ~r.truncated => r.lines = h.file[f].lines
          /\ ToSet(r.lines) \subseteq lines_in(h, {f})
      BY ReadRegular
    <3> HIDE DEF r
    <3>2. r.lines = <<>> \/ r.lines \in Seq(ToSet(h.file[f].lines))
      BY <3>1
    <3> QED BY <3>2
  <2>3. expand_all(h, read(r), r.lines).warns = {}
    BY <2>1 DEF C
  <2> HIDE DEF read, r
  <2>4. expand_all(u, read(r), r.lines) = expand_all(h, read(r), r.lines) /\ read(r).warns = {}
    BY <2>2, <2>3, SameExpansion DEF u
  <2>5. Notes(f, r, ErrorsButMissing) = {} /\ w.warns = {}
    BY <1>2, <2>4
  <2>6. read_file_capped_regular(u, f) = r
    BY <2>5, SameRegular DEF u, r, ErrorsButMissing
  <2>7. C(u, r) = C(h, r)
    BY <2>4 DEF C
  <2> QED BY <2>1, <2>5, <2>6, <2>7 DEF u
<1> QED BY <1>3, <1>4, <1>5, <1>6

(* The worklist's turns, as a function that exists. *)
LEMMA ConfTurns == conf_turns \in Nat
<1>1. MAX_CONF_FILES \in Nat /\ MAX_QUEUE_LEN \in Nat
  BY LoaderLimits
<1>2. \A a, b \in Nat : (a + 1) * (b + 1) \in Nat
  OBVIOUS
<1> QED BY <1>1, <1>2 DEF conf_turns

(* The worklist of the loader's files, turn by turn. *)
LEMMA ConfDef ==
    ASSUME NEW h, NEW start
    PROVE  \E after : /\ after = [i \in 0 .. conf_turns |-> IF i = 0 THEN start ELSE next_conf(h, after[i - 1])]
                      /\ conf_worklist(h, start) = after[conf_turns]
<1> DEFINE P(f, n) == f = [i \in 0 .. n |-> IF i = 0 THEN start ELSE next_conf(h, f[i - 1])]
<1>1. \A n \in Nat : \E f : P(f, n)
  <2> DEFINE T == {n \in Nat : ~ \E f : P(f, n)}
  <2> SUFFICES ASSUME T # {} PROVE FALSE
    OBVIOUS
  <2>1. PICK n \in T : \A m \in T : n <= m
    BY LeastNumber
  <2>2. n # 0
    <3>1. P([i \in 0 .. 0 |-> start], 0)
      OBVIOUS
    <3> QED BY <2>1, <3>1
  <2>3. PICK f : P(f, n - 1)
    <3> HIDE DEF P
    <3>1. n - 1 \in Nat /\ ~(n <= n - 1)
      BY <2>1, <2>2
    <3>2. n - 1 \notin T
      BY <2>1, <3>1
    <3> QED BY <3>1, <3>2
  <2> DEFINE g == [i \in 0 .. n |-> IF i = 0 THEN start ELSE next_conf(h, f[i - 1])]
  <2>4. \A i \in 0 .. (n - 1) : g[i] = f[i]
    <3> SUFFICES ASSUME NEW i \in 0 .. (n - 1) PROVE g[i] = f[i]
      OBVIOUS
    <3>1. f[i] = IF i = 0 THEN start ELSE next_conf(h, f[i - 1])
      BY <2>3
    <3>2. i \in 0 .. n
      BY <2>1
    <3> QED BY <3>1, <3>2
  <2>5. P(g, n)
    <3>1. ASSUME NEW i \in 0 .. n
          PROVE  g[i] = IF i = 0 THEN start ELSE next_conf(h, g[i - 1])
      <4>1. i # 0 => i - 1 \in 0 .. (n - 1)
        BY <2>1
      <4>2. i # 0 => g[i - 1] = f[i - 1]
        BY <2>4, <4>1
      <4>3. g[i] = IF i = 0 THEN start ELSE next_conf(h, f[i - 1])
        OBVIOUS
      <4> HIDE DEF g
      <4> QED BY <4>2, <4>3
    <3>2. g = [i \in 0 .. n |-> g[i]]
      OBVIOUS
    <3> HIDE DEF g
    <3> QED BY <3>1, <3>2
  <2> QED BY <2>1, <2>5
<1>2. PICK e : P(e, conf_turns)
  BY <1>1, ConfTurns
<1> DEFINE F == CHOOSE f : P(f, conf_turns)
<1>3. P(F, conf_turns)
  BY <1>2
<1>4. conf_worklist(h, start) = F[conf_turns]
  BY Zenon DEF conf_worklist
<1> HIDE DEF F
<1> QED BY <1>3, <1>4

(* A worklist that ends without a word ends the same on the ideal machine. *)
LEMMA SameWorklist ==
    ASSUME NEW h, Machine(h), NEW w, conf_worklist(h, w).warns = {}
    PROVE  conf_worklist(ideal(h), w) = conf_worklist(h, w) /\ w.warns = {}
<1> DEFINE u == ideal(h)
           N == conf_turns
<1> HIDE DEF u
<1>1. PICK a : /\ a = [i \in 0 .. N |-> IF i = 0 THEN w ELSE next_conf(h, a[i - 1])]
               /\ conf_worklist(h, w) = a[N]
  BY ConfDef
<1>2. PICK b : /\ b = [i \in 0 .. N |-> IF i = 0 THEN w ELSE next_conf(u, b[i - 1])]
               /\ conf_worklist(u, w) = b[N]
  BY ConfDef
<1>0. N \in Nat
  BY ConfTurns
<1> HIDE DEF N
<1>3. a[0] = w /\ b[0] = w
      /\ \A n \in 1 .. N : a[n] = next_conf(h, a[n - 1]) /\ b[n] = next_conf(u, b[n - 1])
  <2>1. \A n \in 0 .. N : a[n] = IF n = 0 THEN w ELSE next_conf(h, a[n - 1])
    BY <1>1
  <2>2. \A n \in 0 .. N : b[n] = IF n = 0 THEN w ELSE next_conf(u, b[n - 1])
    BY <1>2
  <2> QED BY <1>0, <2>1, <2>2
<1>4. ASSUME NEW s, next_conf(h, s).warns = {}
      PROVE  next_conf(u, s) = next_conf(h, s) /\ s.warns = {}
  BY <1>4, SameConf DEF u
<1>5. \A n \in 1 .. N : a[n].warns = {} => a[n - 1].warns = {}
  BY <1>3, <1>4
<1>6. \A n \in 1 .. N : a[n].warns = {} /\ b[n - 1] = a[n - 1] => b[n] = a[n]
  BY <1>3, <1>4
<1>7. b[N] = a[N] /\ a[0].warns = {}
  <2>1. b[0] = a[0] /\ a[N].warns = {}
    <3>1. conf_worklist(h, w).warns = {}
      OBVIOUS
    <3> QED BY <1>1, <1>3, <3>1
  <2> QED BY <1>0, <2>1, <1>5, <1>6, SameRuns
<1> QED BY <1>1, <1>2, <1>3, <1>7 DEF u

(* The directories the loader is told of. *)
LEMMA SameDirs ==
    ASSUME NEW h, Machine(h), NEW d
    PROVE  classify_dir(ideal(h), d) <=> classify_dir(h, d)
<1> DEFINE u == ideal(h)
           A(x) == hidden_by_dir(x, d)
           B(x) == exists(x, d)
           C(x) == d \in DOMAIN x.dir /\ (volatile(x, x.dir[d]) \/ unsafe_dir(x, d))
           D(x) == is_dir(x, d) /\ (volatile(x, d) \/ x.file[d].unsafe)
<1>1. (A(u) <=> A(h)) /\ (B(u) <=> B(h)) /\ (unsafe_dir(u, d) <=> unsafe_dir(h, d))
  <2>1. hidden_by_dir(u, d) <=> hidden_by_dir(h, d)
    BY IdealWritable
  <2>2. unsafe_dir(u, d) <=> unsafe_dir(h, d)
    BY IdealWritable
  <2>3. exists(u, d) <=> exists(h, d)
    BY IdealPaths
  <2> QED BY <2>1, <2>2, <2>3
<1>2. u.dir = h.dir /\ u.volatile = h.volatile
  BY IdealRest
<1>3. is_dir(u, d) <=> is_dir(h, d)
  BY IdealPaths
<1>4. is_dir(h, d) => u.file[d].unsafe = h.file[d].unsafe
  <2>1. is_dir(h, d) => d \in DOMAIN h.file
    BY DEF is_dir, exists
  <2> QED BY <2>1, IdealFiles
<1> HIDE DEF u
<1>5. C(u) <=> C(h)
  BY <1>1, <1>2 DEF volatile
<1>6. D(u) <=> D(h)
  BY <1>2, <1>3, <1>4 DEF volatile
<1>7. \A x : classify_dir(x, d) <=> IF A(x) THEN FALSE ELSE IF ~B(x) THEN C(x) ELSE D(x)
  BY Zenon DEF classify_dir
<1> HIDE DEF A, B, C, D
<1> QED
  <2>1. CASE A(h)
    BY <1>1, <1>7, <2>1 DEF u
  <2>2. CASE ~A(h) /\ ~B(h)
    BY <1>1, <1>5, <1>7, <2>2 DEF u
  <2>3. CASE ~A(h) /\ B(h)
    BY <1>1, <1>6, <1>7, <2>3 DEF u
  <2> QED BY <2>1, <2>2, <2>3

(* What is reported of the loader's directories is the same. *)
LEMMA SameLoader ==
    ASSUME NEW h, Machine(h), scan_ld_so_conf(h).warns = {}
    PROVE  scan_ld_so_conf(ideal(h)).found = scan_ld_so_conf(h).found
<1> DEFINE u == ideal(h)
           fresh == Worklist(<<>>, {}, {}, {})
           conf_d(x) == expand_include(x, fresh, <<"includeglob", "ld.so.conf.d">>)
           S(c) == Worklist(Append(c.queue, "ld.so.conf"), c.seen, c.dirs, c.warns)
           w(x) == conf_worklist(x, S(conf_d(x)))
           K(x, dirs) == {e \in dirs : classify_dir(x, e)}
           F(x) == {<<"ld_so_conf_injections", d>> : d \in K(x, w(x).dirs)}
<1> HIDE DEF u
<1>1. \A x : scan_ld_so_conf(x) = Piece(F(x), w(x).warns)
  BY Zenon DEF scan_ld_so_conf
<1> HIDE DEF F, w
<1>2. \A x : scan_ld_so_conf(x).found = F(x) /\ scan_ld_so_conf(x).warns = w(x).warns
  BY <1>1, PieceFields
<1>3. w(h).warns = {}
  BY <1>2
<1> HIDE DEF conf_d, S
<1>4. w(u) = conf_worklist(u, S(conf_d(u))) /\ w(h) = conf_worklist(h, S(conf_d(h)))
  BY DEF w
<1>5. conf_worklist(u, S(conf_d(h))) = w(h) /\ S(conf_d(h)).warns = {}
  <2>1. conf_worklist(h, S(conf_d(h))).warns = {}
    BY <1>3, <1>4
  <2> QED BY <1>4, <2>1, SameWorklist DEF u
<1>6. \A c : S(c).warns = c.warns
  <2> SUFFICES ASSUME NEW c PROVE S(c).warns = c.warns
    OBVIOUS
  <2> DEFINE q == Append(c.queue, "ld.so.conf")
  <2>1. S(c) = Worklist(q, c.seen, c.dirs, c.warns)
    BY DEF S
  <2> HIDE DEF q
  <2> QED BY <2>1, WorklistFields
<1>7. conf_d(u) = conf_d(h)
  <2>1. conf_d(h).warns = {}
    BY <1>5, <1>6
  <2>2. conf_d(h) = expand_include(h, fresh, <<"includeglob", "ld.so.conf.d">>)
        /\ conf_d(u) = expand_include(u, fresh, <<"includeglob", "ld.so.conf.d">>)
    BY DEF conf_d
  <2> HIDE DEF fresh
  <2>3. expand_include(h, fresh, <<"includeglob", "ld.so.conf.d">>).warns = {}
    BY <2>1, <2>2
  <2> QED BY <2>2, <2>3, SameInclude DEF u
<1>8. w(u) = w(h)
  BY <1>4, <1>5, <1>7
<1>9. \A dirs : K(u, dirs) = K(h, dirs)
  BY SameDirs DEF u
<1>10. F(u) = F(h)
  <2>1. F(u) = {<<"ld_so_conf_injections", d>> : d \in K(u, w(u).dirs)}
        /\ F(h) = {<<"ld_so_conf_injections", d>> : d \in K(h, w(h).dirs)}
    BY DEF F
  <2>2. K(u, w(u).dirs) = K(h, w(h).dirs)
    BY <1>8, <1>9
  <2> HIDE DEF K
  <2> QED BY <2>1, <2>2
<1> QED BY <1>2, <1>10 DEF u

-------------------------------------------------------------------------------
(* What a walk of the binary directories meets, level by level. *)
Inside(h, d) == SetToSeq(dir_entries(h, d))
Entry(h, n, prev, p) ==
    IF is_dir(h, p) /\ n > 1
    THEN IF p \in h.other_fs THEN <<<<"mount", p>>>> ELSE <<<<"dir", p>>>> \o prev[p]
    ELSE IF is_file(h, p) THEN <<<<"file", p, inode(h, p)>>>>
    ELSE <<>>
Entries(h, n, prev, d) == FlattenSeq([i \in DOMAIN Inside(h, d) |-> Entry(h, n, prev, Inside(h, d)[i])])
Level(h, n, prev) ==
    [dir \in {p \in DOMAIN h.file : is_dir(h, p)} |-> IF n = 0 THEN <<>> ELSE Entries(h, n, prev, dir)]
Bottom(h) == [dir \in {p \in DOMAIN h.file : is_dir(h, p)} |-> <<>>]

(* The binary directories are walked to a depth of one and of two. *)
LEMMA ScanDepth == Max({SCAN_DIRS[d] : d \in DOMAIN SCAN_DIRS}) = 2
                   /\ DOMAIN SCAN_DIRS = {"usr_bin", "usr_lib"}
                   /\ SCAN_DIRS["usr_bin"] = 1 /\ SCAN_DIRS["usr_lib"] = 2
<1>1. DOMAIN SCAN_DIRS = {"usr_bin", "usr_lib"} /\ SCAN_DIRS["usr_bin"] = 1 /\ SCAN_DIRS["usr_lib"] = 2
  BY DEF SCAN_DIRS
<1>2. {SCAN_DIRS[d] : d \in DOMAIN SCAN_DIRS} = {1, 2}
  BY <1>1
<1>3. Max({1, 2}) = 2
  <2> DEFINE P(x) == x \in {1, 2} /\ \A y \in {1, 2} : x >= y
  <2>1. P(2)
    OBVIOUS
  <2>2. P(Max({1, 2}))
    BY <2>1 DEF Max
  <2> QED BY <2>2
<1> QED BY <1>1, <1>2, <1>3

(* The listings of the directories, level by level (fs_inventory::walk_recursive). *)
LEMMA ListingsDef ==
    ASSUME NEW h
    PROVE  \E below : /\ below = [i \in 0 .. 2 |-> IF i = 0 THEN Bottom(h) ELSE Level(h, i, below[i - 1])]
                      /\ listings(h) = below
<1> DEFINE N == Max({SCAN_DIRS[d] : d \in DOMAIN SCAN_DIRS})
           L(f, n) == f = [i \in 0 .. n |-> Level(h, i, f[i - 1])]
           P(f, n) == f = [i \in 0 .. n |-> IF i = 0 THEN Bottom(h) ELSE Level(h, i, f[i - 1])]
<1>0. \A n, prev : Level(h, n, prev) = IF n = 0 THEN Bottom(h) ELSE Level(h, n, prev)
  BY DEF Level, Bottom
<1>1. \A n \in Nat : \E f : P(f, n)
  <2> DEFINE T == {n \in Nat : ~ \E f : P(f, n)}
  <2> SUFFICES ASSUME T # {} PROVE FALSE
    OBVIOUS
  <2>1. PICK n \in T : \A m \in T : n <= m
    BY LeastNumber
  <2>2. n # 0
    <3>1. P([i \in 0 .. 0 |-> Bottom(h)], 0)
      OBVIOUS
    <3> QED BY <2>1, <3>1
  <2>3. PICK f : P(f, n - 1)
    <3> HIDE DEF P
    <3>1. n - 1 \in Nat /\ ~(n <= n - 1)
      BY <2>1, <2>2
    <3>2. n - 1 \notin T
      BY <2>1, <3>1
    <3> QED BY <3>1, <3>2
  <2> DEFINE g == [i \in 0 .. n |-> IF i = 0 THEN Bottom(h) ELSE Level(h, i, f[i - 1])]
  <2>4. \A i \in 0 .. (n - 1) : g[i] = f[i]
    <3> SUFFICES ASSUME NEW i \in 0 .. (n - 1) PROVE g[i] = f[i]
      OBVIOUS
    <3>1. f[i] = IF i = 0 THEN Bottom(h) ELSE Level(h, i, f[i - 1])
      BY <2>3
    <3>2. i \in 0 .. n
      BY <2>1
    <3> QED BY <3>1, <3>2
  <2>5. P(g, n)
    <3>1. ASSUME NEW i \in 0 .. n
          PROVE  g[i] = IF i = 0 THEN Bottom(h) ELSE Level(h, i, g[i - 1])
      <4>1. i # 0 => i - 1 \in 0 .. (n - 1)
        BY <2>1
      <4>2. i # 0 => g[i - 1] = f[i - 1]
        BY <2>4, <4>1
      <4>3. g[i] = IF i = 0 THEN Bottom(h) ELSE Level(h, i, f[i - 1])
        OBVIOUS
      <4> HIDE DEF g
      <4> QED BY <4>2, <4>3
    <3>2. g = [i \in 0 .. n |-> g[i]]
      OBVIOUS
    <3> HIDE DEF g
    <3> QED BY <3>1, <3>2
  <2> QED BY <2>1, <2>5
<1>2. N = 2
  BY ScanDepth
<1>7. listings(h) = CHOOSE f : L(f, N)
  BY Zenon DEF listings, Level, Entries, Entry, Inside
<1> HIDE DEF N
<1>3. PICK e : P(e, N)
  <2> HIDE DEF P
  <2> QED BY <1>1, <1>2
<1>4. \A f : L(f, N) <=> P(f, N)
  <2> SUFFICES ASSUME NEW f PROVE L(f, N) <=> P(f, N)
    OBVIOUS
  <2>1. [i \in 0 .. N |-> Level(h, i, f[i - 1])]
        = [i \in 0 .. N |-> IF i = 0 THEN Bottom(h) ELSE Level(h, i, f[i - 1])]
    BY <1>0
  <2> QED BY <2>1
<1> DEFINE F == CHOOSE f : L(f, N)
<1>5. L(F, N)
  <2>1. L(e, N)
    BY <1>3, <1>4
  <2> HIDE DEF L
  <2> QED BY <2>1
<1>6. P(F, N)
  <2> HIDE DEF L, P, F
  <2> QED BY <1>4, <1>5
<1>8. listings(h) = F
  BY <1>7
<1> HIDE DEF F, L
<1> QED BY <1>2, <1>6, <1>8

(* What one entry adds. *)
LEMMA SameMet ==
    ASSUME NEW h, Machine(h), NEW n, NEW a, NEW b, NEW p,
           is_dir(h, p) /\ n > 1 => a[p] = b[p]
    PROVE  Entry(ideal(h), n, a, p) = Entry(h, n, b, p)
<1> DEFINE u == ideal(h)
           D(x) == is_dir(x, p)
           R(x) == is_file(x, p)
           A(prev) == <<<<"dir", p>>>> \o prev[p]
           E == <<<<"mount", p>>>>
           G(x) == <<<<"file", p, inode(x, p)>>>>
<1>1. (D(u) <=> D(h)) /\ (R(u) <=> R(h))
  BY IdealPaths
<1>2. u.other_fs = h.other_fs /\ u.inode = h.inode
  BY IdealRest
<1> HIDE DEF u
<1>3. G(u) = G(h)
  BY <1>2 DEF inode
<1>4. D(h) /\ n > 1 => A(a) = A(b)
  OBVIOUS
<1>5. \A x, prev : Entry(x, n, prev, p) = IF D(x) /\ n > 1 THEN IF p \in x.other_fs THEN E ELSE A(prev)
                                        ELSE IF R(x) THEN G(x) ELSE <<>>
  BY Zenon DEF Entry
<1> HIDE DEF A, D, R, E, G
<1> QED BY <1>1, <1>2, <1>3, <1>4, <1>5 DEF u

(* A directory that is passed over when closed is met the same on the ideal machine. *)
LEMMA SameEntries ==
    ASSUME NEW h, Machine(h), NEW n, NEW a, NEW b, NEW d,
           is_dir(h, d) => d \in PassedOver(h),
           \A p \in children(h, d) : is_dir(h, p) /\ n > 1 => a[p] = b[p]
    PROVE  Entries(ideal(h), n, a, d) = Entries(h, n, b, d)
<1> DEFINE u == ideal(h)
<1>1. dir_entries(u, d) = dir_entries(h, d)
  BY IdealEntries
<1>2. Inside(u, d) = Inside(h, d)
  BY <1>1 DEF Inside
<1>3. \A i \in DOMAIN Inside(h, d) : Inside(h, d)[i] \in children(h, d)
  <2>1. ToSet(Inside(h, d)) = dir_entries(h, d) /\ dir_entries(h, d) \subseteq children(h, d)
    BY EntriesFacts DEF Inside
  <2> QED BY <2>1 DEF ToSet
<1>4. \A p \in children(h, d) : Entry(u, n, a, p) = Entry(h, n, b, p)
  BY SameMet
<1> HIDE DEF u
<1> DEFINE A == [i \in DOMAIN Inside(u, d) |-> Entry(u, n, a, Inside(u, d)[i])]
           B == [i \in DOMAIN Inside(h, d) |-> Entry(h, n, b, Inside(h, d)[i])]
<1>5. A = B
  BY <1>2, <1>3, <1>4
<1>6. Entries(u, n, a, d) = FlattenSeq(A) /\ Entries(h, n, b, d) = FlattenSeq(B)
  BY DEF Entries
<1> HIDE DEF A, B
<1> QED BY <1>5, <1>6 DEF u

(* The roots, and what is right below them, are where a closed directory is passed over. *)
LEMMA WalkedPassedOver ==
    ASSUME NEW h
    PROVE  \A d \in DOMAIN SCAN_DIRS : d \in PassedOver(h) /\ children(h, d) \subseteq PassedOver(h)
<1>1. InventorySilent(h).errors \subseteq PassedOver(h)
  BY DEF PassedOver
<1>2. \A d \in DOMAIN SCAN_DIRS : d \in InventorySilent(h).errors /\ children(h, d) \subseteq InventorySilent(h).errors
  BY DEF InventorySilent
<1> QED BY <1>1, <1>2

(* The listings of the roots are the same. *)
LEMMA SameListings ==
    ASSUME NEW h, Machine(h), NEW d \in DOMAIN SCAN_DIRS, is_dir(h, d)
    PROVE  listings(ideal(h))[SCAN_DIRS[d]][d] = listings(h)[SCAN_DIRS[d]][d]
<1> DEFINE u == ideal(h)
           walked == {p \in DOMAIN h.file : is_dir(h, p)}
<1>1. {p \in DOMAIN u.file : is_dir(u, p)} = walked
  <2>1. DOMAIN u.file = DOMAIN h.file
    BY IdealFiles
  <2>2. \A p : is_dir(u, p) <=> is_dir(h, p)
    BY IdealPaths
  <2> HIDE DEF u
  <2> QED BY <2>1, <2>2
<1> HIDE DEF u
<1>2. PICK a : /\ a = [i \in 0 .. 2 |-> IF i = 0 THEN Bottom(h) ELSE Level(h, i, a[i - 1])]
               /\ listings(h) = a
  BY ListingsDef
<1>3. PICK b : /\ b = [i \in 0 .. 2 |-> IF i = 0 THEN Bottom(u) ELSE Level(u, i, b[i - 1])]
               /\ listings(u) = b
  BY ListingsDef
<1>4. /\ a[1] = Level(h, 1, a[0]) /\ a[2] = Level(h, 2, a[1])
      /\ b[1] = Level(u, 1, b[0]) /\ b[2] = Level(u, 2, b[1])
  <2>1. \A i \in 0 .. 2 : a[i] = IF i = 0 THEN Bottom(h) ELSE Level(h, i, a[i - 1])
    BY <1>2
  <2>2. \A i \in 0 .. 2 : b[i] = IF i = 0 THEN Bottom(u) ELSE Level(u, i, b[i - 1])
    BY <1>3
  <2>3. a[1] = Level(h, 1, a[1 - 1]) /\ a[2] = Level(h, 2, a[2 - 1])
    BY <2>1
  <2>4. b[1] = Level(u, 1, b[1 - 1]) /\ b[2] = Level(u, 2, b[2 - 1])
    BY <2>2
  <2>5. 1 - 1 = 0 /\ 2 - 1 = 1
    OBVIOUS
  <2> QED BY <2>3, <2>4, <2>5
<1>5. \A p \in walked : /\ a[1][p] = Entries(h, 1, a[0], p) /\ a[2][p] = Entries(h, 2, a[1], p)
                        /\ b[1][p] = Entries(u, 1, b[0], p) /\ b[2][p] = Entries(u, 2, b[1], p)
  <2>3. /\ a[1] = [dir \in walked |-> Entries(h, 1, a[0], dir)] /\ a[2] = [dir \in walked |-> Entries(h, 2, a[1], dir)]
        /\ b[1] = [dir \in walked |-> Entries(u, 1, b[0], dir)] /\ b[2] = [dir \in walked |-> Entries(u, 2, b[1], dir)]
    <3>1. a[1] = [dir \in {p \in DOMAIN h.file : is_dir(h, p)} |-> Entries(h, 1, a[0], dir)]
      <4>1. a[1] = [dir \in {p \in DOMAIN h.file : is_dir(h, p)} |-> IF 1 = 0 THEN <<>> ELSE Entries(h, 1, a[0], dir)]
        BY <1>4 DEF Level
      <4> QED BY <4>1
    <3>2. a[2] = [dir \in {p \in DOMAIN h.file : is_dir(h, p)} |-> Entries(h, 2, a[1], dir)]
      <4>1. a[2] = [dir \in {p \in DOMAIN h.file : is_dir(h, p)} |-> IF 2 = 0 THEN <<>> ELSE Entries(h, 2, a[1], dir)]
        BY <1>4 DEF Level
      <4> QED BY <4>1
    <3>3. b[1] = [dir \in {p \in DOMAIN u.file : is_dir(u, p)} |-> Entries(u, 1, b[0], dir)]
      <4>1. b[1] = [dir \in {p \in DOMAIN u.file : is_dir(u, p)} |-> IF 1 = 0 THEN <<>> ELSE Entries(u, 1, b[0], dir)]
        BY <1>4 DEF Level
      <4> QED BY <4>1
    <3>4. b[2] = [dir \in {p \in DOMAIN u.file : is_dir(u, p)} |-> Entries(u, 2, b[1], dir)]
      <4>1. b[2] = [dir \in {p \in DOMAIN u.file : is_dir(u, p)} |-> IF 2 = 0 THEN <<>> ELSE Entries(u, 2, b[1], dir)]
        BY <1>4 DEF Level
      <4> QED BY <4>1
    <3> QED BY <1>1, <3>1, <3>2, <3>3, <3>4
  <2> HIDE DEF walked
  <2> QED BY <2>3
<1>6. d \in walked /\ d \in PassedOver(h) /\ children(h, d) \subseteq PassedOver(h)
  <2>1. d \in DOMAIN h.file
    BY DEF is_dir, exists
  <2> QED BY <2>1, WalkedPassedOver
<1>7. \A p \in walked : p \in PassedOver(h) => b[1][p] = a[1][p]
  <2> SUFFICES ASSUME NEW p \in walked, p \in PassedOver(h) PROVE b[1][p] = a[1][p]
    OBVIOUS
  <2>1. ~(1 > 1)
    OBVIOUS
  <2>2. Entries(u, 1, b[0], p) = Entries(h, 1, a[0], p)
    BY <2>1, SameEntries DEF u
  <2> QED BY <1>5, <2>2
<1>8. b[2][d] = a[2][d]
  <2>1. \A p \in children(h, d) : is_dir(h, p) /\ 2 > 1 => b[1][p] = a[1][p]
    <3> SUFFICES ASSUME NEW p \in children(h, d), is_dir(h, p) PROVE b[1][p] = a[1][p]
      OBVIOUS
    <3>1. p \in walked
      BY DEF is_dir, exists
    <3> HIDE DEF walked
    <3> QED BY <1>6, <1>7, <3>1
  <2> HIDE DEF walked
  <2>2. Entries(u, 2, b[1], d) = Entries(h, 2, a[1], d)
    BY <1>6, <2>1, SameEntries DEF u
  <2> QED BY <1>5, <1>6, <2>2
<1> HIDE DEF walked
<1>9. SCAN_DIRS[d] \in {1, 2}
  BY ScanDepth
<1> QED BY <1>2, <1>3, <1>6, <1>7, <1>8, <1>9 DEF u

(* So is the walk, with the budget of each root and the inodes it has seen. *)
LEMMA SameWalk ==
    ASSUME NEW h, Machine(h)
    PROVE  walk_scannable_dirs(ideal(h)) = walk_scannable_dirs(h)
<1> DEFINE u == ideal(h)
           R(x) == {d \in DOMAIN SCAN_DIRS : is_dir(x, d)}
           Q(x) == SetToSeq(R(x))
           V(x, d) == <<<<"dir", d>>>> \o listings(x)[SCAN_DIRS[d]][d]
           S(x) == [i \in DOMAIN Q(x) |-> V(x, Q(x)[i])]
<1>1. R(u) = R(h)
  <2>1. \A p : is_dir(u, p) <=> is_dir(h, p)
    BY IdealPaths
  <2> HIDE DEF u
  <2> QED BY <2>1
<1>2. \A d \in R(h) : V(u, d) = V(h, d)
  BY SameListings
<1> HIDE DEF u
<1>3. \A x : walk_scannable_dirs(x) = walk_recursive(S(x))
  BY Zenon DEF walk_scannable_dirs
<1>4. \A i \in DOMAIN Q(h) : Q(h)[i] \in R(h)
  <2>1. IsFiniteSet({"usr_bin", "usr_lib"})
    <3>1. \A a, b : IsFiniteSet({a} \cup {b})
      BY FS_Singleton, FS_Union
    <3>2. {"usr_bin", "usr_lib"} = {"usr_bin"} \cup {"usr_lib"}
      OBVIOUS
    <3> QED BY <3>1, <3>2
  <2>2. IsFiniteSet(R(h))
    <3>1. R(h) \subseteq {"usr_bin", "usr_lib"}
      BY ScanDepth
    <3> HIDE DEF R
    <3> QED BY <2>1, <3>1, FS_Subset
  <2> HIDE DEF R
  <2>3. ToSet(Q(h)) = R(h)
    BY <2>2, SetToSeqFacts
  <2> HIDE DEF Q
  <2> QED BY <2>3 DEF ToSet
<1>5. Q(u) = Q(h)
  BY <1>1
<1> HIDE DEF Q, R, V
<1>6. S(u) = S(h)
  BY <1>2, <1>4, <1>5
<1> HIDE DEF S
<1> QED BY <1>3, <1>6 DEF u

(* So are the setuid files and the file capabilities. *)
LEMMA SameInventory ==
    ASSUME NEW h, Machine(h)
    PROVE  gather_binary_inventory(ideal(h)).found = gather_binary_inventory(h).found
<1> DEFINE u == ideal(h)
           w(x) == walk_scannable_dirs(x)
           attrs(x, p) == lines_in(x, {p})
           setuid(x) == {p \in w(x).files : <<"setuid">> \in attrs(x, p)}
           J(x, p) == {<<"file_capabilities", p, a[2]>> : a \in {b \in attrs(x, p) : b[1] = "caps"}}
           caps(x) == UNION {J(x, p) : p \in w(x).files}
           F(x) == {<<"setuid_files", p>> : p \in setuid(x)} \cup caps(x)
<1>1. w(u) = w(h)
  BY SameWalk
<1>2. \A p : attrs(u, p) = attrs(h, p)
  <2> SUFFICES ASSUME NEW p PROVE attrs(u, p) = attrs(h, p)
    OBVIOUS
  <2>1. DOMAIN u.file = DOMAIN h.file
    BY IdealFiles
  <2>2. p \in DOMAIN h.file => u.file[p].lines = h.file[p].lines
    BY IdealFiles
  <2> HIDE DEF u
  <2>3. \A q \in {p} \cap DOMAIN h.file : ToSet(u.file[q].lines) = ToSet(h.file[q].lines)
    BY <2>2
  <2> QED BY <2>1, <2>3 DEF lines_in
<1> HIDE DEF u
<1>3. \A x : gather_binary_inventory(x).found = F(x)
  <2>1. \A x : \E W, A : gather_binary_inventory(x) = Asking(F(x), W, A)
    BY Zenon DEF gather_binary_inventory
  <2> HIDE DEF F
  <2>2. \A x, W, A : Asking(F(x), W, A).found = F(x)
    BY DEF Asking
  <2> QED BY <2>1, <2>2
<1> HIDE DEF w, attrs
<1>4. setuid(u) = setuid(h)
  BY <1>1, <1>2
<1>5. \A p : J(u, p) = J(h, p)
  BY <1>2
<1> HIDE DEF J, setuid
<1>6. caps(u) = caps(h)
  BY <1>1, <1>5
<1> HIDE DEF caps
<1>7. F(u) = F(h)
  BY <1>4, <1>6
<1> QED BY <1>3, <1>7 DEF u

-------------------------------------------------------------------------------
(* The report. *)

(* A silent report is complete. *)
LEMMA SameAlone ==
    ASSUME NEW h, Machine(h), NEW s \in ScannerNames \ {"access", "kernel_facts"}, scan(h, s).warns = {}
    PROVE  scan(ideal(h), s).found \subseteq scan(h, s).found
<1> DEFINE u == ideal(h)
<1> HIDE DEF u
<1>1. scan(u, s).found \subseteq scan(h, s).found
  <2>1. s = "mounts" => scan(u, s).found \subseteq scan(h, s).found
    <3> SUFFICES ASSUME s = "mounts" PROVE scan(u, s).found \subseteq scan(h, s).found
      OBVIOUS
    <3>1. scan(u, s) = scan_mount_masking(u) /\ scan(h, s) = scan_mount_masking(h)
      BY DEF scan
    <3>2. scan_mount_masking(u).found \subseteq scan_mount_masking(h).found
      BY <3>1, SameMounts DEF u
    <3> QED BY <3>1, <3>2
  <2>2. s = "inventory" => scan(u, s).found \subseteq scan(h, s).found
    <3> SUFFICES ASSUME s = "inventory" PROVE scan(u, s).found \subseteq scan(h, s).found
      OBVIOUS
    <3>1. scan(u, s) = gather_binary_inventory(u) /\ scan(h, s) = gather_binary_inventory(h)
      BY DEF scan
    <3>2. gather_binary_inventory(u).found \subseteq gather_binary_inventory(h).found
      BY <3>1, SameInventory DEF u
    <3> QED BY <3>1, <3>2
  <2>3. s = "hygiene" => scan(u, s).found \subseteq scan(h, s).found
    <3> SUFFICES ASSUME s = "hygiene" PROVE scan(u, s).found \subseteq scan(h, s).found
      OBVIOUS
    <3>1. scan(u, s) = scan_account_hygiene(u) /\ scan(h, s) = scan_account_hygiene(h)
      BY DEF scan
    <3>2. scan_account_hygiene(u).found \subseteq scan_account_hygiene(h).found
      BY <3>1, SameHygiene DEF u
    <3> QED BY <3>1, <3>2
  <2>4. s = "systemd_hardening" => scan(u, s).found \subseteq scan(h, s).found
    <3> SUFFICES ASSUME s = "systemd_hardening" PROVE scan(u, s).found \subseteq scan(h, s).found
      OBVIOUS
    <3>1. scan(u, s) = scan_systemd_hardening(u) /\ scan(h, s) = scan_systemd_hardening(h)
      BY DEF scan
    <3>2. scan_systemd_hardening(u).found \subseteq scan_systemd_hardening(h).found
      BY <3>1, SameRest DEF u
    <3> QED BY <3>1, <3>2
  <2>5. s = "taint" => scan(u, s).found \subseteq scan(h, s).found
    <3> SUFFICES ASSUME s = "taint" PROVE scan(u, s).found \subseteq scan(h, s).found
      OBVIOUS
    <3>1. scan(u, s) = gather_kernel_taint(u) /\ scan(h, s) = gather_kernel_taint(h)
      BY DEF scan
    <3>2. gather_kernel_taint(u).found \subseteq gather_kernel_taint(h).found
      BY <3>1, SameTaint DEF u
    <3> QED BY <3>1, <3>2
  <2>6. s = "cpu" => scan(u, s).found \subseteq scan(h, s).found
    <3> SUFFICES ASSUME s = "cpu" PROVE scan(u, s).found \subseteq scan(h, s).found
      OBVIOUS
    <3>1. scan(u, s) = gather_cpu_vulnerabilities(u) /\ scan(h, s) = gather_cpu_vulnerabilities(h)
      BY DEF scan
    <3>2. gather_cpu_vulnerabilities(u).found \subseteq gather_cpu_vulnerabilities(h).found
      BY <3>1, SameCpu DEF u
    <3> QED BY <3>1, <3>2
  <2>7. s = "confinement" => scan(u, s).found \subseteq scan(h, s).found
    <3> SUFFICES ASSUME s = "confinement" PROVE scan(u, s).found \subseteq scan(h, s).found
      OBVIOUS
    <3>1. scan(u, s) = gather_confinement(u) /\ scan(h, s) = gather_confinement(h)
      BY DEF scan
    <3>2. gather_confinement(u).found \subseteq gather_confinement(h).found
      BY <3>1, SameConfinement DEF u
    <3> QED BY <3>1, <3>2
  <2>8. s = "kernel_modules" => scan(u, s).found \subseteq scan(h, s).found
    <3> SUFFICES ASSUME s = "kernel_modules" PROVE scan(u, s).found \subseteq scan(h, s).found
      OBVIOUS
    <3>1. scan(u, s) = gather_kernel_modules(u) /\ scan(h, s) = gather_kernel_modules(h)
      BY DEF scan
    <3>2. gather_kernel_modules(u).found \subseteq gather_kernel_modules(h).found
      BY <3>1, SameModules DEF u
    <3> QED BY <3>1, <3>2
  <2>9. s = "ftrace" => scan(u, s).found \subseteq scan(h, s).found
    <3> SUFFICES ASSUME s = "ftrace" PROVE scan(u, s).found \subseteq scan(h, s).found
      OBVIOUS
    <3>1. scan(u, s) = gather_ftrace_hooks(u) /\ scan(h, s) = gather_ftrace_hooks(h)
      BY DEF scan
    <3>2. gather_ftrace_hooks(u).found \subseteq gather_ftrace_hooks(h).found
      BY <3>1, SameHooks DEF u
    <3> QED BY <3>1, <3>2
  <2>10. s = "immutable" => scan(u, s).found \subseteq scan(h, s).found
    <3> SUFFICES ASSUME s = "immutable" PROVE scan(u, s).found \subseteq scan(h, s).found
      OBVIOUS
    <3>1. scan(u, s) = scan_immutable_anchors(u) /\ scan(h, s) = scan_immutable_anchors(h)
      BY DEF scan
    <3>2. scan_immutable_anchors(u).found \subseteq scan_immutable_anchors(h).found
      BY <3>1, SameAnchors DEF u
    <3> QED BY <3>1, <3>2
  <2>11. s = "one_way" => scan(u, s).found \subseteq scan(h, s).found
    <3> SUFFICES ASSUME s = "one_way" PROVE scan(u, s).found \subseteq scan(h, s).found
      OBVIOUS
    <3>1. scan(u, s) = gather_one_way_switches(u) /\ scan(h, s) = gather_one_way_switches(h)
      BY DEF scan
    <3>2. gather_one_way_switches(u).found \subseteq gather_one_way_switches(h).found
      BY <3>1, SameSwitches DEF u
    <3> QED BY <3>1, <3>2
  <2>12. s = "preload" => scan(u, s).found \subseteq scan(h, s).found
    <3> SUFFICES ASSUME s = "preload" PROVE scan(u, s).found \subseteq scan(h, s).found
      OBVIOUS
    <3>1. scan(u, s) = scan_ld_preload(u) /\ scan(h, s) = scan_ld_preload(h)
      BY DEF scan
    <3>2. scan_ld_preload(u).found \subseteq scan_ld_preload(h).found
      BY <3>1, SamePreload DEF u
    <3> QED BY <3>1, <3>2
  <2>13. s = "exec" => scan(u, s).found \subseteq scan(h, s).found
    <3> SUFFICES ASSUME s = "exec" PROVE scan(u, s).found \subseteq scan(h, s).found
      OBVIOUS
    <3>1. scan(u, s) = scan_exec_provenance(u) /\ scan(h, s) = scan_exec_provenance(h)
      BY DEF scan
    <3>2. scan_exec_provenance(u).found \subseteq scan_exec_provenance(h).found
      BY <3>1, SameExec DEF u
    <3> QED BY <3>1, <3>2
  <2>14. s = "ld_so_conf" => scan(u, s).found \subseteq scan(h, s).found
    <3> SUFFICES ASSUME s = "ld_so_conf" PROVE scan(u, s).found \subseteq scan(h, s).found
      OBVIOUS
    <3>1. scan(u, s) = scan_ld_so_conf(u) /\ scan(h, s) = scan_ld_so_conf(h)
      BY DEF scan
    <3>2. scan_ld_so_conf(u).found \subseteq scan_ld_so_conf(h).found
      BY <3>1, SameLoader DEF u
    <3> QED BY <3>1, <3>2
  <2>15. s = "generators" => scan(u, s).found \subseteq scan(h, s).found
    <3> SUFFICES ASSUME s = "generators" PROVE scan(u, s).found \subseteq scan(h, s).found
      OBVIOUS
    <3>1. scan(u, s) = scan_generators(u) /\ scan(h, s) = scan_generators(h)
      BY DEF scan
    <3>2. scan_generators(u).found \subseteq scan_generators(h).found
      BY <3>1, SameGenerators DEF u
    <3> QED BY <3>1, <3>2
  <2>16. s = "pam" => scan(u, s).found \subseteq scan(h, s).found
    <3> SUFFICES ASSUME s = "pam" PROVE scan(u, s).found \subseteq scan(h, s).found
      OBVIOUS
    <3>1. scan(u, s) = scan_pam(u) /\ scan(h, s) = scan_pam(h)
      BY DEF scan
    <3>2. scan_pam(u).found \subseteq scan_pam(h).found
      BY <3>1, SamePam DEF u
    <3> QED BY <3>1, <3>2
  <2>17. s = "network" => scan(u, s).found \subseteq scan(h, s).found
    <3> SUFFICES ASSUME s = "network" PROVE scan(u, s).found \subseteq scan(h, s).found
      OBVIOUS
    <3>1. scan(u, s) = gather_network_info(u) /\ scan(h, s) = gather_network_info(h)
      BY DEF scan
    <3>2. gather_network_info(u).found \subseteq gather_network_info(h).found
      BY <3>1, SameNetwork DEF u
    <3> QED BY <3>1, <3>2
  <2>18. s = "docker" => scan(u, s).found \subseteq scan(h, s).found
    <3> SUFFICES ASSUME s = "docker" PROVE scan(u, s).found \subseteq scan(h, s).found
      OBVIOUS
    <3>1. scan(u, s) = gather_runtime_topology(u) /\ scan(h, s) = gather_runtime_topology(h)
      BY DEF scan
    <3>2. gather_runtime_topology(u).found \subseteq gather_runtime_topology(h).found
      BY <3>1, SameRest DEF u
    <3> QED BY <3>1, <3>2
  <2>19. s = "mount_namespace" => scan(u, s).found \subseteq scan(h, s).found
    <3> SUFFICES ASSUME s = "mount_namespace" PROVE scan(u, s).found \subseteq scan(h, s).found
      OBVIOUS
    <3>1. scan(u, s) = scan_mount_namespace_anomalies(u) /\ scan(h, s) = scan_mount_namespace_anomalies(h)
      BY DEF scan
    <3>2. scan_mount_namespace_anomalies(u).found \subseteq scan_mount_namespace_anomalies(h).found
      BY <3>1, SameRest DEF u
    <3> QED BY <3>1, <3>2
  <2> QED BY <2>1, <2>2, <2>3, <2>4, <2>5, <2>6, <2>7, <2>8, <2>9, <2>10, <2>11, <2>12, <2>13, <2>14, <2>15, <2>16, <2>17, <2>18, <2>19 DEF ScannerNames
<1> QED BY <1>1 DEF u

(* The facts of the kernel are told with the switches of the same task. *)
LEMMA SameKernelFacts ==
    ASSUME ScanInv, HeldInv, Silent, "persistence" \in host.busy
    PROVE  gather_kernel_facts(ideal(host)).found = gather_kernel_facts(host).found
<1>1. Len(Program["persistence"]) = 7 /\ Program["persistence"][1] = "kernel_facts"
      /\ Program["persistence"][2] = "one_way"
  BY DEF Program
<1>2. 1 \in 1 .. 7 /\ 2 \in 1 .. 7
  OBVIOUS
<1>3. scan(host, "kernel_facts").warns = {} /\ scan(host, "one_way").warns = {}
  BY <1>1, <1>2, SilentGathered
<1>4. scan(host, "kernel_facts") = gather_kernel_facts(host) /\ scan(host, "one_way") = gather_one_way_switches(host)
  BY DEF scan
<1>5. Machine(host)
  BY MachineAssumption DEF ScanInv
<1> QED BY <1>3, <1>4, <1>5, SameSwitches

(* What the access scanner finds is what its six parts find. *)
LEMMA AccessFound ==
    ASSUME NEW h
    PROVE  AccessScan(h).found = scan_sshd(h).found \cup sudoers_nopasswd_all(h).found
                \cup gather_sudo_nopasswd(h).found \cup shell_users(h).found
                \cup gather_access_alignment(h).found \cup gather_sysctl_issues(h).found
<1> DEFINE a == scan_sshd(h)
           b == sudoers_nopasswd_all(h)
           c == gather_sudo_nopasswd(h)
           d == shell_users(h)
           e == gather_access_alignment(h)
           f == gather_sysctl_issues(h)
           S == {a, b, c, d, e, f}
<1>1. AccessScan(h) = All(S)
  BY Zenon DEF AccessScan
<1> HIDE DEF a, b, c, d, e, f
<1>2. UNION {p.found : p \in S}
            = a.found \cup b.found \cup c.found \cup d.found \cup e.found \cup f.found
  OBVIOUS
<1> HIDE DEF S
<1>3. AccessScan(h).found = UNION {p.found : p \in S}
  BY <1>1, PieceFields
<1> QED BY <1>2, <1>3 DEF a, b, c, d, e, f

(* The access scanner finds on the ideal machine what it found on this one. *)
LEMMA SameAccess ==
    ASSUME ScanInv, HeldInv, Silent, "security" \in host.busy
    PROVE  AccessScan(ideal(host)).found = AccessScan(host).found
<1> DEFINE u == ideal(host)
           P1(x) == scan_sshd(x)
           P2(x) == sudoers_nopasswd_all(x)
           P3(x) == gather_sudo_nopasswd(x)
           P4(x) == shell_users(x)
           P5(x) == gather_access_alignment(x)
           P6(x) == gather_sysctl_issues(x)
<1>1. Machine(host)
  BY MachineAssumption DEF ScanInv
<1>2. /\ AccessScan(host).warns = {} /\ scan_account_hygiene(host).warns = {}
      /\ \A f \in AccessScan(host).found : f[1] \notin Linked => f \in report.found
  BY SecurityScanners
<1>3. exists(host, "sudoers.d") => host.file["sudoers.d"].open
  BY <1>1, <1>2, SudoersOpen
<1>4. /\ P1(host).warns = {} /\ P2(host).warns = {} /\ P4(host).warns = {} /\ P6(host).warns = {}
      /\ P5(host).found \subseteq AccessScan(host).found
  BY <1>2, AccessParts
<1>5. \A f \in P5(host).found : f[1] # "access_alignment.coverage_warnings"
  <2> SUFFICES ASSUME NEW f \in P5(host).found, f[1] = "access_alignment.coverage_warnings" PROVE FALSE
    OBVIOUS
  <2>1. f \in AccessScan(host).found
    BY <1>4
  <2>2. f[1] \notin Linked
    BY DEF Linked
  <2>3. f \in report.found
    BY <1>2, <2>1, <2>2
  <2> QED BY <2>3 DEF Silent
<1>6. P1(u).found = P1(host).found
  BY <1>1, <1>4, SameSshd
<1>7. P2(u).found = P2(host).found /\ P3(u).found = P3(host).found
  BY <1>1, <1>3, <1>4, SameRules
<1>8. P4(u).found = P4(host).found
  BY <1>1, <1>4, SameShells
<1>9. P5(u).found = P5(host).found
  BY <1>1, <1>5, SameAlignment
<1>10. P6(u).found = P6(host).found
  BY <1>1, <1>4, SameSysctl
<1> HIDE DEF u, P1, P2, P3, P4, P5, P6
<1>12. \A x : AccessScan(x).found = P1(x).found \cup P2(x).found \cup P3(x).found \cup P4(x).found
                                    \cup P5(x).found \cup P6(x).found
  BY AccessFound DEF P1, P2, P3, P4, P5, P6
<1> QED BY <1>6, <1>7, <1>8, <1>9, <1>10, <1>12 DEF u

(* Which task runs the scanners that need another's word. *)
LEMMA TaskOfScanner ==
    ASSUME NEW t \in Tasks, NEW i \in DOMAIN Program[t]
    PROVE  /\ Program[t][i] = "access" => t = "security"
           /\ Program[t][i] = "kernel_facts" => t = "persistence"
<1> DEFINE S == <<"access", "mounts", "inventory", "hygiene", "systemd_hardening", "taint", "cpu",
                  "confinement", "kernel_modules", "ftrace", "immutable">>
           P == <<"kernel_facts", "one_way", "preload", "exec", "ld_so_conf", "generators", "pam">>
<1>1. t \in {"host", "databases", "storage", "packages", "network", "docker", "mount_namespace",
             "security", "persistence"}
  BY DEF Tasks, Program
<1>2. /\ Program["host"] = <<>> /\ Program["databases"] = <<>> /\ Program["storage"] = <<>>
      /\ Program["packages"] = <<>> /\ Program["network"] = <<"network">>
      /\ Program["docker"] = <<"docker">> /\ Program["mount_namespace"] = <<"mount_namespace">>
      /\ Program["security"] = S /\ Program["persistence"] = P
  BY DEF Program
<1>3. \A j \in DOMAIN S : S[j] # "kernel_facts"
  OBVIOUS
<1>4. \A j \in DOMAIN P : P[j] # "access"
  OBVIOUS
<1> HIDE DEF S, P
<1>5. CASE t \in {"host", "databases", "storage", "packages"}
  BY <1>2, <1>5
<1>6. CASE t = "network"
  BY <1>2, <1>6
<1>7. CASE t = "docker"
  BY <1>2, <1>7
<1>8. CASE t = "mount_namespace"
  BY <1>2, <1>8
<1>9. CASE t = "security"
  <2>1. Program[t] = S
    BY <1>2, <1>9
  <2> QED BY <1>3, <1>9, <2>1
<1>10. CASE t = "persistence"
  <2>1. Program[t] = P
    BY <1>2, <1>10
  <2> QED BY <1>4, <1>10, <2>1
<1> QED BY <1>1, <1>5, <1>6, <1>7, <1>8, <1>9, <1>10

(* A silent report names what every scanner of every task finds on the ideal machine. *)
LEMMA CompleteHeld == ASSUME ScanInv, HeldInv PROVE SilentMeansComplete
<1> DEFINE u == ideal(host)
<1> SUFFICES ASSUME Silent PROVE Keys(Everything(u)) \subseteq Keys(report.found)
  BY DEF SilentMeansComplete
<1>1. Machine(host)
  BY MachineAssumption DEF ScanInv
<1>2. u.busy = host.busy
  BY <1>1, IdealRest
<1> HIDE DEF u
<1>3. ASSUME NEW t \in host.busy, NEW i \in DOMAIN Program[t]
      PROVE  Keys(scan(u, Program[t][i]).found) \subseteq Keys(report.found)
  <2>1. t \in Tasks
    BY <1>1 DEF Machine
  <2>2. i \in 1 .. Len(Program[t])
    BY <2>1, NamesOfScanners
  <2> DEFINE s == Program[t][i]
  <2>3. s \in ScannerNames /\ scan(host, s).warns = {} /\ Keys(scan(host, s).found) \subseteq Keys(report.found)
    BY <2>2, SilentGathered
  <2>4. s = "access" => t = "security"
    BY <2>1, TaskOfScanner
  <2>5. s = "kernel_facts" => t = "persistence"
    BY <2>1, TaskOfScanner
  <2> HIDE DEF s
  <2>6. scan(u, s).found \subseteq scan(host, s).found
    <3>1. CASE s = "access"
      <4>1. scan(u, s) = AccessScan(u) /\ scan(host, s) = AccessScan(host)
        BY <3>1 DEF scan
      <4> QED BY <2>4, <3>1, <4>1, SameAccess DEF u
    <3>2. CASE s = "kernel_facts"
      <4>1. scan(u, s) = gather_kernel_facts(u) /\ scan(host, s) = gather_kernel_facts(host)
        BY <3>2 DEF scan
      <4> QED BY <2>5, <3>2, <4>1, SameKernelFacts DEF u
    <3>3. CASE s \notin {"access", "kernel_facts"}
      BY <1>1, <2>3, <3>3, SameAlone DEF u
    <3> QED BY <3>1, <3>2, <3>3
  <2>7. Keys(scan(u, s).found) \subseteq Keys(scan(host, s).found)
    BY <2>6 DEF Keys
  <2> QED BY <2>3, <2>7 DEF s
<1>4. ASSUME NEW f \in Everything(u)
      PROVE  \E t \in host.busy : \E i \in DOMAIN Program[t] : f \in scan(u, Program[t][i]).found
  BY <1>2 DEF Everything
<1>5. ASSUME NEW k \in Keys(Everything(u)) PROVE k \in Keys(report.found)
  <2>1. PICK f \in Everything(u) : k = <<f[1], IF Len(f) > 1 THEN f[2] ELSE "">>
    BY DEF Keys
  <2>2. PICK t \in host.busy : \E i \in DOMAIN Program[t] : f \in scan(u, Program[t][i]).found
    BY <1>4
  <2>3. PICK i \in DOMAIN Program[t] : f \in scan(u, Program[t][i]).found
    BY <2>2
  <2>4. k \in Keys(scan(u, Program[t][i]).found)
    BY <2>1, <2>3 DEF Keys
  <2> QED BY <1>3, <2>4
<1> QED BY <1>5 DEF u

(* A report without a warning or a lost task is complete (SilentMeansComplete):
   it names every finding that its scanners would make on the same machine with every file open and
   read to its end, but for the places where a failure is passed over on purpose. *)
THEOREM CompleteInvariance == Spec => []SilentMeansComplete
BY HeldInvariance, CompleteHeld, PTL

===============================================================================
