---------------------------- MODULE NamespaceScan -----------------------------
(***************************************************************************)
(* Containers, sockets and namespaces (src/scanners/runtime.rs, network.rs,*)
(* proc_net.rs, mount_namespace.rs, docker_firewall_bypass.rs), and how    *)
(* the runner links them (src/runner.rs).  Of a host, also: h.runtimes, the*)
(* container runtimes in the order they are tried; h.sockets, what         *)
(* /proc/net lists in each network namespace; of a process, its namespaces,*)
(* its program and the sockets it holds.                                   *)
(***************************************************************************)
EXTENDS SafeIo

CONSTANTS
    MAX_PIDS,
    MAX_FOREIGN_NETNS

-------------------------------------------------------------------------------
(* A runtime: [name, state, fails, containers]; state is live, absent, or how it fails; fails are
   the queries that do not come back.  Only the first that answers is asked for anything. *)
live_runtimes(h) == {i \in DOMAIN h.runtimes : h.runtimes[i].state = "live"}
connect(h) ==
    LET failing == {i \in DOMAIN h.runtimes : h.runtimes[i].state \notin {"live", "absent"}}
    IN {<<h.runtimes[i].name, h.runtimes[i].state>> : i \in failing}
       \cup Where(Cardinality(live_runtimes(h)) > 1, {<<"runtime", "also live">>})
list_images(r) == Where("images" \in r.fails, {<<r.name, "list_images">>})
(* The sizes are asked for apart, and only if there are containers. *)
list_containers(r) ==
    LET fails == "containers" \in r.fails
        listed == IF fails THEN {} ELSE r.containers
    IN Piece(listed, Where(fails, {<<r.name, "list_containers">>})
                     \cup Where(listed # {} /\ "sizes" \in r.fails, {<<r.name, "sizes">>}))
(* One inspection per container, each with its own time limit; without one it is left out. *)
inspect_container(c) ==
    IF c.inspect THEN {<<"containers", c.name, c.running, c.ports, c.netns, c.mnt_ns>>} ELSE {}
inspect_all(r) ==
    {<<r.name, "inspect">> : c \in {d \in list_containers(r).found : ~d.inspect}}
volumes_and_df(r) == {<<r.name, q>> : q \in r.fails \cap {"list_volumes", "df"}}
gather_runtime_topology(h) ==
    IF live_runtimes(h) = {} THEN Piece({}, connect(h))
    ELSE LET r == h.runtimes[Min(live_runtimes(h))]
         IN Piece(UNION {inspect_container(c) : c \in list_containers(r).found},
                  connect(h) \cup list_images(r) \cup list_containers(r).warns \cup inspect_all(r)
                  \cup volumes_and_df(r))

(* A published port of a running container is reachable whatever the firewall says. *)
detect_firewall_bypass(containers, firewall_active) ==
    UNION {{<<"firewall_bypass_findings", c[2], p[2], firewall_active>> :
              p \in {q \in c[4] : q[1] # "127.0.0.1"}} : c \in {d \in containers : d[3]}}

-------------------------------------------------------------------------------
pids(h) == DOMAIN h.proc
denied(h) == {p \in pids(h) : ~h.proc[p].open}

(* The sockets of the host's namespace.  Of two on one address the older is reported. *)
parse_proc_net(h, ns) == IF ns \in DOMAIN h.sockets THEN h.sockets[ns] ELSE {}
attribute_sockets(h, wanted) ==
    [s \in wanted |-> {p \in pids(h) \ denied(h) : s[1] \in h.proc[p].holds}]
listening_ports(h) ==
    LET sockets == IF h.proc_net THEN parse_proc_net(h, h.host_ns) ELSE {}
        owners == attribute_sockets(h, sockets)
        shown == {s \in sockets : \A t \in sockets : t[2] = s[2] => s[1] <= t[1]}
        owner(s) == IF owners[s] = {} THEN "unknown process" ELSE h.proc[Min(owners[s])].exe
    IN Piece({<<"listening_ports", s[2], owner(s)>> : s \in shown},
             Where(~h.proc_net, {<<"proc_net", "unreadable">>})
             \cup Where(\E s \in sockets : owners[s] = {}, {<<"port attribution", "incomplete">>}))

(* Listeners in other namespaces, one namespace per first process found in it. *)
report_foreign_netns_listeners(h) ==
    LET seen == {h.proc[p].netns : p \in pids(h) \ denied(h)} \ {h.host_ns}
        kept == Capped(seen, MAX_FOREIGN_NETNS, "netns")
    IN IF 1 \in denied(h) \/ 1 \notin pids(h) THEN Piece({}, {<<"netns", "init unreadable">>})
       ELSE Piece(UNION {{<<"foreign_netns_listeners", ns, s[2]>> : s \in parse_proc_net(h, ns)} :
                            ns \in kept.found},
                  kept.warns \cup Where(denied(h) # {}, {<<"netns", "PermissionDenied">>}))
(* h.firewall: the tools, of four asked in turn, that tell of a rule for what comes in. *)
firewall(h) == Piece({<<"firewall_active", h.firewall # {}>>}, {})
(* A line of resolv.conf or of hosts: <<"nameserver", address>>, <<"override", line>>. *)
resolvers(h, p) == {l[2] : l \in {m \in ToSet(read_file_capped_regular(h, p).lines) : m[1] = "nameserver"}}
system_files(h) ==
    LET read(p) == read_file_capped_regular(h, p)
    IN Piece({<<"dns_resolvers", r>> : r \in resolvers(h, "resolv.conf")}
             \cup {<<"custom_host_overrides", l[2]>> : l \in ToSet(read("hosts").lines)},
             UNION {Notes(p, read(p), ErrorsButMissing) : p \in {"resolv.conf", "hosts"}})
dns_upstreams(h) ==
    Piece(Where("stub" \in resolvers(h, "resolv.conf"),
                {<<"dns_upstreams", r>> : r \in resolvers(h, "run_resolv") \ {"stub"}}), {})
(* h.days: the days a certificate has left, where openssl could tell. *)
certificates(h) ==
    LET days(p) == IF p \in DOMAIN h.days THEN h.days[p] ELSE 30
        class(p) == IF days(p) < 7 THEN "critical" ELSE IF days(p) < 30 THEN "warning" ELSE "fine"
    IN Piece({<<"ssl_certificates", p, class(p)>> : p \in dir_entries(h, "letsencrypt")}, {})
gather_network_info(h) ==
    All({listening_ports(h), report_foreign_netns_listeners(h), firewall(h), system_files(h),
         dns_upstreams(h), certificates(h)})
NamespaceSilent == [errors |-> {"letsencrypt", "run_resolv"}, cuts |-> {"run_resolv"}]

(* Processes with their own mounts, the lowest MAX_PIDS of them. *)
scan_mount_namespace_anomalies(h) ==
    LET looked == {p \in pids(h) : Cardinality({q \in pids(h) : q < p}) < MAX_PIDS}
        read == looked \ denied(h)
        apart == {p \in read : h.proc[p].mnt_ns # h.proc[1].mnt_ns /\ h.proc[p].exe # "none"}
    IN IF 1 \in denied(h) \/ 1 \notin pids(h) THEN Piece({}, {<<"mnt_ns", "init unreadable">>})
       ELSE Piece({<<"mount_namespace_anomalies", p, h.proc[p].mnt_ns>> : p \in apart},
                  Where(looked \cap denied(h) # {}, {<<"mnt_ns", "PermissionDenied">>})
                  \cup Where(looked # pids(h), {<<"mnt_ns", "cap">>}))

-------------------------------------------------------------------------------
(* runner.rs: a namespace is given to the first container, by name, that lives in it; field is
   the place of the namespace in a container's entry. *)
owners_of(containers, field, ns) == {c[2] : c \in {d \in containers : d[field] = ns}}
shared(containers, field) ==
    {<<ns, "shared">> : ns \in {c[field] : c \in {d \in containers :
                                    Cardinality(owners_of(containers, field, d[field])) > 1}}}
linked(found, containers, field, list, at) ==
    LET of(f) == owners_of(containers, field, f[at])
    IN {IF f[1] = list /\ of(f) # {} THEN Append(f, Min(of(f))) ELSE f : f \in found}
link_foreign_netns_to_containers(found, containers) ==
    Piece(linked(found, containers, 5, "foreign_netns_listeners", 2), shared(containers, 5))
link_mount_ns_to_containers(found, containers) ==
    Piece(linked(found, containers, 6, "mount_namespace_anomalies", 3), shared(containers, 6))
===============================================================================
