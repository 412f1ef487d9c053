------------------------------ MODULE MCLiveScan ------------------------------
(* Four pids, of which the machine uses up to four and one or two change hands. *)
EXTENDS LiveScan

Old(kind) == Process(kind, "old", "live")
Plain == [p \in {1} |-> Old("plain")]
With(p, process) == p :> process @@ Plain

Machine ==
    [pid_max |-> 4, pid_max_read |-> TRUE, ns_last |-> none, hidepid |-> FALSE, deep |-> FALSE,
     uptime |-> TRUE, denied |-> {}, proc |-> Plain, movers |-> {2}, rootkit_in |-> {},
     modules |-> {"ext4"}]

Still(m) == [m EXCEPT !.movers = {}]
(* Pids that change hands, beginning with nobody, with a process, a thread and a hidden one. *)
Moving ==
    {Machine} \cup {[Machine EXCEPT !.proc = With(2, Old(k))] : k \in {"plain", "thread", "hidden"}}
    \cup {[Machine EXCEPT !.proc = With(2, Process("hidden", "young", "live")), !.movers = {1, 2}]}
(* A hidden process under each pid, against each reading of the limits. *)
Limits ==
    {[Still(Machine) EXCEPT !.proc = With(p, Old("hidden")), !.ns_last = n, !.pid_max_read = r] :
        p \in 2 .. 4, n \in {none, 1, 2, 3, 4}, r \in BOOLEAN}
Others ==
    {[Still(Machine) EXCEPT !.proc = With(2, Process("hidden", "old", "zombie"))],
     [Still(Machine) EXCEPT !.proc = With(2, Old("hidden")), !.uptime = FALSE],
     [Still(Machine) EXCEPT !.proc = With(2, Old("hidden")), !.denied = {2}],
     [Still(Machine) EXCEPT !.proc = With(2, Old("buried"))],
     [Still(Machine) EXCEPT !.proc = [p \in 2 .. 4 |-> Old("hidden")]]}
    \cup {[Still(Machine) EXCEPT !.proc = With(2, Old("hidden")), !.hidepid = TRUE, !.deep = d] :
            d \in BOOLEAN}
Rootkits ==
    {[Still(Machine) EXCEPT !.rootkit_in = v, !.modules = ms] :
        v \in SUBSET {"sysfs", "kallsyms"}, ms \in SUBSET Modules}

MCMachines == Moving \cup Limits \cup Others \cup Rootkits
===============================================================================
