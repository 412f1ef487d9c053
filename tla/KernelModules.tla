---------------------------- MODULE KernelModules -----------------------------
(***************************************************************************)
(* The loaded kernel modules (src/scanners/kernel_modules.rs), from three  *)
(* places and /proc/modules a second time.  What sysfs or kallsyms shows   *)
(* and neither reading of /proc/modules does is a candidate for a module   *)
(* that hides.                                                             *)
(***************************************************************************)
EXTENDS SafeIo

(* first, sysfs, kallsyms and second are the results of the four reads. *)
PSEUDO_MODULES == {"bpf", "ftrace"}
names_in(r) == {l[1] : l \in ToSet(r.lines)}
reconcile(proc_modules, sysfs_live, kallsyms) == (sysfs_live \cup kallsyms) \ proc_modules
inventory_of(first, sysfs, kallsyms, second) ==
    LET proc_modules == names_in(first) \cup names_in(second)
        hidden == reconcile(proc_modules, names_in(sysfs), names_in(kallsyms) \ PSEUDO_MODULES)
        blind == proc_modules = {} /\ hidden # {}
    IN IF first.err # "none" THEN Piece({}, {<<"modules", first.err>>})
       ELSE Piece(Where(~blind, {<<"hidden_candidates", m>> : m \in hidden}),
                  Notes("modules", first, {}) \cup Notes("sys_module", sysfs, AnyError)
                  \cup Notes("kallsyms", kallsyms, AnyError)
                  \cup Where(kallsyms.err = "none" /\ kallsyms.lines = <<>>,
                             {<<"kallsyms", "empty">>})
                  \cup Notes("modules", second, AnyError)
                  \cup Where(blind, {<<"modules", "suppressed">>}))
gather_kernel_modules(h) ==
    LET read(p) == read_procfs_capped(h, p)
        live == SetToSeq({<<p>> : p \in {q \in dir_entries(h, "sys_module") :
                                            read(q).lines = <<<<"live">>>>}})
        sysfs == Result(IF listable(h, "sys_module") THEN "none" ELSE "PermissionDenied",
                        live, FALSE)
    IN inventory_of(read("modules"), sysfs, read("kallsyms"), read("modules"))
===============================================================================
