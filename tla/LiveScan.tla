------------------------------- MODULE LiveScan -------------------------------
(***************************************************************************)
(* The two scanners of the security task that compare views of the kernel  *)
(* taken one after the other while the machine goes on: the hidden         *)
(* processes of scanners/ghost_pid.rs and then, in the same task, the      *)
(* hidden modules of scanners/kernel_modules.rs.                           *)
(***************************************************************************)
EXTENDS GhostPid, KernelModules

CONSTANTS
    Modules         \* the honest modules

VARIABLES
    loaded,     \* the honest modules in the kernel
    history,    \* what was loaded and unloaded since the first snapshot
    views       \* what gather_kernel_modules has read so far, and the result

modVars == <<loaded, history, views>>
vars == <<ghostVars, modVars>>

(* machine.rootkit_in: the views that show a module which is left out of /proc/modules. *)
rk == "rk"
Shown(from) == loaded \cup (IF from \in machine.rootkit_in THEN {rk} ELSE {})
Names(names) == Result("none", SetToSeq({<<m>> : m \in names}), FALSE)
Closed == Result("PermissionDenied", <<>>, FALSE)

ASSUME ModulesAssumption ==
    /\ IsFiniteSet(Modules) /\ rk \notin Modules
    /\ \A m \in Machines : m.modules \subseteq Modules /\ m.rootkit_in \subseteq {"sysfs", "kallsyms"}
ASSUME ViewsAssumption ==
    none # Closed /\ \A names \in SUBSET (Modules \cup {rk}) : none # Names(names)

Views == [first |-> none, sysfs |-> none, kallsyms |-> none, second |-> none, piece |-> none]

Init ==
    /\ GhostInit
    /\ loaded = machine.modules
    /\ history = {}
    /\ views = Views

(* One read after the other; a file may be closed to the scanner, kallsyms empty, and the second
   snapshot may fail where the first did not.  Without the first nothing else is read. *)
Take(view, readings) ==
    /\ scan.phase = "done" /\ views[view] = none
    /\ \E r \in readings : views' = [views EXCEPT ![view] = r]
    /\ UNCHANGED <<ghostVars, loaded, history>>
First == Take("first", {Names(loaded), Closed})
Sysfs == views.first \notin {none, Closed} /\ Take("sysfs", {Names(Shown("sysfs")), Closed})
Kallsyms == views.sysfs # none /\ Take("kallsyms", {Names(Shown("kallsyms")), Closed, Names({})})
Second_skipped == views.kallsyms # none /\ Take("second", {Names({})})
Second == views.kallsyms # none /\ Take("second", {Names(loaded), Closed})

Reconcile ==
    /\ views.piece = none /\ (views.first = Closed \/ views.second # none)
    /\ views' = [views EXCEPT !.piece =
                    IF views.first = Closed THEN Piece({}, {<<"modules", Closed.err>>})
                    ELSE inventory_of(views.first, views.sysfs, views.kallsyms, views.second)]
    /\ UNCHANGED <<ghostVars, loaded, history>>

-------------------------------------------------------------------------------
Busy == scan.phase = "done" /\ views.first # none /\ views.second = none
Load(m) ==
    /\ Busy /\ m \in Modules \ loaded
    /\ loaded' = loaded \cup {m}
    /\ history' = history \cup {<<m, "loaded">>}
    /\ UNCHANGED <<ghostVars, views>>
Unload(m) ==
    /\ Busy /\ m \in loaded
    /\ loaded' = loaded \ {m}
    /\ history' = history \cup {<<m, "unloaded">>}
    /\ UNCHANGED <<ghostVars, views>>

Next ==
    \/ (Detect \/ Elsewhere) /\ UNCHANGED modVars
    \/ First \/ Sysfs \/ Kallsyms \/ Second \/ Reconcile
    \/ \E m \in Modules : Load(m) \/ Unload(m)

Spec == Init /\ [][Next]_vars

-------------------------------------------------------------------------------
candidates == IF views.piece = none THEN {}
              ELSE {f[2] : f \in {g \in views.piece.found : g[1] = "hidden_candidates"}}

(* An honest module is taken for a hidden one only if it was both loaded and unloaded between the
   two snapshots of /proc/modules, or the second could not be taken, which is noted
   (gather_kernel_modules). *)
HonestModulesAreSeen ==
    \A m \in candidates \cap Modules :
        \/ {<<m, "loaded">>, <<m, "unloaded">>} \subseteq history
        \/ <<"modules", "PermissionDenied">> \in views.piece.warns

(* A module missing from /proc/modules that sysfs or kallsyms still shows is reported or a note
   says which of the views was not to be had (reconcile, the guard for an empty list). *)
HiddenModuleIsTold ==
    views.piece # none /\ machine.rootkit_in # {} =>
        rk \in candidates \/ views.piece.warns # {}

(* The verdict on the kernel's modules errs on neither side in silence. *)
ModulesAreJudged == HonestModulesAreSeen /\ HiddenModuleIsTold
===============================================================================
