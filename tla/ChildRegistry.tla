----------------------------- MODULE ChildRegistry -----------------------------
(***************************************************************************)
(* The helper processes of a local scan (src/utils.rs): worker threads run *)
(* a tool under a deadline, each tool being the leader of its own process  *)
(* group (setsid); a registry of the pids lets the shutdown path signal    *)
(* the groups of whatever is still running.  The kernel hands a pid out    *)
(* again once its child has been reaped and its group is empty, to a tool  *)
(* of ours or to a foreign process.                                        *)
(*                                                                         *)
(* The registry is a Vec in the code; only membership matters (retain and  *)
(* the loop over it are insensitive to order and repetition), so it is a   *)
(* set here.  Assumed of the tools: no descendant leaves its group.        *)
(***************************************************************************)
EXTENDS Naturals

CONSTANTS
    Worker,     \* threads that run tools
    Pid,        \* process ids of the kernel
    NoPid,      \* a worker without a child
    MaxCalls    \* calls of terminate_registered_children: the second and the third
                \* signal, the watchdog, an interrupted local scan, a lost reader

ASSUME WorkerAssumption ==
    Worker \cap {"free", "foreign"} = {} /\ NoPid \notin Pid
ASSUME MaxCallsAssumption == MaxCalls \in Nat

VARIABLES
    owner,      \* kernel: who a pid stands for until it is reaped
    leaders,    \* kernel: tools that have not exited (the others are zombies)
    members,    \* kernel: pids whose group has other live members
    at,         \* where each worker is
    pid,        \* the child of each worker
    registry,   \* CHILD_REGISTRY
    locked,     \* is its lock held by terminate_registered_children?
    todo,       \* the pids that its loop has not signalled yet
    calls,      \* calls of terminate_registered_children so far
    leaving,    \* has a caller of it that exits returned from it?
    exited,     \* has this process exited?
    termed,     \* history: the tools that were sent SIGTERM
    stray       \* history: signals to a group that was not ours any more

kernelVars == <<owner, leaders, members>>
workerVars == <<at, pid>>
registryVars == <<registry, locked, todo>>
exitVars == <<calls, leaving, exited>>
historyVars == <<termed, stray>>
vars == <<kernelVars, workerVars, registryVars, exitVars, historyVars>>

Init ==
    /\ owner \in [Pid -> {"free", "foreign"}]
    /\ leaders = {} /\ members = {}
    /\ at = [w \in Worker |-> "idle"] /\ pid = [w \in Worker |-> NoPid]
    /\ registry = {} /\ locked = FALSE /\ todo = {}
    /\ calls = 0 /\ leaving = FALSE /\ exited = FALSE
    /\ termed = {} /\ stray = {}

-------------------------------------------------------------------------------
(* The kernel and the tools. *)

(* A pid is handed out only when nothing bears it, neither as PID nor PGID. *)
Available(p) == owner[p] = "free" /\ p \notin members

ForeignStarts(p) ==
    /\ Available(p)
    /\ owner' = [owner EXCEPT ![p] = "foreign"]
    /\ UNCHANGED <<leaders, members, workerVars, registryVars, exitVars, historyVars>>

ForeignEnds(p) ==
    /\ owner[p] = "foreign"
    /\ owner' = [owner EXCEPT ![p] = "free"]
    /\ UNCHANGED <<leaders, members, workerVars, registryVars, exitVars, historyVars>>

ToolForks(p) ==
    /\ p \in leaders
    /\ members' = members \cup {p}
    /\ UNCHANGED <<owner, leaders, workerVars, registryVars, exitVars, historyVars>>

ToolExits(p) ==
    /\ p \in leaders
    /\ leaders' = leaders \ {p}
    /\ UNCHANGED <<owner, members, workerVars, registryVars, exitVars, historyVars>>

MembersExit(p) ==
    /\ p \in members
    /\ members' = members \ {p}
    /\ UNCHANGED <<owner, leaders, workerVars, registryVars, exitVars, historyVars>>

(* A signal to the group of p, sent for one of the workers in `mine`. *)
Stray(p, mine) == stray' = IF owner[p] \in mine THEN stray ELSE stray \cup {p}

-------------------------------------------------------------------------------
(* A worker: run_child_with_timeout and run_with_timeout_inner. *)

(* spawn succeeds; nobody else knows the pid yet. *)
Spawn(w, p) ==
    /\ ~exited /\ at[w] = "idle" /\ Available(p)
    /\ owner' = [owner EXCEPT ![p] = w]
    /\ leaders' = leaders \cup {p}
    /\ at' = [at EXCEPT ![w] = "spawned"]
    /\ pid' = [pid EXCEPT ![w] = p]
    /\ termed' = termed \ {p}
    /\ UNCHANGED <<members, registryVars, exitVars, stray>>

register_child(w) ==
    /\ ~exited /\ at[w] = "spawned" /\ ~locked
    /\ registry' = registry \cup {pid[w]}
    /\ at' = [at EXCEPT ![w] = "wait"]
    /\ UNCHANGED <<kernelVars, pid, locked, todo, exitVars, historyVars>>

(* The tool has exited; WNOWAIT leaves the zombie in place. *)
peek_exited(w) ==
    /\ ~exited /\ at[w] = "wait" /\ pid[w] \notin leaders
    /\ at' = [at EXCEPT ![w] = "kill"]
    /\ UNCHANGED <<kernelVars, pid, registryVars, exitVars, historyVars>>

(* The deadline passes, or the pipes of the child cannot be taken. *)
Deadline(w) ==
    /\ ~exited /\ at[w] = "wait"
    /\ at' = [at EXCEPT ![w] = "kill"]
    /\ UNCHANGED <<kernelVars, pid, registryVars, exitVars, historyVars>>

(* Mutant: only the tool itself is killed, not its group. *)
KillGroup_leaderOnly(w) ==
    /\ ~exited /\ at[w] = "kill"
    /\ Stray(pid[w], {w})
    /\ leaders' = leaders \ {pid[w]}
    /\ at' = [at EXCEPT ![w] = "unregister"]
    /\ UNCHANGED <<owner, members, pid, registryVars, exitVars, termed>>

(* SIGKILL to the whole group, before the reap. *)
KillGroup(w) ==
    /\ ~exited /\ at[w] = "kill"
    /\ Stray(pid[w], {w})
    /\ leaders' = leaders \ {pid[w]} /\ members' = members \ {pid[w]}
    /\ at' = [at EXCEPT ![w] = "unregister"]
    /\ UNCHANGED <<owner, pid, registryVars, exitVars, termed>>

unregister_child(w) ==
    /\ ~exited /\ at[w] = "unregister" /\ ~locked
    /\ registry' = registry \ {pid[w]}
    /\ at' = [at EXCEPT ![w] = "reap"]
    /\ UNCHANGED <<kernelVars, pid, locked, todo, exitVars, historyVars>>

(* Mutant: the child is reaped before it is unregistered (R35-09). *)
Reap_beforeUnregister(w) ==
    /\ ~exited
    /\ \/ /\ at[w] = "unregister" /\ owner[pid[w]] = w
          /\ owner' = [owner EXCEPT ![pid[w]] = "free"]
          /\ UNCHANGED at
       \/ /\ at[w] = "reap"
          /\ at' = [at EXCEPT ![w] = "idle"]
          /\ UNCHANGED owner
    /\ UNCHANGED <<leaders, members, pid, registryVars, exitVars, historyVars>>

(***************************************************************************)
(* child.wait(): from here on the kernel may hand the pid out again.  The  *)
(* readers of the pipes are joined; see GroupIsDead for why they end.      *)
(***************************************************************************)
Reap(w) ==
    /\ ~exited /\ at[w] = "reap" /\ pid[w] \notin leaders
    /\ owner' = [owner EXCEPT ![pid[w]] = "free"]
    /\ at' = [at EXCEPT ![w] = "idle"]
    /\ pid' = [pid EXCEPT ![w] = NoPid]
    /\ UNCHANGED <<leaders, members, registryVars, exitVars, historyVars>>

-------------------------------------------------------------------------------
(* terminate_registered_children: called by the signal handler, by the     *)
(* watchdog, by an interrupted local scan and by exit_reader_gone.         *)

TerminateLock ==
    /\ ~exited /\ ~locked /\ calls < MaxCalls
    /\ calls' = calls + 1
    /\ locked' = TRUE
    /\ todo' = registry
    /\ UNCHANGED <<registry, kernelVars, workerVars, leaving, exited, historyVars>>

(* A tool that gets the SIGTERM may exit, now or later, or ignore it. *)
TerminateSignals(p) ==
    /\ ~exited /\ p \in todo
    /\ Stray(p, Worker)
    /\ termed' = termed \cup {p}
    /\ todo' = todo \ {p}
    /\ UNCHANGED <<registry, locked, kernelVars, workerVars, exitVars>>

(* Mutant: the guard outlives the call. *)
TerminateUnlock_never ==
    /\ ~exited /\ locked /\ todo = {} /\ registry # {}
    /\ registry' = {}
    /\ UNCHANGED <<locked, todo, kernelVars, workerVars, exitVars, historyVars>>

(* The list is cleared and the lock released; some callers exit next. *)
TerminateUnlock ==
    /\ ~exited /\ locked /\ todo = {}
    /\ registry' = {}
    /\ locked' = FALSE
    /\ leaving' \in {leaving, TRUE}
    /\ UNCHANGED <<todo, kernelVars, workerVars, calls, exited, historyVars>>

(* std::process::exit; a worker may get a step in before it. *)
Exit ==
    /\ ~exited /\ leaving
    /\ exited' = TRUE
    /\ UNCHANGED <<kernelVars, workerVars, registryVars, calls, leaving, historyVars>>

-------------------------------------------------------------------------------
Ended == exited /\ UNCHANGED vars

WorkerStep(w) ==
    \/ register_child(w) \/ peek_exited(w) \/ Deadline(w) \/ KillGroup(w)
    \/ unregister_child(w) \/ Reap(w)

Terminate == (\E p \in Pid : TerminateSignals(p)) \/ TerminateUnlock

Kernel(p) == ForeignStarts(p) \/ ForeignEnds(p) \/ ToolForks(p) \/ ToolExits(p) \/ MembersExit(p)

Next ==
    \/ \E w \in Worker : WorkerStep(w) \/ \E p \in Pid : Spawn(w, p)
    \/ \E p \in Pid : Kernel(p)
    \/ TerminateLock \/ Terminate \/ Exit
    \/ Ended

Spec == Init /\ [][Next]_vars

(* Worker threads are scheduled and a caller of terminate runs its loop to *)
(* the end.  Nothing is assumed of the tools: the deadline covers them.    *)
FairSpec ==
    /\ Spec
    /\ \A w \in Worker : WF_vars(WorkerStep(w))
    /\ WF_vars(Terminate)

-------------------------------------------------------------------------------
(* Properties. *)

TypeOK ==
    /\ owner \in [Pid -> Worker \cup {"free", "foreign"}]
    /\ leaders \subseteq Pid /\ members \subseteq Pid
    /\ at \in [Worker -> {"idle", "spawned", "wait", "kill", "unregister", "reap"}]
    /\ pid \in [Worker -> Pid \cup {NoPid}]
    /\ registry \subseteq Pid /\ locked \in BOOLEAN /\ todo \subseteq Pid
    /\ calls \in 0 .. MaxCalls /\ leaving \in BOOLEAN /\ exited \in BOOLEAN
    /\ termed \subseteq Pid /\ stray \subseteq Pid

(***************************************************************************)
(* "The registry is what proves the PGID is still ours" (R35-09, R35-15):  *)
(* no SIGTERM of the shutdown path and no SIGKILL of a worker ever goes to *)
(* a pid that was reaped, and perhaps handed out again, in the meantime.   *)
(***************************************************************************)
NeverStray == stray = {}

(***************************************************************************)
(* R28-07: when a worker reaps, nothing of the tool's group is alive, so   *)
(* the write ends of the pipes are closed and joining their readers ends.  *)
(***************************************************************************)
GroupIsDead == \A w \in Worker : at[w] = "reap" => pid[w] \notin leaders \cup members

(* Every call of a tool returns, whatever the tool and the shutdown do. *)
CallReturns == \A w \in Worker : at[w] # "idle" ~> (at[w] = "idle" \/ exited)
===============================================================================
