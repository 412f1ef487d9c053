-------------------------- MODULE ChildRegistryProofs --------------------------
(***************************************************************************)
(* The registry never outlives the right to signal: for any number of      *)
(* workers and pids.                                                       *)
(***************************************************************************)
EXTENDS ChildRegistry, TLAPS

(* A worker inside a call holds its child: nobody else reaps it. *)
Held == \A w \in Worker : at[w] # "idle" => pid[w] \in Pid /\ owner[pid[w]] = w

(* A registered pid belongs to a worker that has not unregistered it yet. *)
Registered ==
    \A p \in registry : \E w \in Worker :
        pid[w] = p /\ at[w] \in {"wait", "kill", "unregister"}

(* What the loop still has to signal is registered, and the lock is held. *)
UnderLock == todo \subseteq registry /\ (todo # {} => locked)

(* Once the group was killed nothing in it comes to life again. *)
Dead ==
    \A w \in Worker : at[w] \in {"unregister", "reap"} => pid[w] \notin leaders \cup members

RegistryInv == TypeOK /\ Held /\ Registered /\ UnderLock /\ Dead /\ NeverStray

(* The invariant holds when no tool has been started yet. *)
LEMMA InitRegistryInv == Init => RegistryInv
  <1>1. Init => TypeOK
    <2> SUFFICES ASSUME Init PROVE TypeOK
      OBVIOUS
    <2>1. owner \in [Pid -> Worker \cup {"free", "foreign"}]
      BY DEF Init
    <2>2. at \in [Worker -> {"idle", "spawned", "wait", "kill", "unregister", "reap"}]
          /\ pid \in [Worker -> Pid \cup {NoPid}]
      BY DEF Init
    <2>3. calls \in 0 .. MaxCalls
      BY MaxCallsAssumption DEF Init
    <2> QED BY <2>1, <2>2, <2>3 DEF Init, TypeOK
  <1>2. Init => Held /\ Registered /\ UnderLock /\ Dead /\ NeverStray
    BY DEF Init, Held, Registered, UnderLock, Dead, NeverStray
  <1> QED BY <1>1, <1>2 DEF RegistryInv

(* Every step of a worker, the kernel or the shutdown path keeps the types. *)
LEMMA RegistryTypeStep == ASSUME RegistryInv, [Next]_vars PROVE TypeOK'
  <1> USE WorkerAssumption, MaxCallsAssumption
      DEF RegistryInv, TypeOK, kernelVars, workerVars, registryVars, exitVars, historyVars
  <1>1. ASSUME NEW w \in Worker, NEW p \in Pid, Spawn(w, p) PROVE TypeOK'
    BY <1>1 DEF Spawn
  <1>2. ASSUME NEW w \in Worker, WorkerStep(w) PROVE TypeOK'
    <2>1. CASE register_child(w) BY <2>1 DEF register_child, Held
    <2>2. CASE peek_exited(w) \/ Deadline(w) BY <2>2 DEF peek_exited, Deadline
    <2>3. CASE KillGroup(w) BY <2>3 DEF KillGroup, Stray, Held
    <2>4. CASE unregister_child(w) BY <2>4 DEF unregister_child
    <2>5. CASE Reap(w) BY <2>5 DEF Reap, Held
    <2> QED BY <1>2, <2>1, <2>2, <2>3, <2>4, <2>5 DEF WorkerStep
  <1>3. ASSUME NEW p \in Pid, Kernel(p) PROVE TypeOK'
    BY <1>3 DEF Kernel, ForeignStarts, ForeignEnds, ToolForks, ToolExits, MembersExit
  <1>4. CASE TerminateLock BY <1>4 DEF TerminateLock
  <1>5. CASE Terminate BY <1>5 DEF Terminate, TerminateSignals, TerminateUnlock, Stray
  <1>6. CASE Exit BY <1>6 DEF Exit
  <1>7. CASE Ended \/ UNCHANGED vars BY <1>7 DEF Ended, vars
  <1> QED BY <1>1, <1>2, <1>3, <1>4, <1>5, <1>6, <1>7 DEF Next

(***************************************************************************)
(* A step of a worker: only it reaps its child, and it unregisters first.  *)
(***************************************************************************)
LEMMA WorkerKeepsInv ==
    ASSUME RegistryInv, TypeOK', NEW w \in Worker, WorkerStep(w) PROVE RegistryInv'
  <1> USE WorkerAssumption
      DEF RegistryInv, TypeOK, Held, Registered, UnderLock, Dead, NeverStray,
          kernelVars, workerVars, registryVars, exitVars, historyVars
  <1>1. CASE register_child(w) BY <1>1 DEF register_child
  <1>2. CASE peek_exited(w) \/ Deadline(w) BY <1>2 DEF peek_exited, Deadline
  <1>3. CASE KillGroup(w) BY <1>3 DEF KillGroup, Stray
  <1>4. CASE unregister_child(w) BY <1>4 DEF unregister_child
  <1>5. CASE Reap(w)
    <2>1. pid[w] \notin registry BY <1>5 DEF Reap
    <2> QED BY <1>5, <2>1 DEF Reap
  <1> QED BY <1>1, <1>2, <1>3, <1>4, <1>5 DEF WorkerStep

(* A new child takes a pid that nobody holds. *)
LEMMA SpawnKeepsInv ==
    ASSUME RegistryInv, TypeOK', NEW w \in Worker, NEW p \in Pid, Spawn(w, p)
    PROVE  RegistryInv'
  <1> USE WorkerAssumption
      DEF RegistryInv, TypeOK, Held, Registered, UnderLock, Dead, NeverStray,
          kernelVars, workerVars, registryVars, exitVars, historyVars, Spawn, Available
  <1>1. \A v \in Worker : at[v] # "idle" => v # w /\ pid[v] # p
    OBVIOUS
  <1>2. Held' BY <1>1
  <1>3. Registered' BY <1>1
  <1>4. Dead' BY <1>1
  <1> QED BY <1>2, <1>3, <1>4

(* The kernel gives away only pids that no worker holds. *)
LEMMA KernelKeepsInv ==
    ASSUME RegistryInv, TypeOK', NEW p \in Pid, Kernel(p) PROVE RegistryInv'
  <1> USE WorkerAssumption
      DEF RegistryInv, TypeOK, Held, Registered, UnderLock, Dead, NeverStray,
          kernelVars, workerVars, registryVars, exitVars, historyVars
  <1>1. CASE ForeignStarts(p) BY <1>1 DEF ForeignStarts, Available
  <1>2. CASE ForeignEnds(p) BY <1>2 DEF ForeignEnds
  <1>3. CASE ToolForks(p) BY <1>3 DEF ToolForks
  <1>4. CASE ToolExits(p) BY <1>4 DEF ToolExits
  <1>5. CASE MembersExit(p) BY <1>5 DEF MembersExit
  <1> QED BY <1>1, <1>2, <1>3, <1>4, <1>5 DEF Kernel

(* The loop signals registered pids only, and keeps the lock until it ends. *)
LEMMA TerminateKeepsInv ==
    ASSUME RegistryInv, TypeOK', TerminateLock \/ Terminate PROVE RegistryInv'
  <1> USE WorkerAssumption
      DEF RegistryInv, TypeOK, Held, Registered, UnderLock, Dead, NeverStray,
          kernelVars, workerVars, registryVars, exitVars, historyVars
  <1>1. CASE TerminateLock BY <1>1 DEF TerminateLock
  <1>2. ASSUME NEW p \in Pid, TerminateSignals(p) PROVE RegistryInv'
    <2>1. owner[p] \in Worker BY <1>2 DEF TerminateSignals
    <2> QED BY <1>2, <2>1 DEF TerminateSignals, Stray
  <1>3. CASE TerminateUnlock BY <1>3 DEF TerminateUnlock
  <1> QED BY <1>1, <1>2, <1>3 DEF Terminate

(***************************************************************************)
(* The registry invariant, for any workers, pids and calls: a registered   *)
(* pid is held by a worker, and every signal went to a pid that was ours.  *)
(***************************************************************************)
THEOREM RegistryInvariance == Spec => []RegistryInv
  <1>1. RegistryInv /\ [Next]_vars => RegistryInv'
    <2> SUFFICES ASSUME RegistryInv, [Next]_vars PROVE RegistryInv'
      OBVIOUS
    <2>1. TypeOK' BY RegistryTypeStep
    <2>2. CASE Exit \/ Ended \/ UNCHANGED vars
      <3>1. UNCHANGED <<kernelVars, workerVars, registryVars, historyVars>>
        BY <2>2 DEF Exit, Ended, vars
      <3> QED BY <2>1, <3>1 DEF RegistryInv, Held, Registered, UnderLock, Dead, NeverStray,
                 kernelVars, workerVars, registryVars, historyVars
    <2>3. ASSUME NEW w \in Worker, WorkerStep(w) \/ \E p \in Pid : Spawn(w, p)
          PROVE  RegistryInv'
      <3>1. CASE WorkerStep(w) BY <2>1, <3>1, WorkerKeepsInv
      <3>2. ASSUME NEW p \in Pid, Spawn(w, p) PROVE RegistryInv'
        BY <2>1, <3>2, SpawnKeepsInv
      <3> QED BY <2>3, <3>1, <3>2
    <2>4. ASSUME NEW p \in Pid, Kernel(p) PROVE RegistryInv'
      BY <2>1, <2>4, KernelKeepsInv
    <2>5. CASE TerminateLock \/ Terminate
      BY <2>1, <2>5, TerminateKeepsInv
    <2> QED BY <2>2, <2>3, <2>4, <2>5 DEF Next
  <1> QED BY <1>1, InitRegistryInv, PTL DEF Spec

(* NeverStray: no signal goes to a pid that was reaped in the meantime. *)
THEOREM SignalsStayOurs == Spec => []NeverStray
  <1>1. RegistryInv => NeverStray BY DEF RegistryInv
  <1> QED BY <1>1, RegistryInvariance, PTL

(* GroupIsDead: a tool's whole group is dead before the tool is reaped. *)
THEOREM GroupDiesFirst == Spec => []GroupIsDead
  <1>1. RegistryInv => GroupIsDead BY DEF RegistryInv, Dead, GroupIsDead
  <1> QED BY <1>1, RegistryInvariance, PTL
===============================================================================
