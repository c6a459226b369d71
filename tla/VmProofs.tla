------------------------------ MODULE VmProofs ------------------------------
(***************************************************************************)
(* Proofs about the VMs of a controller: which process a kill reaches,     *)
(* that an instance has one VM, and that the controller implements the     *)
(* pool of VmPool.                                                         *)
(***************************************************************************)
EXTENDS ControllerRefinement, ControllerProofs

CoreInv == TypeInv /\ LockInv /\ DurableInv /\ CreationInv

\* The invariants of ControllerProofs, together.
LEMMA CoreInit == Init => CoreInv
  BY InitType, LockInit, DurableInit, CreationInit DEF CoreInv

\* Every step keeps them.
LEMMA CoreStep == CoreInv /\ [Next]_vars => CoreInv'
  BY TypeStep, LockStep, DurableStep, CreationStep DEF CoreInv

-----------------------------------------------------------------------------
(* Steps that leave the VMs alone *)

\* A step aside of the VMs: no process of the machine changes, no instance gets
\* another process, no handler comes to a fork or to a signal.
Aside ==
  /\ UNCHANGED <<host, crashes>>
  /\ DOMAIN instances' = DOMAIN instances
  /\ \A i \in DOMAIN instances : instances'[i].pid = instances[i].pid
  /\ \A h \in Handlers : pc'[h] \in {"fork", "signal"} => pc'[h] = pc[h] /\ id'[h] = id[h]
  /\ pc'[Main] = "down" <=> pc[Main] = "down"
  /\ pc[Main] = "accept" => pc'[Main] = "accept"

\* What a handler does with files and ports is aside of the VMs.
LEMMA ServeAside ==
  ASSUME CoreInv, NEW h \in Handlers,
         \/ RunPort(h) \/ RunCookie(h) \/ RunSetPort(h) \/ ListCopy(h)
         \/ PickId(h) \/ Mkdir(h) \/ MkdirWait(h) \/ WriteFile(h)
  PROVE  Aside
  <1> USE ControllerAssumption, FileSteps
      DEF CoreInv, TypeInv, TypeOK, RunsKnown, Threads, RunSteps, HandlerSteps, Aside, Goto,
          counters, bookkeeping
  <1>1. CASE RunPort(h)
    BY <1>1 DEF RunPort
  <1>2. CASE RunCookie(h)
    BY <1>2 DEF RunCookie
  <1>3. CASE RunSetPort(h)
    <2>1. \A i \in DOMAIN instances : instances'[i].pid = instances[i].pid
      BY <1>3 DEF RunSetPort, Instance
    <2>2. QED
      BY <1>3, <2>1 DEF RunSetPort
  <1>4. CASE ListCopy(h)
    BY <1>4 DEF ListCopy, Reply
  <1>5. CASE PickId(h)
    BY <1>5 DEF PickId
  <1>6. CASE Mkdir(h)
    BY <1>6 DEF Mkdir
  <1>7. CASE MkdirWait(h)
    BY <1>7 DEF MkdirWait
  <1>8. CASE WriteFile(h)
    BY <1>8 DEF WriteFile
  <1>9. QED
    BY <1>1, <1>2, <1>3, <1>4, <1>5, <1>6, <1>7, <1>8

\* So is what a thread does in findNextPort and in restore, until it registers
\* the instance.
LEMMA RestoreAside ==
  ASSUME CoreInv, NEW t \in Threads,
         \/ Scan(t) \/ RestoreLeaves(t) \/ RestoreRead(t) \/ RestoreCookie(t) \/ RestorePort(t)
  PROVE  Aside
  <1> USE ControllerAssumption, ScanSteps
      DEF CoreInv, TypeInv, TypeOK, Threads, MainSteps, HandlerSteps, Aside, Goto,
          counters, bookkeeping
  <1>1. CASE Scan(t)
    BY <1>1 DEF Scan
  <1>2. CASE RestoreLeaves(t)
    BY <1>2 DEF RestoreLeaves, LeaveRestore
  <1>3. CASE RestoreRead(t)
    BY <1>3 DEF RestoreRead
  <1>4. CASE RestoreCookie(t)
    BY <1>4 DEF RestoreCookie
  <1>5. CASE RestorePort(t)
    BY <1>5 DEF RestorePort
  <1>6. QED
    BY <1>1, <1>2, <1>3, <1>4, <1>5

\* And the begin of a request other than kill, and the constructor's loop.
LEMMA OtherAside ==
  ASSUME CoreInv,
         \/ UNCHANGED vars \/ BootNext \/ BootDone \/ Exhaust
         \/ \E h \in Handlers :
              \/ InstantiateBegin(h) \/ List(h) \/ ListSize(h)
              \/ \E i \in Ids : RunBegin(h, i) \/ RunRefused(h, i) \/ KillIdle(h, i)
  PROVE  Aside
  <1> USE ControllerAssumption
      DEF CoreInv, TypeInv, TypeOK, Threads, MainSteps, HandlerSteps, Aside, Goto, Ready,
          counters, bookkeeping
  <1>1. CASE UNCHANGED vars
    BY <1>1 DEF vars
  <1>2. CASE BootNext \/ BootDone \/ Exhaust
    BY <1>2 DEF BootNext, BootDone, Exhaust
  <1>3. ASSUME NEW h \in Handlers, InstantiateBegin(h) PROVE Aside
    BY <1>3 DEF InstantiateBegin
  <1>4. ASSUME NEW h \in Handlers, ListSize(h) PROVE Aside
    BY <1>4 DEF ListSize
  <1>5. ASSUME NEW h \in Handlers, NEW i \in Ids, RunBegin(h, i) PROVE Aside
    BY <1>5 DEF RunBegin
  <1>6. QED
    BY <1>1, <1>2, <1>3, <1>4, <1>5 DEF List, RunRefused, KillIdle

\* All the other steps.
LEMMA Kinds ==
  ASSUME CoreInv, [Next]_vars
  PROVE  \/ Aside
         \/ \E h \in Handlers : \/ Spawn(h) \/ Fork(h) \/ Signal(h)
                                \/ \E i \in Ids : KillBegin(h, i)
         \/ \E t \in Threads : Register(t)
         \/ Crash \/ Restart \/ Environment
  <1>1. ASSUME NEW h \in Handlers, Request(h)
        PROVE  Aside \/ \E i \in Ids : KillBegin(h, i)
    BY <1>1, OtherAside DEF Request
  <1>2. ASSUME NEW h \in Handlers, Serve(h)
        PROVE  Aside \/ Spawn(h) \/ Fork(h) \/ Signal(h) \/ \E t \in Threads : Register(t)
    BY <1>2, ServeAside, RestoreAside DEF Serve, Restore, Threads
  <1>3. ASSUME Boot PROVE Aside \/ \E t \in Threads : Register(t)
    BY <1>3, OtherAside, RestoreAside DEF Boot, Restore, Threads
  <1>4. QED
    BY <1>1, <1>2, <1>3, OtherAside DEF Next

-----------------------------------------------------------------------------
(* A kill reaches its own VM *)

\* Forks that work and pids that are not used twice.
PidsUnique == "pidReuse" \notin Faults /\ "forkFails" \notin Faults

\* The process that an instance remembers was forked for it, even when it has
\* ended: its pid is nobody else's then.
KillInv ==
  /\ DOMAIN procs \subseteq retired
  /\ \A i \in DOMAIN instances :
       /\ instances[i].pid \in retired \cup {NoPid}
       /\ instances[i].pid \in DOMAIN procs => procs[instances[i].pid].vm = i
  /\ \A h \in Handlers : pc[h] = "signal" =>
       id[h] \in DOMAIN instances /\ instances[id[h]].pid # NoPid

\* No VM runs at the start.
LEMMA KillInit == Init => KillInv
  BY ControllerAssumption DEF Init, HostInit, KillInv, Threads

\* What the machine does on its own: a VM keeps its instance, and none begins.
LEMMA MachineStep ==
  ASSUME CoreInv, HostNext
  PROVE  /\ DOMAIN procs' \subseteq DOMAIN procs /\ retired' = retired
         /\ \A p \in DOMAIN procs' : /\ procs'[p].vm = procs[p].vm
                                     /\ procs'[p].port = procs[p].port
                                     /\ procs'[p].dying = procs[p].dying
  <1> USE DEF CoreInv, TypeInv, TypeOK, HostTypeOK, Proc
  <1>1. ASSUME NEW p \in DOMAIN procs, VmBind(p), IsPortFree(procs[p].port)
        PROVE  /\ DOMAIN procs' \subseteq DOMAIN procs /\ retired' = retired
               /\ \A q \in DOMAIN procs' : /\ procs'[q].vm = procs[q].vm
                                           /\ procs'[q].port = procs[q].port
                                           /\ procs'[q].dying = procs[q].dying
    BY <1>1 DEF VmBind
  <1>2. ASSUME NEW p \in DOMAIN procs, Remove(p)
        PROVE  /\ DOMAIN procs' \subseteq DOMAIN procs
               /\ \A q \in DOMAIN procs' : procs'[q] = procs[q]
    BY <1>2 DEF Remove
  <1>3. ASSUME NEW p \in DOMAIN procs, VmBind(p) \/ VmExit(p)
        PROVE  retired' = retired
    BY <1>3 DEF VmBind, VmExit
  <1>4. ASSUME NEW q \in ForeignPorts, ForeignBind(q)
        PROVE  UNCHANGED <<procs, retired>>
    BY <1>4 DEF ForeignBind
  <1>5. ASSUME NEW p \in DOMAIN procs, VmBind(p), ~IsPortFree(procs[p].port)
        PROVE  Remove(p)
    BY <1>5 DEF VmBind
  <1>6. ASSUME NEW p \in DOMAIN procs, VmExit(p)
        PROVE  Remove(p)
    BY <1>6 DEF VmExit
  <1>7. QED
    BY <1>1, <1>2, <1>3, <1>4, <1>5, <1>6 DEF HostNext

\* A process that starts takes a pid that was free.
Started(p, i, q) ==
  /\ DOMAIN procs' = DOMAIN procs \cup {p} /\ p \notin DOMAIN procs \cup retired
  /\ procs'[p].vm = i /\ procs'[p].port = q /\ ~procs'[p].dying /\ ~procs'[p].listens
  /\ \A r \in DOMAIN procs : procs'[r] = procs[r]

\* What StartVm does to the table of processes.
LEMMA StartStep ==
  ASSUME NEW p \in FreePids, NEW i, NEW q, StartVm(p, i, q)
  PROVE  Started(p, i, q)
  BY DEF Started, StartVm, Put, FreePids

\* The alternatives of a fork.
LEMMA ForkStep ==
  ASSUME CoreInv, NEW h \in Handlers, Fork(h)
  PROVE  /\ pc[h] = "fork" /\ id[h] \in DOMAIN instances /\ id[h] \in Ids
         /\ DOMAIN instances' = DOMAIN instances
         /\ \A i \in DOMAIN instances \ {id[h]} : instances'[i] = instances[i]
         /\ instances'[id[h]].ssh = instances[id[h]].ssh
         /\ instances'[id[h]].arg = instances[id[h]].arg
         /\ \/ \E p \in FreePids : /\ StartVm(p, id[h], instances[id[h]].arg)
                                   /\ instances'[id[h]].pid = p
            \/ "forkFails" \in Faults /\ UNCHANGED host
         /\ pc' = [pc EXCEPT ![h] = "idle"] /\ id' = [id EXCEPT ![h] = InitialId]
         /\ h # Main
  BY ControllerAssumption DEF CoreInv, TypeInv, TypeOK, RunsKnown, RunSteps, Instance, Fork,
     Reply, Goto, Threads

\* Every step keeps each pid with its instance.
LEMMA KillStep ==
  ASSUME PidsUnique, CoreInv, KillInv, [Next]_vars
  PROVE  KillInv'
  <1> USE HostAssumption, ControllerAssumption
      DEF CoreInv, TypeInv, TypeOK, Threads, HandlerSteps, Goto, counters, bookkeeping
  <1>1. CASE Aside
    BY <1>1 DEF Aside, KillInv, host
  <1>2. ASSUME NEW h \in Handlers, Spawn(h) PROVE KillInv'
    BY <1>2 DEF Spawn, Reply, KillInv, host
  <1>3. ASSUME NEW h \in Handlers, Fork(h) PROVE KillInv'
    <2>1. PICK p \in FreePids : /\ StartVm(p, id[h], instances[id[h]].arg)
                                /\ instances'[id[h]].pid = p
      BY <1>3, ForkStep DEF PidsUnique
    <2>2. /\ DOMAIN procs' = DOMAIN procs \cup {p} /\ p \notin DOMAIN procs \cup retired
          /\ procs'[p].vm = id[h] /\ retired' = retired \cup {p} /\ p # NoPid
          /\ \A r \in DOMAIN procs : procs'[r] = procs[r]
      <3>1. Started(p, id[h], instances[id[h]].arg)
        BY <2>1, StartStep
      <3>2. retired' = retired \cup {p}
        BY <2>1 DEF StartVm, PidsUnique
      <3>3. p # NoPid
        BY DEF FreePids
      <3>4. QED
        BY <3>1, <3>2, <3>3 DEF Started
    <2>3. DOMAIN procs' \subseteq retired'
      BY <2>2 DEF KillInv
    <2>4. ASSUME NEW i \in DOMAIN instances
          PROVE  /\ instances'[i].pid \in retired' \cup {NoPid}
                 /\ instances'[i].pid \in DOMAIN procs' => procs'[instances'[i].pid].vm = i
      <3>1. CASE i = id[h]
        BY <2>1, <2>2, <3>1
      <3>2. CASE i # id[h]
        <4>1. instances'[i] = instances[i]
          BY <1>3, <3>2, ForkStep
        <4>2. instances[i].pid # p
          BY <2>2 DEF KillInv
        <4>3. QED
          BY <2>2, <4>1, <4>2 DEF KillInv
      <3>3. QED
        BY <3>1, <3>2
    <2>5. ASSUME NEW g \in Handlers, pc'[g] = "signal"
          PROVE  id'[g] \in DOMAIN instances' /\ instances'[id'[g]].pid # NoPid
      <3>1. pc[g] = "signal" /\ id'[g] = id[g] /\ DOMAIN instances' = DOMAIN instances
        BY <1>3, <2>5, ForkStep
      <3>2. CASE id[g] = id[h]
        BY <2>1, <2>2, <3>1, <3>2 DEF KillInv
      <3>3. CASE id[g] # id[h]
        BY <1>3, <3>1, <3>3, ForkStep DEF KillInv
      <3>4. QED
        BY <3>2, <3>3
    <2>6. DOMAIN instances' = DOMAIN instances
      BY <1>3, ForkStep
    <2>7. QED
      BY <2>3, <2>4, <2>5, <2>6 DEF KillInv
  <1>4. ASSUME NEW h \in Handlers, Signal(h) PROVE KillInv'
    <2>1. /\ DOMAIN procs' = DOMAIN procs /\ retired' = retired
          /\ \A p \in DOMAIN procs : procs'[p].vm = procs[p].vm
      BY <1>4 DEF Signal, Interrupt, HostTypeOK, Proc
    <2>2. QED
      BY <1>4, <2>1 DEF Signal, Reply, KillInv
  <1>5. ASSUME NEW h \in Handlers, NEW i \in Ids, KillBegin(h, i) PROVE KillInv'
    <2>1. instances[i].pid # NoPid
      BY <1>5 DEF KillBegin, IsRunning, IsAlive, HostTypeOK, NoPid, AllPids
    <2>2. QED
      BY <1>5, <2>1 DEF KillBegin, Ready, KillInv, host
  <1>6. ASSUME NEW t \in Threads, Register(t) PROVE KillInv'
    <2>1. UNCHANGED host /\ \A h \in Handlers : pc'[h] = "signal" => pc[h] = "signal" /\ id'[h] = id[h]
      BY <1>6 DEF Register, LeaveRestore
    <2>2. /\ DOMAIN instances' = DOMAIN instances \cup {id[t]} /\ instances'[id[t]].pid = NoPid
          /\ \A i \in DOMAIN instances \ {id[t]} : instances'[i] = instances[i]
      BY <1>6 DEF Register, Put
    <2>3. ASSUME NEW h \in Handlers, pc[h] = "signal"
          PROVE  id[h] # id[t]
      <3>1. CASE t = Main
        BY <1>6, <2>3, <3>1 DEF Register, LockInv
      <3>2. CASE t # Main
        BY <1>6, <2>3, <3>2 DEF Register, CreationInv, Creating, RestoreSteps, KillInv
      <3>3. QED
        BY <3>1, <3>2
    <2>4. QED
      BY <2>1, <2>2, <2>3 DEF KillInv, host, HostTypeOK
  <1>7. CASE Crash
    <2>1. /\ DOMAIN instances' = {} /\ retired' = retired
          /\ \A h \in Handlers : pc'[h] = "idle"
      BY <1>7 DEF Crash
    <2>2. DOMAIN procs' = DOMAIN procs
      BY <1>7 DEF Crash, OrphanAll
    <2>3. QED
      BY <2>1, <2>2 DEF KillInv
  <1>8. CASE Restart
    BY <1>8 DEF Restart, KillInv, host
  <1>9. CASE Environment
    <2>1. /\ DOMAIN procs' \subseteq DOMAIN procs /\ retired' = retired
          /\ \A p \in DOMAIN procs' : procs'[p].vm = procs[p].vm
      BY <1>9, MachineStep DEF Environment
    <2>2. UNCHANGED <<pc, id, instances>>
      BY <1>9 DEF Environment
    <2>3. QED
      BY <2>1, <2>2 DEF KillInv
  <1>10. QED
    BY <1>1, <1>2, <1>3, <1>4, <1>5, <1>6, <1>7, <1>8, <1>9, Kinds

\* A step that makes a VM end is the kill of its instance.
KillsOwnVm ==
  \A p \in DOMAIN procs \cap DOMAIN procs' :
    procs'[p].dying /\ ~procs[p].dying =>
      \E h \in Handlers : pc[h] = "signal" /\ pc'[h] = "idle" /\ id[h] = procs[p].vm

\* The step of KillHitsOwnVm.
LEMMA KillOwn ==
  ASSUME PidsUnique, CoreInv, KillInv, [Next]_vars
  PROVE  KillsOwnVm
  <1> USE ControllerAssumption, HostAssumption
      DEF CoreInv, TypeInv, TypeOK, Threads, HandlerSteps, Goto, counters, bookkeeping
  <1>1. ASSUME UNCHANGED procs PROVE KillsOwnVm
    BY <1>1 DEF KillsOwnVm
  <1>2. ASSUME NEW h \in Handlers, Fork(h) PROVE KillsOwnVm
    <2>1. PICK p \in FreePids : /\ StartVm(p, id[h], instances[id[h]].arg)
                                /\ instances'[id[h]].pid = p
      BY <1>2, ForkStep DEF PidsUnique
    <2>2. Started(p, id[h], instances[id[h]].arg)
      BY <2>1, StartStep
    <2>3. QED
      BY <2>2 DEF Started, KillsOwnVm
  <1>3. ASSUME NEW h \in Handlers, Signal(h) PROVE KillsOwnVm
    <2>1. id[h] \in DOMAIN instances /\ instances[id[h]].pid \in Pids \cup {NoPid}
      BY <1>3 DEF Signal, KillInv, HostTypeOK
    <2>2. instances[id[h]].pid \notin {NoPid, AllPids}
      BY <1>3, <2>1 DEF Signal, KillInv
    <2>3. ASSUME NEW p \in DOMAIN procs, procs'[p].dying, ~procs[p].dying
          PROVE  p = instances[id[h]].pid
      BY <1>3, <2>2, <2>3 DEF Signal, Interrupt, HostTypeOK, Proc
    <2>4. pc[h] = "signal" /\ pc'[h] = "idle"
      BY <1>3 DEF Signal, Reply
    <2>5. QED
      BY <2>1, <2>3, <2>4 DEF KillsOwnVm, KillInv
  <1>4. CASE Crash
    BY <1>4 DEF Crash, OrphanAll, HostTypeOK, Proc, KillsOwnVm
  <1>5. CASE Environment
    BY <1>5, MachineStep DEF Environment, KillsOwnVm
  <1>6. QED
    BY <1>1, <1>2, <1>3, <1>4, <1>5, Kinds
    DEF Aside, Spawn, KillBegin, Register, Restart, host

\* KillCorrect: when forks work and pids are not used twice, a kill interrupts
\* the VM of the instance it names and no other, whatever runs, kills, crashes
\* and restarts come between its isRunning() test and its signal.
THEOREM KillCorrect ==
  ASSUME PidsUnique
  PROVE  Spec => KillHitsOwnVm
  <1>1. Init => CoreInv /\ KillInv
    BY CoreInit, KillInit
  <1>2. CoreInv /\ KillInv /\ [Next]_vars => (CoreInv /\ KillInv)'
    BY CoreStep, KillStep
  <1>3. CoreInv /\ KillInv /\ [Next]_vars => [KillsOwnVm]_vars
    BY KillOwn
  <1>4. Spec => [][KillsOwnVm]_vars
    BY <1>1, <1>2, <1>3, PTL DEF Spec
  <1>5. QED
    BY <1>4 DEF KillHitsOwnVm, KillsOwnVm

-----------------------------------------------------------------------------
(* An instance has one VM *)

\* Where run races with run: two handlers that both have tested isRunning() of
\* one instance (Process::run) and have not forked yet.  With one connection
\* this cannot be.
ForksApart ==
  \A g, h \in Handlers : pc[g] = "fork" /\ pc[h] = "fork" /\ id[g] = id[h] => g = h

\* A controller that crashes keeps its control port, and so waits for its VMs.
KeepsPort == "otherPort" \notin Faults \/ MaxCrashes = 0

\* The controller remembers the process of each VM; it has forgotten none that
\* lives when it boots, and none lives for an instance that it is about to run.
VmInv ==
  /\ SingleVm
  /\ MaxCrashes = 0 => pc[Main] # "down"
  /\ pc[Main] # "down" =>
       \A p \in DOMAIN procs : /\ procs[p].vm \in DOMAIN instances
                               /\ instances[procs[p].vm].pid = p
  /\ pc[Main] \notin {"accept", "down"} => DOMAIN procs = {}
  /\ \A h \in Handlers : pc[h] = "fork" => \A p \in DOMAIN procs : procs[p].vm # id[h]

\* No VM runs at the start.
LEMMA VmInit == Init => VmInv
  BY ControllerAssumption DEF Init, HostInit, VmInv, SingleVm, Threads

\* Every step but two forks of one instance at once keeps VmInv.
LEMMA VmStep ==
  ASSUME KeepsPort, CoreInv, ForksApart, VmInv, [Next]_vars
  PROVE  VmInv'
  <1> USE HostAssumption, ControllerAssumption
      DEF CoreInv, TypeInv, TypeOK, Threads, HandlerSteps, Goto, counters, bookkeeping
  <1>1. CASE Aside
    BY <1>1 DEF Aside, VmInv, SingleVm, host
  <1>2. ASSUME NEW h \in Handlers, Spawn(h) PROVE VmInv'
    <2>1. UNCHANGED <<host, instances>> /\ pc'[Main] = pc[Main]
      BY <1>2 DEF Spawn, Reply
    <2>2. pc[Main] = "accept"
      BY <1>2 DEF Spawn, LockInv
    <2>3. ASSUME NEW g \in Handlers, pc'[g] = "fork", NEW p \in DOMAIN procs
          PROVE  procs[p].vm # id'[g]
      <3>1. CASE g = h
        <4>1. ~IsRunning(id[h]) /\ id' = id
          BY <1>2, <2>3, <3>1 DEF Spawn, Reply
        <4>2. QED
          BY <2>2, <3>1, <4>1 DEF VmInv, IsRunning, IsAlive
      <3>2. CASE g # h
        BY <1>2, <2>3, <3>2 DEF Spawn, Reply, VmInv
      <3>3. QED
        BY <3>1, <3>2
    <2>4. QED
      BY <2>1, <2>3 DEF VmInv, SingleVm, host
  <1>3. ASSUME NEW h \in Handlers, Fork(h) PROVE VmInv'
    <2>1. /\ pc[h] = "fork" /\ id[h] \in DOMAIN instances /\ id[h] \in Ids
          /\ instances[id[h]].arg \in Ports /\ pc[Main] = "accept" /\ pc'[Main] = "accept"
          /\ \A g \in Handlers : pc'[g] = "fork" => g # h /\ pc[g] = "fork" /\ id'[g] = id[g]
      BY <1>3, ForkStep DEF Instance, LockInv
    <2>2. DOMAIN instances' = DOMAIN instances
      BY <1>3, ForkStep
    <2>3. \A i \in DOMAIN instances \ {id[h]} : instances'[i] = instances[i]
      BY <1>3, ForkStep
    <2>4. \A p \in DOMAIN procs : procs[p].vm # id[h]
      BY <2>1 DEF VmInv
    <2>5. CASE UNCHANGED host
      BY <2>1, <2>2, <2>3, <2>4, <2>5 DEF VmInv, SingleVm, host
    <2>6. ASSUME NEW p \in FreePids, StartVm(p, id[h], instances[id[h]].arg),
                 instances'[id[h]].pid = p
          PROVE  VmInv'
      <3>0. Started(p, id[h], instances[id[h]].arg)
        BY <2>6, StartStep
      <3>1. /\ DOMAIN procs' = DOMAIN procs \cup {p} /\ procs'[p].vm = id[h]
            /\ \A r \in DOMAIN procs : procs'[r] = procs[r]
        BY <3>0 DEF Started
      <3>2. p \notin DOMAIN procs
        BY <3>0 DEF Started
      <3>3. SingleVm'
        BY <2>4, <3>1, <3>2 DEF VmInv, SingleVm
      <3>4. \A q \in DOMAIN procs' : /\ procs'[q].vm \in DOMAIN instances'
                                     /\ instances'[procs'[q].vm].pid = q
        BY <2>1, <2>2, <2>3, <2>4, <2>6, <3>1, <3>2 DEF VmInv
      <3>5. ASSUME NEW g \in Handlers, pc'[g] = "fork", NEW q \in DOMAIN procs'
            PROVE  procs'[q].vm # id'[g]
        <4>1. id[g] # id[h]
          BY <2>1, <3>5 DEF ForksApart
        <4>2. QED
          BY <2>1, <3>1, <3>5, <4>1 DEF VmInv
      <3>6. QED
        BY <2>1, <3>3, <3>4, <3>5 DEF VmInv
    <2>7. QED
      BY <1>3, <2>5, <2>6, ForkStep
  <1>4. ASSUME NEW h \in Handlers, Signal(h) PROVE VmInv'
    <2>1. /\ DOMAIN procs' = DOMAIN procs
          /\ \A p \in DOMAIN procs : procs'[p].vm = procs[p].vm
      BY <1>4 DEF Signal, Interrupt, HostTypeOK, Proc
    <2>2. QED
      BY <1>4, <2>1 DEF Signal, Reply, VmInv, SingleVm
  <1>5. ASSUME NEW h \in Handlers, NEW i \in Ids, KillBegin(h, i) PROVE VmInv'
    BY <1>5 DEF KillBegin, Ready, VmInv, SingleVm, host
  <1>6. ASSUME NEW t \in Threads, Register(t) PROVE VmInv'
    <2>1. /\ UNCHANGED host /\ pc[t] = "register"
          /\ \A h \in Handlers : pc'[h] = "fork" => pc[h] = "fork" /\ id'[h] = id[h]
      BY <1>6 DEF Register, LeaveRestore
    <2>2. /\ DOMAIN instances' = DOMAIN instances \cup {id[t]}
          /\ \A i \in DOMAIN instances \ {id[t]} : instances'[i] = instances[i]
      BY <1>6 DEF Register, Put
    <2>3. CASE t = Main
      <3>1. DOMAIN procs = {} /\ pc'[Main] = "boot"
        BY <1>6, <2>1, <2>3 DEF VmInv, Register, LeaveRestore
      <3>2. QED
        BY <2>1, <3>1 DEF VmInv, SingleVm, host
    <2>4. CASE t # Main
      <3>1. id[t] \notin DOMAIN instances /\ pc'[Main] = pc[Main] /\ pc[Main] = "accept"
        BY <1>6, <2>1, <2>4 DEF Register, LeaveRestore, CreationInv, Creating, RestoreSteps, LockInv
      <3>2. QED
        BY <2>1, <2>2, <3>1 DEF VmInv, SingleVm, host
    <2>5. QED
      BY <2>3, <2>4
  <1>7. CASE Crash
    <2>1. /\ pc'[Main] = "down" /\ MaxCrashes # 0
          /\ \A h \in Handlers : pc'[h] = "idle"
      BY <1>7 DEF Crash
    <2>2. /\ DOMAIN procs' = DOMAIN procs
          /\ \A p \in DOMAIN procs : procs'[p].vm = procs[p].vm
      BY <1>7 DEF Crash, OrphanAll, HostTypeOK, Proc
    <2>3. QED
      BY <2>1, <2>2 DEF VmInv, SingleVm
  <1>8. CASE Restart
    <2>1. /\ UNCHANGED host /\ pc'[Main] = "boot"
          /\ \A h \in Handlers : pc'[h] = pc[h] /\ id'[h] = id[h]
          /\ pc[Main] = "down"
      BY <1>8 DEF Restart
    <2>2. DOMAIN procs = {}
      BY <1>8, <2>1 DEF Restart, KeepsPort, VmInv
    <2>3. QED
      BY <2>1, <2>2 DEF VmInv, SingleVm, host
  <1>9. CASE Environment
    <2>1. /\ DOMAIN procs' \subseteq DOMAIN procs
          /\ \A p \in DOMAIN procs' : procs'[p].vm = procs[p].vm
      BY <1>9, MachineStep DEF Environment
    <2>2. UNCHANGED <<pc, id, instances>>
      BY <1>9 DEF Environment
    <2>3. SingleVm'
      BY <2>1 DEF VmInv, SingleVm
    <2>4. pc[Main] # "down" =>
            \A p \in DOMAIN procs' : /\ procs'[p].vm \in DOMAIN instances
                                     /\ instances[procs'[p].vm].pid = p
      BY <2>1 DEF VmInv
    <2>5. /\ DOMAIN procs = {} => DOMAIN procs' = {}
          /\ \A h \in Handlers : pc[h] = "fork" => \A p \in DOMAIN procs' : procs'[p].vm # id[h]
      BY <2>1 DEF VmInv
    <2>6. QED
      BY <2>2, <2>3, <2>4, <2>5 DEF VmInv
  <1>10. QED
    BY <1>1, <1>2, <1>3, <1>4, <1>5, <1>6, <1>7, <1>8, <1>9, Kinds

\* RunsApartSingleVm: no matter how many connections, crashes and faults, two
\* processes for one instance can only come from two runs of it that test
\* isRunning() before either forks, or from a restart at another control port.
THEOREM RunsApartSingleVm ==
  ASSUME KeepsPort
  PROVE  Spec /\ []ForksApart => []SingleVm
  <1>1. Init => CoreInv /\ VmInv
    BY CoreInit, VmInit
  <1>2. CoreInv /\ VmInv /\ ForksApart /\ [Next]_vars => (CoreInv /\ VmInv)'
    BY CoreStep, VmStep
  <1>3. VmInv => SingleVm
    BY DEF VmInv
  <1>4. QED
    BY <1>1, <1>2, <1>3, PTL DEF Spec

\* SingleVmCorrect: with one connection an instance never has two processes,
\* through crashes, restarts at the same control port and every other fault.
THEOREM SingleVmCorrect ==
  ASSUME KeepsPort, \A g, h \in Handlers : g = h
  PROVE  Spec => []SingleVm
  <1>1. ForksApart
    BY DEF ForksApart
  <1>2. []ForksApart
    BY <1>1, PTL
  <1>3. QED
    BY <1>2, RunsApartSingleVm, PTL

-----------------------------------------------------------------------------
(* The controller implements the pool *)

Known  == {i \in DOMAIN disk : Restorable(i)}
Online == {<<procs[p].vm, p>> : p \in DOMAIN procs}

\* Whose replies are remembered: only a handler's that registers the instance it
\* has created, for restore never finds that in the map.
LEMMA TellSteps ==
  ASSUME CoreInv, [Next]_vars
  PROVE  UNCHANGED issued \/ \E h \in Handlers : Register(h)
  <1>1. ASSUME NEW h \in Handlers, Request(h) PROVE UNCHANGED issued
    BY <1>1 DEF Request, RunBegin, KillBegin, RunRefused, KillIdle, List, ListSize,
         InstantiateBegin, vars, bookkeeping
  <1>2. ASSUME NEW t \in Threads, Restore(t), t = Main \/ ~Register(t)
        PROVE  UNCHANGED issued
    <2>1. CASE RestoreLeaves(t)
      <3>1. t # Main => id[t] \notin DOMAIN instances
        BY <2>1 DEF RestoreLeaves, CoreInv, CreationInv, Creating, RestoreSteps, Threads
      <3>2. QED
        BY <2>1, <3>1 DEF RestoreLeaves
    <2>2. CASE ~RestoreLeaves(t)
      BY <1>2, <2>2 DEF Restore, RestoreRead, RestoreCookie, RestorePort, Register, bookkeeping
    <2>3. QED
      BY <2>1, <2>2
  <1>3. ASSUME NEW h \in Handlers, Serve(h), ~Register(h) PROVE UNCHANGED issued
    <2>1. CASE Restore(h)
      BY <1>2, <1>3, <2>1 DEF Threads
    <2>2. CASE ~Restore(h)
      BY <1>3, <2>2 DEF Serve, Scan, RunPort, RunCookie, RunSetPort, Spawn, Fork,
           Signal, ListCopy, PickId, Mkdir, MkdirWait, WriteFile, bookkeeping
    <2>3. QED
      BY <2>1, <2>2
  <1>4. ASSUME Boot PROVE UNCHANGED issued
    BY <1>2, <1>4 DEF Boot, Threads, BootNext, BootDone, Scan, bookkeeping
  <1>5. ASSUME Crash \/ Restart \/ Exhaust \/ Environment PROVE UNCHANGED issued
    BY <1>5 DEF Crash, Restart, Exhaust, Environment, bookkeeping
  <1>6. QED
    BY <1>1, <1>3, <1>4, <1>5 DEF Next, vars

\* An instance begins to exist when a handler writes the last of its cookies.
LEMMA KnownSteps ==
  ASSUME CoreInv, [Next]_vars
  PROVE  \/ Known' = Known
         \/ \E h \in Handlers : /\ WriteFile(h) /\ id[h] \in Ids \ Known
                                /\ Known' = Known \cup {id[h]}
  <1> USE DEF CoreInv, TypeInv, TypeOK, Known, Restorable, DirExists, Dir
  <1>1. CASE UNCHANGED disk
    BY <1>1
  <1>2. CASE Crash
    <2>1. DOMAIN disk' = DOMAIN disk /\ \A i \in DOMAIN disk : disk'[i].files = disk[i].files
      BY <1>2 DEF Crash
    <2>2. QED
      BY <2>1
  <1>3. ASSUME NEW i, WriteSsh(i) PROVE Known' = Known
    <2>1. DOMAIN disk' = DOMAIN disk /\ \A j \in DOMAIN disk : disk'[j].files = disk[j].files
      BY <1>3 DEF WriteSsh
    <2>2. QED
      BY <2>1
  <1>4. ASSUME NEW h \in Handlers, Mkdir(h) PROVE Known' = Known
    <2>1. CASE UNCHANGED disk
      BY <2>1
    <2>2. CASE id[h] \notin DOMAIN disk /\ disk' = Put(disk, id[h], [files |-> {}, ssh |-> InitialPort])
      <3>1. ~ Cookies \subseteq disk'[id[h]].files
        BY <2>2 DEF Put, Cookies
      <3>2. \A i \in DOMAIN disk : disk'[i] = disk[i]
        BY <2>2 DEF Put
      <3>3. DOMAIN disk' = DOMAIN disk \cup {id[h]}
        BY <2>2 DEF Put
      <3>4. QED
        BY <3>1, <3>2, <3>3
    <2>3. QED
      BY <1>4, <2>1, <2>2 DEF Mkdir
  <1>5. ASSUME NEW h \in Handlers, WriteFile(h)
        PROVE  Known' = Known \/ (id[h] \in Ids \ Known /\ Known' = Known \cup {id[h]})
    <2>1. DOMAIN disk' = DOMAIN disk /\ \A i \in DOMAIN disk \ {id[h]} : disk'[i] = disk[i]
      BY <1>5 DEF WriteFile
    <2>2. id[h] \in Known => id[h] \in Known'
      BY <2>1, DiskStep DEF DiskGrows
    <2>3. id[h] \in Ids
      BY DEF Threads
    <2>4. \A i \in DOMAIN disk \ {id[h]} : i \in Known' <=> i \in Known
      BY <2>1
    <2>5. Known \subseteq DOMAIN disk /\ Known' \subseteq DOMAIN disk
      BY <2>1
    <2>6. QED
      BY ONLY <2>2, <2>3, <2>4, <2>5
  <1>6. QED
    BY <1>1, <1>2, <1>3, <1>4, <1>5, DiskWrites

\* A step of the VMs: at most one starts, of an instance that has none, or ends.
LEMMA OnlineSteps ==
  ASSUME CoreInv, VmInv, ForksApart, [Next]_vars
  PROVE  \/ Online' = Online
         \/ \E h \in Handlers, p \in Pids :
              /\ Fork(h) /\ id[h] \in Known /\ \A v \in Online : v[1] # id[h]
              /\ Online' = Online \cup {<<id[h], p>>}
         \/ Environment /\ \E v \in Online : Online' = Online \ {v}
  <1> USE DEF CoreInv, TypeInv, TypeOK
  <1>1. ASSUME UNCHANGED procs PROVE Online' = Online
    BY <1>1 DEF Online
  <1>2. ASSUME DOMAIN procs' = DOMAIN procs, \A p \in DOMAIN procs : procs'[p].vm = procs[p].vm
        PROVE  Online' = Online
    BY <1>2 DEF Online
  <1>3. ASSUME NEW h \in Handlers, Fork(h), ~UNCHANGED host
        PROVE  \E p \in Pids :
                 /\ id[h] \in Known /\ \A v \in Online : v[1] # id[h]
                 /\ Online' = Online \cup {<<id[h], p>>}
    <2>1. PICK p \in FreePids : StartVm(p, id[h], instances[id[h]].arg)
      BY <1>3, ForkStep
    <2>2. Started(p, id[h], instances[id[h]].arg) /\ p \in Pids
      BY <2>1, StartStep DEF FreePids
    <2>3. Online' = Online \cup {<<id[h], p>>}
      BY <2>2 DEF Started, Online
    <2>4. id[h] \in Known
      BY <1>3, ForkStep DEF DurableInv, Known, Restorable, DirExists
    <2>5. \A q \in DOMAIN procs : procs[q].vm # id[h]
      BY <1>3, ForkStep DEF VmInv
    <2>6. QED
      BY <2>2, <2>3, <2>4, <2>5 DEF Online
  <1>4. ASSUME NEW h \in Handlers, Signal(h) PROVE Online' = Online
    <2>1. /\ DOMAIN procs' = DOMAIN procs
          /\ \A p \in DOMAIN procs : procs'[p].vm = procs[p].vm
      BY <1>4 DEF Signal, Interrupt, HostTypeOK, Proc
    <2>2. QED
      BY <1>2, <2>1
  <1>5. CASE Crash
    <2>1. /\ DOMAIN procs' = DOMAIN procs
          /\ \A p \in DOMAIN procs : procs'[p].vm = procs[p].vm
      BY <1>5 DEF Crash, OrphanAll, HostTypeOK, Proc
    <2>2. QED
      BY <1>2, <2>1
  <1>6. CASE Environment
    <2>1. ASSUME NEW p \in DOMAIN procs, Remove(p)
          PROVE  Online' = Online \ {<<procs[p].vm, p>>} /\ <<procs[p].vm, p>> \in Online
      BY <2>1 DEF Remove, Online
    <2>2. ASSUME NEW p \in DOMAIN procs, procs' = [procs EXCEPT ![p].listens = TRUE]
          PROVE  Online' = Online
      <3>1. /\ DOMAIN procs' = DOMAIN procs
            /\ \A q \in DOMAIN procs : procs'[q].vm = procs[q].vm
        BY <2>2 DEF HostTypeOK, Proc
      <3>2. QED
        BY <1>2, <3>1
    <2>3. QED
      BY <1>1, <1>6, <2>1, <2>2 DEF Environment, HostNext, VmBind, VmExit, ForeignBind
  <1>7. QED
    BY <1>1, <1>3, <1>4, <1>5, <1>6, Kinds
    DEF Aside, Spawn, KillBegin, Register, Restart, host

\* The initial state of a controller is that of the pool.
LEMMA PoolInit == Init => Pool!Init
  BY DEF Init, HostInit, Pool!Init

\* Each step of a controller is a step of the pool, or none.
LEMMA PoolStep ==
  ASSUME CoreInv, VmInv, ForksApart, [Next]_vars
  PROVE  [Pool!Next]_(Pool!pool)
  <1> USE DEF Known, Online
  <1>1. ASSUME NEW h \in Handlers, Register(h) PROVE [Pool!Next]_(Pool!pool)
    <2>1. Known' = Known /\ Online' = Online
      BY <1>1 DEF Register, host, Restorable, DirExists
    <2>2. id[h] \in Known /\ id[h] \notin issued /\ issued' = issued \cup {id[h]} /\ id[h] \in Ids
      BY <1>1, ControllerAssumption
      DEF Register, Threads, RestoreSteps, Creating, CoreInv, TypeInv, TypeOK, DurableInv,
          CreationInv, Restorable, DirExists
    <2>3. Pool!Tell(id[h])
      BY <2>1, <2>2 DEF Pool!Tell
    <2>4. QED
      BY <2>2, <2>3 DEF Pool!Next
  <1>2. ASSUME NEW h \in Handlers, WriteFile(h), id[h] \in Ids \ Known,
               Known' = Known \cup {id[h]}
        PROVE  [Pool!Next]_(Pool!pool)
    <2>1. Online' = Online /\ UNCHANGED issued
      BY <1>2 DEF WriteFile, host, bookkeeping
    <2>2. Pool!Create(id[h])
      BY <1>2, <2>1 DEF Pool!Create
    <2>3. QED
      BY <1>2, <2>2 DEF Pool!Next
  <1>3. ASSUME NEW h \in Handlers, NEW p \in Pids, Fork(h), id[h] \in Known,
               \A v \in Online : v[1] # id[h], Online' = Online \cup {<<id[h], p>>}
        PROVE  [Pool!Next]_(Pool!pool)
    <2>1. Known' = Known /\ UNCHANGED issued /\ id[h] \in Ids
      BY <1>3, ForkStep DEF Fork, bookkeeping, Restorable, DirExists
    <2>2. Pool!Start(id[h], p)
      BY <1>3, <2>1 DEF Pool!Start
    <2>3. QED
      BY <2>1, <2>2 DEF Pool!Next
  <1>4. ASSUME Environment, NEW v \in Online, Online' = Online \ {v}
        PROVE  [Pool!Next]_(Pool!pool)
    <2>1. Known' = Known /\ UNCHANGED issued
      BY <1>4 DEF Environment, bookkeeping, Restorable, DirExists
    <2>2. Pool!Stop(v)
      BY <1>4, <2>1 DEF Pool!Stop
    <2>3. QED
      BY <2>2 DEF Pool!Next
  <1>5. CASE Known' = Known /\ Online' = Online /\ UNCHANGED issued
    BY <1>5 DEF Pool!pool
  <1>6. QED
    BY <1>1, <1>2, <1>3, <1>4, <1>5, KnownSteps, OnlineSteps, TellSteps

\* RunsApartPool: as long as no two runs of one instance overlap between the
\* test and the fork, every behaviour of a controller is one of the pool: ids
\* are created once and kept for good, clients are told existing ids only, and
\* a VM starts for an existing instance that has none.
THEOREM RunsApartPool ==
  ASSUME KeepsPort
  PROVE  Spec /\ []ForksApart => ImplementsPool
  <1>1. Init => CoreInv /\ VmInv /\ Pool!Init
    BY CoreInit, VmInit, PoolInit
  <1>2. CoreInv /\ VmInv /\ ForksApart /\ [Next]_vars
          => (CoreInv /\ VmInv)' /\ [Pool!Next]_(Pool!pool)
    BY CoreStep, VmStep, PoolStep
  <1>3. QED
    BY <1>1, <1>2, PTL DEF Spec, ImplementsPool, Pool!Spec

\* PoolCorrect: with one connection a controller implements the pool, through
\* crashes, restarts at the same control port and every fault of the machine.
THEOREM PoolCorrect ==
  ASSUME KeepsPort, \A g, h \in Handlers : g = h
  PROVE  Spec => ImplementsPool
  <1>1. ForksApart
    BY DEF ForksApart
  <1>2. []ForksApart
    BY <1>1, PTL
  <1>3. QED
    BY <1>2, RunsApartPool, PTL
=============================================================================
