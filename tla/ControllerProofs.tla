-------------------------- MODULE ControllerProofs --------------------------
(* Proofs about Controller, for every value of its constants. *)
EXTENDS Controller, TLAPS

USE HostAssumption, ControllerAssumption

-----------------------------------------------------------------------------
(* Types *)

TypeInv == TypeOK /\ RunsKnown

\* The initial state has its types, whatever the machine ran before.
LEMMA InitType == Init => TypeInv
  <1> SUFFICES ASSUME Init PROVE TypeInv
    OBVIOUS
  <1>1. full \in BOOLEAN
    BY DEF Init
  <1>2. QED
    BY <1>1 DEF Init, HostInit, TypeInv, TypeOK, HostTypeOK, RunsKnown, Threads,
       MainSteps, HandlerSteps, RunSteps, Ids, Ports

\* What the machine does on its own keeps the types of its state.
LEMMA HostStepType == HostTypeOK /\ HostNext => HostTypeOK'
  <1> SUFFICES ASSUME HostTypeOK, HostNext PROVE HostTypeOK'
    OBVIOUS
  <1>1. ASSUME NEW p \in DOMAIN procs, VmBind(p) PROVE HostTypeOK'
    <2>1. CASE IsPortFree(procs[p].port)
      <3>1. procs' = [procs EXCEPT ![p].listens = TRUE]
        BY <1>1, <2>1 DEF VmBind
      <3>2. [procs[p] EXCEPT !.listens = TRUE] \in Proc
        BY DEF HostTypeOK, Proc
      <3>3. QED
        BY <1>1, <3>1, <3>2 DEF HostTypeOK, VmBind
    <2>2. CASE ~IsPortFree(procs[p].port)
      <3>1. Remove(p)
        BY <1>1, <2>2 DEF VmBind
      <3>2. QED
        BY <1>1, <3>1 DEF HostTypeOK, VmBind, Remove
    <2>3. QED
      BY <2>1, <2>2
  <1>2. ASSUME NEW p \in DOMAIN procs, VmExit(p) PROVE HostTypeOK'
    BY <1>2 DEF HostTypeOK, VmExit, Remove
  <1>3. ASSUME NEW q \in ForeignPorts, ForeignBind(q) PROVE HostTypeOK'
    BY <1>3 DEF HostTypeOK, ForeignBind
  <1>4. QED
    BY <1>1, <1>2, <1>3 DEF HostNext

\* Process::run keeps the types of the machine's state.
LEMMA StartVmType ==
  ASSUME HostTypeOK, NEW p \in FreePids, NEW i \in Ids, NEW q \in Ports,
         StartVm(p, i, q)
  PROVE  HostTypeOK'
  BY DEF HostTypeOK, StartVm, Put, Proc, FreePids

\* Children that lose their parent keep the types of the machine's state.
LEMMA OrphanType ==
  ASSUME HostTypeOK, OrphanAll, UNCHANGED <<retired, foreign>>
  PROVE  HostTypeOK'
  <1>1. \A p \in DOMAIN procs : [procs[p] EXCEPT !.child = FALSE] \in Proc
    BY DEF HostTypeOK, Proc
  <1>2. DOMAIN procs' = DOMAIN procs /\ procs' \in [DOMAIN procs -> Proc]
    BY <1>1 DEF OrphanAll
  <1>3. QED
    BY <1>2 DEF HostTypeOK

\* Process::kill keeps the types of the machine's state.
LEMMA InterruptType ==
  ASSUME HostTypeOK, NEW pid, Interrupt(pid)
  PROVE  HostTypeOK'
  BY DEF HostTypeOK, Interrupt, Proc

\* The step that follows each search for a port.
LEMMA ScanSteps ==
  /\ DOMAIN AfterScan = {"runScan", "instScan", "restoreScan"}
  /\ AfterScan["runScan"] = "runCookie"
  /\ AfterScan["instScan"] = "pickId"
  /\ AfterScan["restoreScan"] = "restoreCookie"
  BY DEF AfterScan

\* The order in which instantiate writes its files.
LEMMA FileSteps ==
  /\ Files = {"image", "meta", "ssh", "pid"}
  /\ NextFile["image"] = "meta" /\ NextFile["meta"] = "ssh"
  /\ NextFile["ssh"] = "pid" /\ NextFile["pid"] = "restore"
  BY DEF Files, NextFile

\* Every step keeps the types, and the instances that runs work on.
LEMMA TypeStep == TypeInv /\ [Next]_vars => TypeInv'
  <1> SUFFICES ASSUME TypeInv, [Next]_vars PROVE TypeInv'
    OBVIOUS
  <1> USE FileSteps DEF TypeInv, TypeOK, RunsKnown, Threads, MainSteps,
      HandlerSteps, RunSteps, RestoreSteps, CreateSteps, Goto, counters, bookkeeping
  <1>unch. ASSUME UNCHANGED vars PROVE TypeInv'
    BY <1>unch DEF vars, host, HostTypeOK
  <1>runBegin. ASSUME NEW h \in Handlers, NEW i \in Ids, RunBegin(h, i) PROVE TypeInv'
    BY <1>runBegin DEF RunBegin, Ready, host, HostTypeOK
  <1>runPort. ASSUME NEW h \in Handlers, RunPort(h) PROVE TypeInv'
    BY <1>runPort DEF RunPort, host, HostTypeOK
  <1>runCookie. ASSUME NEW h \in Handlers, RunCookie(h) PROVE TypeInv'
    BY <1>runCookie DEF RunCookie, WriteSsh, Opens, MayFail, host, HostTypeOK, Dir
  <1>runSetPort. ASSUME NEW h \in Handlers, RunSetPort(h) PROVE TypeInv'
    BY <1>runSetPort DEF RunSetPort, host, HostTypeOK, Instance
  <1>spawn. ASSUME NEW h \in Handlers, Spawn(h) PROVE TypeInv'
    BY <1>spawn DEF Spawn, Reply, host, HostTypeOK, Ids, Ports
  <1>fork. ASSUME NEW h \in Handlers, Fork(h) PROVE TypeInv'
    <2>1. id[h] \in DOMAIN instances /\ instances[id[h]] \in Instance
      BY <1>fork DEF Fork
    <2>2. HostTypeOK'
      <3>1. CASE UNCHANGED host
        BY <3>1 DEF host, HostTypeOK
      <3>2. ASSUME NEW p \in FreePids, StartVm(p, id[h], instances[id[h]].arg)
            PROVE  HostTypeOK'
        BY <2>1, <3>2, StartVmType DEF Instance
      <3>3. QED
        BY <1>fork, <3>1, <3>2 DEF Fork
    <2>3. PICK x \in Pids \cup {AllPids} : instances' = [instances EXCEPT ![id[h]].pid = x]
      BY <1>fork DEF Fork, FreePids
    <2>4. DOMAIN instances' = DOMAIN instances /\ instances' \in [DOMAIN instances -> Instance]
      <3>1. [instances[id[h]] EXCEPT !.pid = x] \in Instance
        BY <2>1, <2>3 DEF Instance
      <3>2. QED
        BY <2>3, <3>1
    <2>5. QED
      BY <1>fork, <2>2, <2>4 DEF Fork, Reply, Ids, Ports
  <1>killBegin. ASSUME NEW h \in Handlers, NEW i \in Ids, KillBegin(h, i) PROVE TypeInv'
    BY <1>killBegin DEF KillBegin, Ready, host, HostTypeOK
  <1>signal. ASSUME NEW h \in Handlers, Signal(h) PROVE TypeInv'
    <2>1. HostTypeOK'
      BY <1>signal, InterruptType DEF Signal
    <2>2. QED
      BY <1>signal, <2>1 DEF Signal, Reply, Ids, Ports
  <1>listSize. ASSUME NEW h \in Handlers, ListSize(h) PROVE TypeInv'
    BY <1>listSize DEF ListSize, Ready, host, HostTypeOK
  <1>listCopy. ASSUME NEW h \in Handlers, ListCopy(h) PROVE TypeInv'
    BY <1>listCopy DEF ListCopy, Reply, Ids, Ports, host, HostTypeOK
  <1>instantiate. ASSUME NEW h \in Handlers, InstantiateBegin(h) PROVE TypeInv'
    BY <1>instantiate DEF InstantiateBegin, Ready, host, HostTypeOK
  <1>pickId. ASSUME NEW h \in Handlers, PickId(h) PROVE TypeInv'
    BY <1>pickId DEF PickId, host, HostTypeOK
  <1>mkdir. ASSUME NEW h \in Handlers, Mkdir(h) PROVE TypeInv'
    BY <1>mkdir DEF Mkdir, host, HostTypeOK, Dir, Put, Ports, DirExists
  <1>mkdirWait. ASSUME NEW h \in Handlers, MkdirWait(h) PROVE TypeInv'
    BY <1>mkdirWait DEF MkdirWait, host, HostTypeOK
  <1>writeFile. ASSUME NEW h \in Handlers, WriteFile(h) PROVE TypeInv'
    BY <1>writeFile DEF WriteFile, Opens, MayFail, host, HostTypeOK, Dir
  <1>scan. ASSUME NEW t \in Threads, Scan(t) PROVE TypeInv'
    BY <1>scan, ScanSteps DEF Scan, host, HostTypeOK, Ports
  <1>leaves. ASSUME NEW t \in Threads, RestoreLeaves(t) PROVE TypeInv'
    BY <1>leaves DEF RestoreLeaves, LeaveRestore, host, HostTypeOK, Ids, Ports
  <1>read. ASSUME NEW t \in Threads, RestoreRead(t) PROVE TypeInv'
    <2>1. PICK q \in SshRead(id[t]) : \/ pc' = [pc EXCEPT ![t] = "register"]
                                         /\ port' = [port EXCEPT ![t] = q]
                                      \/ pc' = [pc EXCEPT ![t] = "restoreScan"]
                                         /\ port' = [port EXCEPT ![t] = nextPort]
      BY <1>read DEF RestoreRead
    <2>2. q \in Ports
      BY <1>read DEF RestoreRead, SshRead, Restorable, DirExists, Dir
    <2>3. QED
      BY <1>read, <2>1, <2>2 DEF RestoreRead, host, HostTypeOK
  <1>cookie. ASSUME NEW t \in Threads, RestoreCookie(t) PROVE TypeInv'
    BY <1>cookie DEF RestoreCookie, WriteSsh, Opens, MayFail, Dir, host, HostTypeOK
  <1>port. ASSUME NEW t \in Threads, RestorePort(t) PROVE TypeInv'
    BY <1>port DEF RestorePort, host, HostTypeOK
  <1>register. ASSUME NEW t \in Threads, Register(t) PROVE TypeInv'
    BY <1>register DEF Register, Put, Instance, LeaveRestore, host, HostTypeOK, Ids, Ports
  <1>bootNext. ASSUME BootNext PROVE TypeInv'
    BY <1>bootNext DEF BootNext, host, HostTypeOK
  <1>bootDone. ASSUME BootDone PROVE TypeInv'
    BY <1>bootDone DEF BootDone, host, HostTypeOK
  <1>crash. ASSUME Crash PROVE TypeInv'
    <2>1. HostTypeOK'
      <3>1. OrphanAll /\ UNCHANGED <<retired, foreign>>
        BY <1>crash DEF Crash
      <3>2. QED
        BY <3>1, OrphanType
    <2>2. crashes' \in 0..MaxCrashes
      BY <1>crash, ControllerAssumption DEF Crash
    <2>3. DOMAIN disk' \subseteq Ids /\ disk' \in [DOMAIN disk' -> Dir]
      <3>1. \A i \in DOMAIN disk : [disk[i] EXCEPT !.ssh = Torn] \in Dir
        BY DEF Dir
      <3>2. QED
        BY <1>crash, <3>1 DEF Crash
    <2>4. /\ pc' = [t \in Threads |-> IF t = Main THEN "down" ELSE "idle"]
          /\ id' = [t \in Threads |-> InitialId]
          /\ port' = [t \in Threads |-> InitialPort]
          /\ mutex' = Nobody /\ nextId' = InitialId /\ nextPort' = InitialPort
          /\ instances' = [i \in {} |-> 0] /\ todo' = {} /\ full' = FALSE
          /\ issued' = issued
      BY <1>crash DEF Crash
    <2>5. full' \in BOOLEAN
      BY <2>4
    <2>6. QED
      BY <2>1, <2>2, <2>3, <2>4, <2>5 DEF Ids, Ports
  <1>restart. ASSUME Restart PROVE TypeInv'
    BY <1>restart DEF Restart, host, HostTypeOK
  <1>exhaust. ASSUME Exhaust PROVE TypeInv'
    BY <1>exhaust DEF Exhaust, host, HostTypeOK
  <1>environment. ASSUME Environment PROVE TypeInv'
    BY <1>environment, HostStepType DEF Environment
  <1>qed. QED
    BY <1>unch, <1>runBegin, <1>runPort, <1>runCookie, <1>runSetPort, <1>spawn,
       <1>fork, <1>killBegin, <1>signal, <1>instantiate, <1>pickId, <1>mkdir,
       <1>mkdirWait, <1>writeFile, <1>scan, <1>leaves, <1>read, <1>cookie,
       <1>port, <1>register, <1>bootNext, <1>bootDone, <1>crash, <1>restart,
       <1>environment, <1>listSize, <1>listCopy, <1>exhaust
    DEF Next, Request, Serve, Boot, Restore, RunRefused, KillIdle, List

\* TypeCorrect: every reachable state has the types of TypeOK, and a run in
\* progress works on an instance of the map (Controller::run keeps a pointer).
THEOREM TypeCorrect == Spec => []TypeOK
  <1>1. TypeInv /\ [Next]_vars => TypeInv'
    BY TypeStep
  <1>2. Spec => []TypeInv
    BY InitType, <1>1, PTL DEF Spec
  <1>3. TypeInv => TypeOK
    BY DEF TypeInv
  <1>4. QED
    BY <1>2, <1>3, PTL

-----------------------------------------------------------------------------
(* The mutex *)

\* Exactly the handlers between the first and the last line of instantiate
\* hold the mutex, and none is at work unless main() accepts connections.
LockInv ==
  /\ \A h \in Handlers : pc[h] \in CreateSteps \cup RestoreSteps <=> mutex = h
  /\ pc[Main] # "accept" => \A h \in Handlers : pc[h] = "idle"

\* Nobody has the mutex at the start.
LEMMA LockInit == Init => LockInv
  BY ControllerAssumption, FileSteps
  DEF Init, LockInv, Threads, CreateSteps, RestoreSteps

\* Every step keeps the mutex with the handler that creates an instance.
LEMMA LockStep == TypeInv /\ LockInv /\ [Next]_vars => LockInv'
  <1> SUFFICES ASSUME TypeInv, LockInv, [Next]_vars PROVE LockInv'
    OBVIOUS
  <1> USE ControllerAssumption, FileSteps
      DEF TypeInv, TypeOK, LockInv, Threads, MainSteps, HandlerSteps,
          RunSteps, RestoreSteps, CreateSteps, Goto, Ready
  <1>unch. ASSUME UNCHANGED vars PROVE LockInv'
    BY <1>unch DEF vars
  <1>runBegin. ASSUME NEW h \in Handlers, NEW i \in Ids, RunBegin(h, i) PROVE LockInv'
    BY <1>runBegin DEF RunBegin
  <1>runPort. ASSUME NEW h \in Handlers, RunPort(h) PROVE LockInv'
    BY <1>runPort DEF RunPort
  <1>runCookie. ASSUME NEW h \in Handlers, RunCookie(h) PROVE LockInv'
    BY <1>runCookie DEF RunCookie
  <1>runSetPort. ASSUME NEW h \in Handlers, RunSetPort(h) PROVE LockInv'
    BY <1>runSetPort DEF RunSetPort
  <1>spawn. ASSUME NEW h \in Handlers, Spawn(h) PROVE LockInv'
    BY <1>spawn DEF Spawn, Reply
  <1>fork. ASSUME NEW h \in Handlers, Fork(h) PROVE LockInv'
    BY <1>fork DEF Fork, Reply
  <1>killBegin. ASSUME NEW h \in Handlers, NEW i \in Ids, KillBegin(h, i) PROVE LockInv'
    BY <1>killBegin DEF KillBegin
  <1>signal. ASSUME NEW h \in Handlers, Signal(h) PROVE LockInv'
    BY <1>signal DEF Signal, Reply
  <1>listSize. ASSUME NEW h \in Handlers, ListSize(h) PROVE LockInv'
    BY <1>listSize DEF ListSize
  <1>listCopy. ASSUME NEW h \in Handlers, ListCopy(h) PROVE LockInv'
    BY <1>listCopy DEF ListCopy, Reply
  <1>instantiate. ASSUME NEW h \in Handlers, InstantiateBegin(h) PROVE LockInv'
    BY <1>instantiate DEF InstantiateBegin
  <1>pickId. ASSUME NEW h \in Handlers, PickId(h) PROVE LockInv'
    BY <1>pickId DEF PickId
  <1>mkdir. ASSUME NEW h \in Handlers, Mkdir(h) PROVE LockInv'
    BY <1>mkdir DEF Mkdir
  <1>mkdirWait. ASSUME NEW h \in Handlers, MkdirWait(h) PROVE LockInv'
    BY <1>mkdirWait DEF MkdirWait
  <1>writeFile. ASSUME NEW h \in Handlers, WriteFile(h) PROVE LockInv'
    BY <1>writeFile DEF WriteFile
  <1>scan. ASSUME NEW t \in Threads, Scan(t) PROVE LockInv'
    BY <1>scan, ScanSteps DEF Scan
  <1>leaves. ASSUME NEW t \in Threads, RestoreLeaves(t) PROVE LockInv'
    BY <1>leaves DEF RestoreLeaves, LeaveRestore
  <1>read. ASSUME NEW t \in Threads, RestoreRead(t) PROVE LockInv'
    BY <1>read DEF RestoreRead
  <1>cookie. ASSUME NEW t \in Threads, RestoreCookie(t) PROVE LockInv'
    BY <1>cookie DEF RestoreCookie
  <1>port. ASSUME NEW t \in Threads, RestorePort(t) PROVE LockInv'
    BY <1>port DEF RestorePort
  <1>register. ASSUME NEW t \in Threads, Register(t) PROVE LockInv'
    BY <1>register DEF Register, LeaveRestore
  <1>bootNext. ASSUME BootNext PROVE LockInv'
    BY <1>bootNext DEF BootNext
  <1>bootDone. ASSUME BootDone PROVE LockInv'
    BY <1>bootDone DEF BootDone
  <1>crash. ASSUME Crash PROVE LockInv'
    BY <1>crash DEF Crash
  <1>restart. ASSUME Restart PROVE LockInv'
    BY <1>restart DEF Restart
  <1>exhaust. ASSUME Exhaust PROVE LockInv'
    BY <1>exhaust DEF Exhaust
  <1>environment. ASSUME Environment PROVE LockInv'
    BY <1>environment DEF Environment
  <1>qed. QED
    BY <1>unch, <1>runBegin, <1>runPort, <1>runCookie, <1>runSetPort, <1>spawn,
       <1>fork, <1>killBegin, <1>signal, <1>instantiate, <1>pickId, <1>mkdir,
       <1>mkdirWait, <1>writeFile, <1>scan, <1>leaves, <1>read, <1>cookie,
       <1>port, <1>register, <1>bootNext, <1>bootDone, <1>crash, <1>restart,
       <1>environment, <1>listSize, <1>listCopy, <1>exhaust
    DEF Next, Request, Serve, Boot, Restore, RunRefused, KillIdle, List

-----------------------------------------------------------------------------
(* The instances that clients know survive *)

\* Files are only ever added to a directory, whatever the step: no request,
\* crash or restart makes an instance that could be restored unrestorable.
DiskGrows == \A i \in DOMAIN disk : Restorable(i) => Restorable(i)'

\* Who writes to the working directory.
LEMMA DiskWrites ==
  ASSUME [Next]_vars
  PROVE  \/ UNCHANGED disk \/ Crash \/ \E i : WriteSsh(i)
         \/ \E h \in Handlers : Mkdir(h) \/ WriteFile(h)
  <1>1. ASSUME NEW h \in Handlers, Request(h) PROVE UNCHANGED disk
    BY <1>1 DEF Request, RunBegin, KillBegin, RunRefused, KillIdle, List, ListSize,
         InstantiateBegin, vars, bookkeeping
  <1>2. ASSUME NEW t \in Threads, Restore(t) PROVE UNCHANGED disk \/ WriteSsh(id[t])
    BY <1>2 DEF Restore, RestoreLeaves, RestoreRead, RestoreCookie, RestorePort,
         Register, bookkeeping
  <1>3. ASSUME NEW h \in Handlers, Serve(h), ~Mkdir(h), ~WriteFile(h)
        PROVE  UNCHANGED disk \/ WriteSsh(id[h])
    <2>1. CASE Restore(h)
      BY <1>2, <2>1 DEF Threads
    <2>2. CASE ~Restore(h)
      BY <1>3, <2>2 DEF Serve, Scan, RunPort, RunCookie, RunSetPort, Spawn, Fork,
           Signal, ListCopy, PickId, MkdirWait, bookkeeping
    <2>3. QED
      BY <2>1, <2>2
  <1>4. ASSUME Boot PROVE UNCHANGED disk \/ WriteSsh(id[Main])
    BY <1>2, <1>4 DEF Boot, Threads, BootNext, BootDone, Scan, bookkeeping
  <1>5. ASSUME Restart \/ Exhaust \/ Environment PROVE UNCHANGED disk
    BY <1>5 DEF Restart, Exhaust, Environment, bookkeeping
  <1>6. QED
    BY <1>1, <1>3, <1>4, <1>5 DEF Next, vars

\* No step spoils the metadata of an instance.
LEMMA DiskStep == TypeInv /\ [Next]_vars => DiskGrows
  <1> SUFFICES ASSUME TypeInv, [Next]_vars PROVE DiskGrows
    OBVIOUS
  <1> USE DEF TypeInv, TypeOK, DiskGrows, Restorable, DirExists
  <1>same. ASSUME UNCHANGED disk PROVE DiskGrows
    BY <1>same
  <1>writeSsh. ASSUME NEW i, WriteSsh(i) PROVE DiskGrows
    BY <1>writeSsh DEF WriteSsh, Dir
  <1>mkdir. ASSUME NEW h \in Handlers, Mkdir(h) PROVE DiskGrows
    BY <1>mkdir DEF Mkdir, Put
  <1>writeFile. ASSUME NEW h \in Handlers, WriteFile(h) PROVE DiskGrows
    BY <1>writeFile DEF WriteFile, Dir
  <1>crash. ASSUME Crash PROVE DiskGrows
    BY <1>crash DEF Crash, Dir
  <1>qed. QED
    BY <1>same, <1>writeSsh, <1>mkdir, <1>writeFile, <1>crash, DiskWrites

\* While the constructor restores, an issued instance is still to come, being
\* restored or in the map.
BootCovers ==
  \A i \in issued :
    \/ i \in todo \cup DOMAIN instances
    \/ pc[Main] \in RestoreSteps /\ id[Main] = i

\* What makes IssuedDurable inductive: restore has read all the cookies of the
\* instance it registers, and the constructor skips no directory unless it has
\* run out of descriptors, which lasts until the process ends.
DurableInv ==
  /\ \A i \in issued \cup DOMAIN instances : Restorable(i)
  /\ \A t \in Threads : pc[t] \in RestoreSteps \ {"restore"} => Restorable(id[t])
  /\ pc[Main] = "accept" /\ ~full => issued \subseteq DOMAIN instances
  /\ pc[Main] \in {"boot"} \cup RestoreSteps /\ ~full => BootCovers

\* Nothing is told before the first boot.
LEMMA DurableInit == Init => DurableInv
  BY ControllerAssumption
  DEF Init, DurableInv, BootCovers, Threads, RestoreSteps

\* Every step keeps what clients were told on the disk, and in the map or
\* still to be restored.
LEMMA DurableStep ==
  TypeInv /\ LockInv /\ DurableInv /\ [Next]_vars => DurableInv'
  <1> SUFFICES ASSUME TypeInv, LockInv, DurableInv, [Next]_vars PROVE DurableInv'
    OBVIOUS
  <1>grows. \A i : Restorable(i) => Restorable(i)'
    BY DiskStep DEF DiskGrows, Restorable, DirExists
  <1> USE <1>grows, ControllerAssumption, FileSteps
      DEF TypeInv, TypeOK, LockInv, DurableInv, BootCovers, Threads, MainSteps,
          HandlerSteps, RunSteps, RestoreSteps, CreateSteps, Goto, Ready,
          counters, bookkeeping
  <1>unch. ASSUME UNCHANGED vars PROVE DurableInv'
    BY <1>unch DEF vars
  <1>runBegin. ASSUME NEW h \in Handlers, NEW i \in Ids, RunBegin(h, i) PROVE DurableInv'
    BY <1>runBegin DEF RunBegin
  <1>runPort. ASSUME NEW h \in Handlers, RunPort(h) PROVE DurableInv'
    BY <1>runPort DEF RunPort
  <1>runCookie. ASSUME NEW h \in Handlers, RunCookie(h) PROVE DurableInv'
    BY <1>runCookie DEF RunCookie
  <1>runSetPort. ASSUME NEW h \in Handlers, RunSetPort(h) PROVE DurableInv'
    BY <1>runSetPort DEF RunSetPort
  <1>spawn. ASSUME NEW h \in Handlers, Spawn(h) PROVE DurableInv'
    BY <1>spawn DEF Spawn, Reply
  <1>fork. ASSUME NEW h \in Handlers, Fork(h) PROVE DurableInv'
    BY <1>fork DEF Fork, Reply
  <1>killBegin. ASSUME NEW h \in Handlers, NEW i \in Ids, KillBegin(h, i) PROVE DurableInv'
    BY <1>killBegin DEF KillBegin
  <1>signal. ASSUME NEW h \in Handlers, Signal(h) PROVE DurableInv'
    BY <1>signal DEF Signal, Reply
  <1>listSize. ASSUME NEW h \in Handlers, ListSize(h) PROVE DurableInv'
    BY <1>listSize DEF ListSize
  <1>listCopy. ASSUME NEW h \in Handlers, ListCopy(h) PROVE DurableInv'
    BY <1>listCopy DEF ListCopy, Reply
  <1>instantiate. ASSUME NEW h \in Handlers, InstantiateBegin(h) PROVE DurableInv'
    BY <1>instantiate DEF InstantiateBegin
  <1>pickId. ASSUME NEW h \in Handlers, PickId(h) PROVE DurableInv'
    BY <1>pickId DEF PickId
  <1>mkdir. ASSUME NEW h \in Handlers, Mkdir(h) PROVE DurableInv'
    BY <1>mkdir DEF Mkdir
  <1>mkdirWait. ASSUME NEW h \in Handlers, MkdirWait(h) PROVE DurableInv'
    BY <1>mkdirWait DEF MkdirWait
  <1>writeFile. ASSUME NEW h \in Handlers, WriteFile(h) PROVE DurableInv'
    BY <1>writeFile DEF WriteFile
  <1>scan. ASSUME NEW t \in Threads, Scan(t) PROVE DurableInv'
    BY <1>scan, ScanSteps DEF Scan
  <1>leaves. ASSUME NEW t \in Threads, RestoreLeaves(t) PROVE DurableInv'
    BY <1>leaves DEF RestoreLeaves, LeaveRestore
  <1>read. ASSUME NEW t \in Threads, RestoreRead(t) PROVE DurableInv'
    BY <1>read DEF RestoreRead
  <1>cookie. ASSUME NEW t \in Threads, RestoreCookie(t) PROVE DurableInv'
    BY <1>cookie DEF RestoreCookie
  <1>port. ASSUME NEW t \in Threads, RestorePort(t) PROVE DurableInv'
    BY <1>port DEF RestorePort
  <1>register. ASSUME NEW t \in Threads, Register(t) PROVE DurableInv'
    BY <1>register DEF Register, Put, LeaveRestore
  <1>bootNext. ASSUME BootNext PROVE DurableInv'
    BY <1>bootNext DEF BootNext
  <1>bootDone. ASSUME BootDone PROVE DurableInv'
    BY <1>bootDone DEF BootDone
  <1>crash. ASSUME Crash PROVE DurableInv'
    BY <1>crash DEF Crash
  <1>restart. ASSUME Restart PROVE DurableInv'
    BY <1>restart DEF Restart, Restorable, DirExists
  <1>exhaust. ASSUME Exhaust PROVE DurableInv'
    BY <1>exhaust DEF Exhaust
  <1>environment. ASSUME Environment PROVE DurableInv'
    BY <1>environment DEF Environment
  <1>qed. QED
    BY <1>unch, <1>runBegin, <1>runPort, <1>runCookie, <1>runSetPort, <1>spawn,
       <1>fork, <1>killBegin, <1>signal, <1>instantiate, <1>pickId, <1>mkdir,
       <1>mkdirWait, <1>writeFile, <1>scan, <1>leaves, <1>read, <1>cookie,
       <1>port, <1>register, <1>bootNext, <1>bootDone, <1>crash, <1>restart,
       <1>environment, <1>listSize, <1>listCopy, <1>exhaust
    DEF Next, Request, Serve, Boot, Restore, RunRefused, KillIdle, List

\* DurableCorrect: an instance that a client was told about keeps its metadata
\* on disk and is in the map whenever the controller accepts requests and has
\* not run out of descriptors, for any number of handlers, crashes and restarts
\* and every fault of the machine, cookies torn by a crash included.
THEOREM DurableCorrect == Spec => []IssuedDurable
  <1>1. Init => TypeInv /\ LockInv /\ DurableInv
    BY InitType, LockInit, DurableInit
  <1>2. TypeInv /\ LockInv /\ DurableInv /\ [Next]_vars
          => (TypeInv /\ LockInv /\ DurableInv)'
    BY TypeStep, LockStep, DurableStep
  <1>3. TypeInv /\ LockInv /\ DurableInv => IssuedDurable
    BY DEF DurableInv, IssuedDurable
  <1>4. QED
    BY <1>1, <1>2, <1>3, PTL DEF Spec

-----------------------------------------------------------------------------
(* The instance being created *)

\* Two handlers never create at once (LockInv), and the id that the one picks
\* stays its own.
CreationInv ==
  \A h \in Handlers : Creating(h) =>
    /\ id[h] \notin DOMAIN instances
    /\ id[h] \notin issued
    /\ pc[h] = "mkdir" => ~DirExists(id[h])

\* Nobody creates an instance at the start.
LEMMA CreationInit == Init => CreationInv
  BY ControllerAssumption, FileSteps
  DEF Init, CreationInv, Creating, Threads, CreateSteps, RestoreSteps

\* Every step keeps the id of a creation out of all other hands.
LEMMA CreationStep ==
  TypeInv /\ LockInv /\ DurableInv /\ CreationInv /\ [Next]_vars => CreationInv'
  <1> SUFFICES ASSUME TypeInv, LockInv, DurableInv, CreationInv, [Next]_vars
               PROVE  CreationInv'
    OBVIOUS
  <1> USE ControllerAssumption, FileSteps, ScanSteps
      DEF TypeInv, TypeOK, LockInv, DurableInv, CreationInv, Creating, Threads,
          MainSteps, HandlerSteps, RunSteps, RestoreSteps, CreateSteps, Goto,
          Ready, counters, bookkeeping, DirExists
  <1>unch. ASSUME UNCHANGED vars PROVE CreationInv'
    BY <1>unch DEF vars
  <1>runBegin. ASSUME NEW h \in Handlers, NEW i \in Ids, RunBegin(h, i) PROVE CreationInv'
    BY <1>runBegin DEF RunBegin
  <1>runPort. ASSUME NEW h \in Handlers, RunPort(h) PROVE CreationInv'
    BY <1>runPort DEF RunPort
  <1>runCookie. ASSUME NEW h \in Handlers, RunCookie(h) PROVE CreationInv'
    BY <1>runCookie DEF RunCookie, WriteSsh
  <1>runSetPort. ASSUME NEW h \in Handlers, RunSetPort(h) PROVE CreationInv'
    BY <1>runSetPort DEF RunSetPort
  <1>spawn. ASSUME NEW h \in Handlers, Spawn(h) PROVE CreationInv'
    BY <1>spawn DEF Spawn, Reply
  <1>fork. ASSUME NEW h \in Handlers, Fork(h) PROVE CreationInv'
    BY <1>fork DEF Fork, Reply
  <1>killBegin. ASSUME NEW h \in Handlers, NEW i \in Ids, KillBegin(h, i) PROVE CreationInv'
    BY <1>killBegin DEF KillBegin
  <1>signal. ASSUME NEW h \in Handlers, Signal(h) PROVE CreationInv'
    BY <1>signal DEF Signal, Reply
  <1>listSize. ASSUME NEW h \in Handlers, ListSize(h) PROVE CreationInv'
    BY <1>listSize DEF ListSize
  <1>listCopy. ASSUME NEW h \in Handlers, ListCopy(h) PROVE CreationInv'
    BY <1>listCopy DEF ListCopy, Reply
  <1>instantiate. ASSUME NEW h \in Handlers, InstantiateBegin(h) PROVE CreationInv'
    BY <1>instantiate DEF InstantiateBegin
  <1>pickId. ASSUME NEW h \in Handlers, PickId(h) PROVE CreationInv'
    BY <1>pickId DEF PickId, IsNextId, IsFreshId, Restorable
  <1>mkdir. ASSUME NEW h \in Handlers, Mkdir(h) PROVE CreationInv'
    BY <1>mkdir DEF Mkdir
  <1>mkdirWait. ASSUME NEW h \in Handlers, MkdirWait(h) PROVE CreationInv'
    BY <1>mkdirWait DEF MkdirWait
  <1>writeFile. ASSUME NEW h \in Handlers, WriteFile(h) PROVE CreationInv'
    BY <1>writeFile DEF WriteFile
  <1>scan. ASSUME NEW t \in Threads, Scan(t) PROVE CreationInv'
    BY <1>scan DEF Scan
  <1>leaves. ASSUME NEW t \in Threads, RestoreLeaves(t) PROVE CreationInv'
    BY <1>leaves DEF RestoreLeaves, LeaveRestore
  <1>read. ASSUME NEW t \in Threads, RestoreRead(t) PROVE CreationInv'
    BY <1>read DEF RestoreRead
  <1>cookie. ASSUME NEW t \in Threads, RestoreCookie(t) PROVE CreationInv'
    BY <1>cookie DEF RestoreCookie, WriteSsh
  <1>port. ASSUME NEW t \in Threads, RestorePort(t) PROVE CreationInv'
    BY <1>port DEF RestorePort
  <1>register. ASSUME NEW t \in Threads, Register(t) PROVE CreationInv'
    BY <1>register DEF Register, Put, LeaveRestore
  <1>bootNext. ASSUME BootNext PROVE CreationInv'
    BY <1>bootNext DEF BootNext
  <1>bootDone. ASSUME BootDone PROVE CreationInv'
    BY <1>bootDone DEF BootDone
  <1>crash. ASSUME Crash PROVE CreationInv'
    BY <1>crash DEF Crash
  <1>restart. ASSUME Restart PROVE CreationInv'
    BY <1>restart DEF Restart
  <1>exhaust. ASSUME Exhaust PROVE CreationInv'
    BY <1>exhaust DEF Exhaust
  <1>environment. ASSUME Environment PROVE CreationInv'
    BY <1>environment DEF Environment
  <1>qed. QED
    BY <1>unch, <1>runBegin, <1>runPort, <1>runCookie, <1>runSetPort, <1>spawn,
       <1>fork, <1>killBegin, <1>signal, <1>instantiate, <1>pickId, <1>mkdir,
       <1>mkdirWait, <1>writeFile, <1>scan, <1>leaves, <1>read, <1>cookie,
       <1>port, <1>register, <1>bootNext, <1>bootDone, <1>crash, <1>restart,
       <1>environment, <1>listSize, <1>listCopy, <1>exhaust
    DEF Next, Request, Serve, Boot, Restore, RunRefused, KillIdle, List

\* CreationCorrect: for any number of handlers and any sequence of requests,
\* faults, crashes and restarts, the instance that an instantiate works on is
\* in no other hand, in no directory and known to no client.
THEOREM CreationCorrect == Spec => []CreationExclusive
  <1> DEFINE IInv == TypeInv /\ LockInv /\ DurableInv /\ CreationInv
  <1>1. Init => IInv
    BY InitType, LockInit, DurableInit, CreationInit
  <1>2. IInv /\ [Next]_vars => IInv'
    BY TypeStep, LockStep, DurableStep, CreationStep
  <1>3. IInv => CreationExclusive
    BY DEF LockInv, CreationInv, CreationExclusive, Creating
  <1>4. QED
    BY <1>1, <1>2, <1>3, PTL DEF Spec

-----------------------------------------------------------------------------
(* The two copies of a listing *)

\* Instances are never erased, but by the end of the process.
LEMMA InstancesStay ==
  ASSUME [Next]_vars, ~Crash
  PROVE  DOMAIN instances \subseteq DOMAIN instances'
  <1>1. ASSUME UNCHANGED instances PROVE DOMAIN instances \subseteq DOMAIN instances'
    BY <1>1
  <1>2. ASSUME NEW h \in Handlers, Fork(h) PROVE DOMAIN instances \subseteq DOMAIN instances'
    BY <1>2 DEF Fork
  <1>3. ASSUME NEW t \in Threads, Register(t) PROVE DOMAIN instances \subseteq DOMAIN instances'
    BY <1>3 DEF Register, Put
  <1>4. ASSUME NEW h \in Handlers, Request(h) \/ Serve(h), ~Fork(h),
               \A t \in Threads : ~Register(t)
        PROVE  DOMAIN instances' = DOMAIN instances
    <2>1. CASE Request(h)
      BY <2>1 DEF Request, RunBegin, KillBegin, RunRefused, KillIdle, List, ListSize,
                  InstantiateBegin, vars, bookkeeping
    <2>2. CASE Serve(h)
      <3>1. h \in Threads
        BY DEF Threads
      <3>2. CASE Restore(h)
        BY <1>4, <3>1, <3>2 DEF Restore, RestoreLeaves, RestoreRead, RestoreCookie,
                                RestorePort, bookkeeping
      <3>3. CASE ~Restore(h)
        BY <1>4, <2>2, <3>3 DEF Serve, Scan, RunPort, RunCookie, RunSetPort, Spawn, Signal,
             ListCopy, PickId, Mkdir, MkdirWait, WriteFile, bookkeeping
      <3>4. QED
        BY <3>2, <3>3
    <2>3. QED
      BY <1>4, <2>1, <2>2
  <1>5. ASSUME Boot, \A t \in Threads : ~Register(t) PROVE UNCHANGED instances
    BY <1>5 DEF Boot, Threads, BootNext, BootDone, Restore, Scan, RestoreLeaves, RestoreRead,
                RestoreCookie, RestorePort, bookkeeping
  <1>6. QED
    BY <1>1, <1>2, <1>3, <1>4, <1>5
    DEF Next, Environment, Restart, Exhaust, vars, bookkeeping

\* A handler comes between its two copies by the first of them only.
LEMMA ListEntered ==
  ASSUME TypeInv, [Next]_vars, NEW h \in Handlers, pc'[h] = "list", pc[h] # "list"
  PROVE  ListSize(h)
  <1> USE ControllerAssumption, ScanSteps, FileSteps
      DEF TypeInv, TypeOK, Threads, Goto, Reply, LeaveRestore
  <1>1. ASSUME NEW g \in Handlers, Request(g) PROVE ListSize(h)
    <2>1. ~ ListSize(g) => pc'[h] # "list"
      BY <1>1 DEF Request, RunBegin, KillBegin, RunRefused, KillIdle, vars,
                  InstantiateBegin, List
    <2>2. ListSize(g) => g = h
      BY DEF ListSize
    <2>3. QED
      BY <2>1, <2>2
  <1>2. ASSUME NEW t \in Threads, Scan(t) \/ Restore(t) PROVE FALSE
    BY <1>2 DEF Scan, Restore, RestoreLeaves, RestoreRead, RestoreCookie,
                RestorePort, Register
  <1>3. ASSUME NEW g \in Handlers, Serve(g) PROVE FALSE
    BY <1>2, <1>3 DEF Serve, RunPort, RunCookie, RunSetPort, Spawn, Fork, Signal,
       ListCopy, PickId, Mkdir, MkdirWait, WriteFile
  <1>4. CASE Boot
    BY <1>2, <1>4 DEF Boot, BootNext, BootDone
  <1>5. CASE Crash \/ Restart \/ Exhaust \/ Environment \/ UNCHANGED vars
    BY <1>5 DEF Crash, Restart, Exhaust, Environment, vars
  <1>6. QED
    BY <1>1, <1>3, <1>4, <1>5 DEF Next

\* ListingCorrect: whatever other handlers do between the two copies that
\* getInstances takes, a listing that began with an instance has one.
THEOREM ListingCorrect == Spec => []ListingFramed
  <1>1. Init => ListingFramed
    BY ControllerAssumption DEF Init, ListingFramed, Threads
  <1>2. TypeInv /\ ListingFramed /\ [Next]_vars => ListingFramed'
    <2> SUFFICES ASSUME TypeInv, ListingFramed, [Next]_vars,
                        NEW h \in Handlers, pc'[h] = "list"
                 PROVE  DOMAIN instances' # {}
      BY DEF ListingFramed
    <2>1. ~Crash
      BY ControllerAssumption DEF Crash, Threads
    <2>2. DOMAIN instances # {}
      BY ListEntered DEF ListingFramed, ListSize
    <2>3. QED
      BY <2>1, <2>2, InstancesStay
  <1>3. TypeInv /\ [Next]_vars => TypeInv'
    BY TypeStep
  <1>4. QED
    BY InitType, <1>1, <1>2, <1>3, PTL DEF Spec
=============================================================================
