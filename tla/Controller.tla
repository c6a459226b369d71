----------------------------- MODULE Controller -----------------------------
(***************************************************************************)
(* A controller process: src/src/Vm/Controller.hpp as the handler threads  *)
(* of src/src/controller.cpp drive it, one thread per accepted connection, *)
(* and as main() boots it from the working directory.                      *)
(*                                                                         *)
(* Each action is one stretch of a handler between two accesses to state   *)
(* it shares: instances, nextId and nextPort with other handlers, the      *)
(* working directory with later incarnations, ports and pids with the      *)
(* machine.  Only instantiate holds the mutex (as do getTemplates and      *)
(* getInstances, for one copy); run and kill take no lock.  Templates,     *)
(* memory and cpus are written once and never change: a directory only     *)
(* records which of its files exist.                                       *)
(***************************************************************************)
EXTENDS Host

CONSTANTS
  Handlers,   \* handler threads (connections)
  Main,       \* the main thread
  Nobody,     \* the mutex is free
  MaxCrashes, \* bound on the crashes of the process
  ScanRoom    \* bound: see PortsLeft

VARIABLES
  pc, id, port,    \* per thread: next step, the instance it works on, and the
                   \* port it probes (findNextPort) or will use (restore)
  mutex, nextId, nextPort,
  instances,       \* std::map<int, Instance>: id -> [ssh, arg, pid]
  todo,            \* entries that readdir() has yet to return at boot
  disk,            \* <working-dir>/<id>: id -> [files, ssh]
  full,            \* the process has no file descriptor left
  crashes,         \* number of crashes so far
  issued           \* history: ids replied to instantiate requests

vars == <<pc, id, port, mutex, nextId, nextPort, instances, todo, disk,
          full, crashes, issued, host>>

counters == <<nextId, nextPort>>
bookkeeping == <<todo, full, crashes, issued>>

Threads == Handlers \cup {Main}

ASSUME ControllerAssumption ==
  /\ Main \notin Handlers /\ Nobody \notin Threads
  /\ MaxCrashes \in Nat /\ ScanRoom \in Nat

\* What instantiate writes in a new directory, in order: the images ("kernel",
\* "rootfs.img"), .template/.memory/.cpus together, .ssh, .pid; then restore.
NextFile == [image |-> "meta", meta |-> "ssh", ssh |-> "pid", pid |-> "restore"]
Files    == DOMAIN NextFile
Cookies  == {"meta", "ssh", "pid"}

\* What .ssh holds when a crash came between truncating and writing it.
Torn == -1
Dir  == [files : SUBSET Files, ssh : Ports \cup {Torn}]

\* arg is the port written into the command line of the process (vmArgs).
Instance == [ssh : Ports, arg : Ports, pid : Pids \cup {NoPid, AllPids}]

\* Where a findNextPort loop goes once it has found its port.
AfterScan == [runScan |-> "runCookie", instScan |-> "pickId",
              restoreScan |-> "restoreCookie"]

RestoreSteps == {"restore", "restoreScan", "restoreCookie", "restorePort", "register"}
CreateSteps  == {"instScan", "pickId", "mkdir", "mkdirWait"} \cup Files
RunSteps     == {"runPort", "runScan", "runCookie", "runSetPort", "spawn", "fork"}
MainSteps    == {"boot", "accept", "down"} \cup RestoreSteps
HandlerSteps == {"idle", "signal", "list"} \cup RunSteps \cup CreateSteps \cup RestoreSteps

-----------------------------------------------------------------------------
Init ==
  /\ HostInit
  /\ pc = [t \in Threads |-> IF t = Main THEN "boot" ELSE "idle"]
  /\ id = [t \in Threads |-> InitialId]
  /\ port = [t \in Threads |-> InitialPort]
  /\ mutex = Nobody
  /\ nextId = InitialId /\ nextPort = InitialPort
  /\ instances = [i \in {} |-> 0] /\ disk = [i \in {} |-> 0]
  /\ todo = {} /\ full = FALSE /\ issued = {} /\ crashes = 0

Goto(t, step) == pc' = [pc EXCEPT ![t] = step]

\* A handler can take a request once main() is in its accept loop.
Ready(h) == pc[Main] = "accept" /\ pc[h] = "idle"

\* Bounds of the model, not of the code: a run begins only while there is a pid
\* for every run in progress, and a run or an instantiate only while ScanRoom
\* ports lie ahead of nextPort.
PidsLeft ==
  Cardinality(FreePids) > Cardinality({h \in Handlers : pc[h] \in RunSteps})
PortsLeft == nextPort + ScanRoom <= MaxPort

\* The handler replies and reads the next request; its locals are gone.
Reply(h) ==
  /\ Goto(h, "idle")
  /\ id' = [id EXCEPT ![h] = InitialId]
  /\ port' = [port EXCEPT ![h] = InitialPort]

\* Slips: the mutex is not released, and the constructor's call is taken for a
\* handler's.
LeaveRestoreLocked(t) ==
  /\ pc' = [pc EXCEPT ![t] = IF t = Main THEN "boot" ELSE "idle"]
  /\ id' = [id EXCEPT ![t] = InitialId]
  /\ port' = [port EXCEPT ![t] = InitialPort]
  /\ UNCHANGED mutex
LeaveRestoreToIdle(t) == Reply(t) /\ mutex' = Nobody

\* Leaving restore, by return or by exception: ~ScopedLock unlocks for a
\* handler, which replies; the constructor goes on with the next directory.
LeaveRestore(t) ==
  /\ pc' = [pc EXCEPT ![t] = IF t = Main THEN "boot" ELSE "idle"]
  /\ id' = [id EXCEPT ![t] = InitialId]
  /\ port' = [port EXCEPT ![t] = InitialPort]
  /\ mutex' = IF t = Main THEN mutex ELSE Nobody

\* Controller::isPortFree: a socket() that fails counts as a free port.
SeemsFree(q) == full \/ IsPortFree(q)

\* Cookie::write and copyFile ignore an ofstream that does not open.
Opens   == ~full
MayFail == full \/ "writeFails" \in Faults

\* Cookie::write(".ssh", nextPort): nextPort is read now, not when it was set.
WriteSsh(i) ==
  \/ Opens /\ disk' = [disk EXCEPT ![i].ssh = nextPort]
  \/ MayFail /\ UNCHANGED disk

\* A slip: probing basePort before incrementing it.
ScanPostIncrement(t) ==
  /\ pc[t] \in DOMAIN AfterScan
  /\ port[t] < MaxPort
  /\ IF SeemsFree(port[t])
       THEN nextPort' = port[t] /\ Goto(t, AfterScan[pc[t]]) /\ UNCHANGED port
       ELSE UNCHANGED <<nextPort, pc>> /\ port' = [port EXCEPT ![t] = @ + 1]
  /\ UNCHANGED <<id, mutex, nextId, instances, bookkeeping, disk, host>>

\* One round of the loop in findNextPort, for its three callers.
Scan(t) ==
  /\ pc[t] \in DOMAIN AfterScan
  /\ port[t] < MaxPort
  /\ port' = [port EXCEPT ![t] = @ + 1]
  /\ IF SeemsFree(port[t] + 1)
       THEN nextPort' = port[t] + 1 /\ Goto(t, AfterScan[pc[t]])
       ELSE UNCHANGED <<nextPort, pc>>
  /\ UNCHANGED <<id, mutex, nextId, instances, bookkeeping, disk, host>>

-----------------------------------------------------------------------------
(* Controller::run *)

IsRunning(i) == IsAlive(instances[i].pid)

RunBegin(h, i) ==
  /\ Ready(h) /\ PidsLeft /\ PortsLeft
  /\ i \in DOMAIN instances /\ ~IsRunning(i)
  /\ Goto(h, "runPort") /\ id' = [id EXCEPT ![h] = i]
  /\ UNCHANGED <<port, mutex, counters, instances, bookkeeping, disk, host>>

RunPort(h) ==
  /\ pc[h] = "runPort"
  /\ IF SeemsFree(instances[id[h]].ssh)
       THEN Goto(h, "spawn") /\ UNCHANGED port
       ELSE Goto(h, "runScan") /\ port' = [port EXCEPT ![h] = nextPort]
  /\ UNCHANGED <<id, mutex, counters, instances, bookkeeping, disk, host>>

\* A slip: the new port is not saved.
RunCookieUnsaved(h) ==
  /\ pc[h] = "runCookie" /\ Goto(h, "runSetPort")
  /\ UNCHANGED <<id, port, mutex, counters, instances, bookkeeping, disk, host>>

RunCookie(h) ==
  /\ pc[h] = "runCookie"
  /\ WriteSsh(id[h]) /\ Goto(h, "runSetPort")
  /\ UNCHANGED <<id, port, mutex, counters, instances, bookkeeping, host>>

\* setSshPort: the command line of the process keeps the port it had.
RunSetPort(h) ==
  /\ pc[h] = "runSetPort"
  /\ instances' = [instances EXCEPT ![id[h]].ssh = nextPort]
  /\ Goto(h, "spawn")
  /\ UNCHANGED <<id, port, mutex, counters, bookkeeping, disk, host>>

\* Process::run tests isRunning once more, and throws; the handler catches.
Spawn(h) ==
  /\ pc[h] = "spawn"
  /\ IF IsRunning(id[h]) THEN Reply(h) ELSE Goto(h, "fork") /\ UNCHANGED <<id, port>>
  /\ UNCHANGED <<mutex, counters, instances, bookkeeping, disk, host>>

\* A slip: the VM forwards the last port given out, not its own.
ForkNextPort(h) ==
  /\ pc[h] = "fork"
  /\ \E p \in FreePids : /\ StartVm(p, id[h], nextPort)
                         /\ instances' = [instances EXCEPT ![id[h]].pid = p]
  /\ Reply(h)
  /\ UNCHANGED <<mutex, counters, bookkeeping, disk>>

\* _pid = fork(), then the .pid cookie, whose value nothing ever uses.
Fork(h) ==
  /\ pc[h] = "fork"
  /\ \/ \E p \in FreePids :
          /\ StartVm(p, id[h], instances[id[h]].arg)
          /\ instances' = [instances EXCEPT ![id[h]].pid = p]
     \/ /\ "forkFails" \in Faults
        /\ instances' = [instances EXCEPT ![id[h]].pid = AllPids]
        /\ UNCHANGED host
  /\ Reply(h)
  /\ UNCHANGED <<mutex, counters, bookkeeping, disk>>

-----------------------------------------------------------------------------
(* Controller::kill *)

\* A slip: kill without the isRunning test.
KillBeginUntested(h, i) ==
  /\ Ready(h) /\ i \in DOMAIN instances
  /\ Goto(h, "signal") /\ id' = [id EXCEPT ![h] = i]
  /\ UNCHANGED <<port, mutex, counters, instances, bookkeeping, disk, host>>

KillBegin(h, i) ==
  /\ Ready(h)
  /\ i \in DOMAIN instances /\ IsRunning(i)
  /\ Goto(h, "signal") /\ id' = [id EXCEPT ![h] = i]
  /\ UNCHANGED <<port, mutex, counters, instances, bookkeeping, disk, host>>

Signal(h) ==
  /\ pc[h] = "signal"
  /\ Interrupt(instances[id[h]].pid) /\ Reply(h)
  /\ UNCHANGED <<mutex, counters, instances, bookkeeping, disk>>

\* Requests that change nothing: run of an unknown or running instance, kill
\* of an unknown or stopped one.
RunRefused(h, i) ==
  Ready(h) /\ (i \in DOMAIN instances => IsRunning(i)) /\ UNCHANGED vars
KillIdle(h, i) ==
  Ready(h) /\ (i \in DOMAIN instances => ~IsRunning(i)) /\ UNCHANGED vars

\* getTemplates, and a getInstances that finds the map empty and answers with
\* one empty line: a map is copied under the mutex.
List(h) == Ready(h) /\ mutex = Nobody /\ UNCHANGED vars

\* A slip: the size is not looked at.
ListSizeUnchecked(h) ==
  /\ Ready(h) /\ mutex = Nobody
  /\ Goto(h, "list")
  /\ UNCHANGED <<id, port, mutex, counters, instances, bookkeeping, disk, host>>

\* getInstances copies the map twice: for its size, then for the answer.
ListSize(h) ==
  /\ Ready(h) /\ mutex = Nobody /\ DOMAIN instances # {}
  /\ Goto(h, "list")
  /\ UNCHANGED <<id, port, mutex, counters, instances, bookkeeping, disk, host>>
ListCopy(h) ==
  /\ pc[h] = "list" /\ mutex = Nobody
  /\ Reply(h)
  /\ UNCHANGED <<mutex, counters, instances, bookkeeping, disk, host>>

-----------------------------------------------------------------------------
(* Controller::instantiate *)

DirExists(i)  == i \in DOMAIN disk
IsFreshId(i)  == ~DirExists(i) /\ i \notin DOMAIN instances

\* findNextId: the first fresh id from base on.
IsNextId(i, base) == i >= base /\ IsFreshId(i) /\ \A j \in base..(i - 1) : ~IsFreshId(j)

\* A slip: instantiate without the lock, as run and kill are.
InstantiateBeginUnlocked(h) ==
  /\ Ready(h) /\ PortsLeft
  /\ \E i \in Ids : IsNextId(i, nextId)
  /\ Goto(h, "instScan") /\ port' = [port EXCEPT ![h] = nextPort]
  /\ UNCHANGED <<id, mutex, counters, instances, bookkeeping, disk, host>>

InstantiateBegin(h) ==
  /\ Ready(h)
  /\ mutex = Nobody /\ PortsLeft
  /\ \E i \in Ids : IsNextId(i, nextId)
  /\ mutex' = h
  /\ Goto(h, "instScan") /\ port' = [port EXCEPT ![h] = nextPort]
  /\ UNCHANGED <<id, counters, instances, bookkeeping, disk, host>>

PickId(h) ==
  /\ pc[h] = "pickId"
  /\ \E i \in Ids :
       /\ IsNextId(i, nextId)
       /\ nextId' = i /\ id' = [id EXCEPT ![h] = i]
  /\ Goto(h, "mkdir")
  /\ UNCHANGED <<port, mutex, nextPort, instances, bookkeeping, disk, host>>

\* /bin/mkdir <dir>, its exit status ignored: it may fail, as it does when it
\* inherits a full table of descriptors.  Without the directory every write
\* below is lost and restore throws.  If fork() fails, waitpid(-1) waits for
\* all the children of the process: the VMs.
Mkdir(h) ==
  /\ pc[h] = "mkdir"
  /\ \/ /\ disk' = IF DirExists(id[h]) THEN disk
                   ELSE Put(disk, id[h], [files |-> {}, ssh |-> InitialPort])
        /\ Goto(h, "image")
     \/ /\ full \/ "mkdirFails" \in Faults
        /\ Goto(h, "restore") /\ UNCHANGED disk
     \/ "forkFails" \in Faults /\ Goto(h, "mkdirWait") /\ UNCHANGED disk
  /\ UNCHANGED <<id, port, mutex, counters, instances, bookkeeping, host>>

MkdirWait(h) ==
  /\ pc[h] = "mkdirWait"
  /\ \A p \in DOMAIN procs : ~procs[p].child
  /\ Goto(h, "restore")
  /\ UNCHANGED <<id, port, mutex, counters, instances, bookkeeping, disk, host>>

WriteFile(h) ==
  /\ pc[h] \in Files
  /\ \/ Opens /\ disk' = [disk EXCEPT ![id[h]] =
                   [files |-> @.files \cup {pc[h]},
                    ssh   |-> IF pc[h] = "ssh" THEN nextPort ELSE @.ssh]]
     \/ MayFail /\ UNCHANGED disk
  /\ Goto(h, NextFile[pc[h]])
  /\ UNCHANGED <<id, port, mutex, counters, instances, bookkeeping, host>>

-----------------------------------------------------------------------------
(* Controller::restore, called by instantiate and by the constructor *)

Restorable(i) == DirExists(i) /\ Cookies \subseteq disk[i].files

\* Cookie::read<int>(".ssh"): an empty file leaves the variable uninitialised.
SshRead(i) == IF disk[i].ssh = Torn THEN Ports ELSE {disk[i].ssh}

\* It throws, or returns the instance it finds in the map already.
RestoreLeaves(t) ==
  /\ pc[t] = "restore"
  /\ ~Restorable(id[t]) \/ full \/ id[t] \in DOMAIN instances
  /\ issued' = IF t # Main /\ DirExists(id[t]) /\ id[t] \in DOMAIN instances
                 THEN issued \cup {id[t]} ELSE issued
  /\ LeaveRestore(t)
  /\ UNCHANGED <<counters, instances, todo, disk, full, crashes, host>>

RestoreRead(t) ==
  /\ pc[t] = "restore"
  /\ Restorable(id[t]) /\ Opens /\ id[t] \notin DOMAIN instances
  /\ \E q \in SshRead(id[t]) :
       IF SeemsFree(q)
         THEN Goto(t, "register") /\ port' = [port EXCEPT ![t] = q]
         ELSE Goto(t, "restoreScan") /\ port' = [port EXCEPT ![t] = nextPort]
  /\ UNCHANGED <<id, mutex, counters, instances, bookkeeping, disk, host>>

RestoreCookie(t) ==
  /\ pc[t] = "restoreCookie"
  /\ WriteSsh(id[t]) /\ Goto(t, "restorePort")
  /\ UNCHANGED <<id, port, mutex, counters, instances, bookkeeping, host>>

\* sshPort = nextPort
RestorePort(t) ==
  /\ pc[t] = "restorePort"
  /\ port' = [port EXCEPT ![t] = nextPort] /\ Goto(t, "register")
  /\ UNCHANGED <<id, mutex, counters, instances, bookkeeping, disk, host>>

\* The Process of a restored instance starts with _pid = 0, whatever .pid says.
\* The exception for a missing template is left out: a directory with all its cookies
\* names one of the constructor's, which are the same in every life.
Register(t) ==
  /\ pc[t] = "register"
  /\ instances' = Put(instances, id[t],
                      [ssh |-> port[t], arg |-> port[t], pid |-> NoPid])
  /\ issued' = IF t = Main THEN issued ELSE issued \cup {id[t]}
  /\ LeaveRestore(t)
  /\ UNCHANGED <<counters, todo, disk, full, crashes, host>>

-----------------------------------------------------------------------------
(* The process: boot, crash, restart *)

\* Slips: a directory is met again and again; main() accepts too early.
BootNextAgain ==
  /\ pc[Main] = "boot"
  /\ \E i \in todo : id' = [id EXCEPT ![Main] = i]
  /\ Goto(Main, "restore")
  /\ UNCHANGED <<port, mutex, counters, instances, bookkeeping, disk, host>>
BootDoneEarly ==
  /\ pc[Main] = "boot" /\ Goto(Main, "accept")
  /\ UNCHANGED <<id, port, mutex, counters, instances, bookkeeping, disk, host>>

\* The constructor's readdir loop meets the directories in any order.
BootNext ==
  /\ pc[Main] = "boot"
  /\ \E i \in todo : todo' = todo \ {i} /\ id' = [id EXCEPT ![Main] = i]
  /\ Goto(Main, "restore")
  /\ UNCHANGED <<port, mutex, counters, instances, disk, full, crashes, issued, host>>

BootDone ==
  /\ pc[Main] = "boot" /\ todo = {}
  /\ Goto(Main, "accept")
  /\ UNCHANGED <<id, port, mutex, counters, instances, bookkeeping, disk, host>>

\* Every probe of a port leaves a descriptor open (~Socket only shuts down).
Exhaust ==
  /\ "noDescriptors" \in Faults /\ pc[Main] # "down"
  /\ ~full /\ full' = TRUE
  /\ UNCHANGED <<pc, id, port, mutex, counters, instances, todo, disk, crashes, issued, host>>

\* The .ssh that a crash may leave empty.  Of the other cookies a new directory
\* lacks the next one then, and is not restored; .pid is never used.
MayTear == {id[t] : t \in {t \in Threads : pc[t] \in {"runCookie", "restoreCookie"}}}

\* An exception no thread catches, or a signal, ends the process: the VMs go on.
Crash ==
  /\ pc[Main] # "down" /\ crashes < MaxCrashes
  /\ pc' = [t \in Threads |-> IF t = Main THEN "down" ELSE "idle"]
  /\ id' = [t \in Threads |-> InitialId]
  /\ port' = [t \in Threads |-> InitialPort]
  /\ mutex' = Nobody
  /\ nextId' = InitialId /\ nextPort' = InitialPort
  /\ instances' = [i \in {} |-> 0] /\ todo' = {} /\ full' = FALSE
  /\ crashes' = crashes + 1
  /\ \E torn \in SUBSET IF full THEN {} ELSE MayTear :
       disk' = [i \in DOMAIN disk |->
                  IF i \in torn THEN [disk[i] EXCEPT !.ssh = Torn] ELSE disk[i]]
  /\ OrphanAll
  /\ UNCHANGED <<issued, retired, foreign>>

\* A slip: nothing holds the control port, as if VMs inherited no descriptor.
RestartAnyway ==
  /\ pc[Main] = "down"
  /\ Goto(Main, "boot") /\ todo' = DOMAIN disk
  /\ UNCHANGED <<id, port, mutex, counters, instances, disk, full, crashes, issued, host>>

\* main() binds its control port before it builds the Controller, and ends at
\* once when it cannot: a VM inherits the listening socket of the controller
\* that forks it, and holds the port as long as it lives.
Restart ==
  /\ pc[Main] = "down"
  /\ procs = [p \in {} |-> 0] \/ "otherPort" \in Faults
  /\ Goto(Main, "boot") /\ todo' = DOMAIN disk
  /\ UNCHANGED <<id, port, mutex, counters, instances, disk, full, crashes, issued, host>>

-----------------------------------------------------------------------------
Request(h) ==
  \/ \E i \in Ids : RunBegin(h, i) \/ KillBegin(h, i) \/ RunRefused(h, i) \/ KillIdle(h, i)
  \/ InstantiateBegin(h)
  \/ List(h) \/ ListSize(h)

Restore(t) ==
  \/ RestoreLeaves(t) \/ RestoreRead(t) \/ RestoreCookie(t) \/ RestorePort(t)
  \/ Register(t)

\* What a handler does with a request it has begun.
Serve(h) ==
  \/ Scan(h)
  \/ RunPort(h) \/ RunCookie(h) \/ RunSetPort(h) \/ Spawn(h) \/ Fork(h)
  \/ Signal(h) \/ ListCopy(h)
  \/ PickId(h) \/ Mkdir(h) \/ MkdirWait(h) \/ WriteFile(h)
  \/ Restore(h)

Boot == BootNext \/ BootDone \/ Scan(Main) \/ Restore(Main)

Environment ==
  /\ HostNext
  /\ UNCHANGED <<pc, id, port, mutex, counters, instances, bookkeeping, disk>>

Next ==
  \/ \E h \in Handlers : Request(h) \/ Serve(h)
  \/ Boot
  \/ Crash \/ Restart \/ Exhaust
  \/ Environment

Spec == Init /\ [][Next]_vars

\* The kernel schedules every thread that can go on; requests, crashes,
\* restarts and the VMs owe nothing.
FairSpec == Spec /\ WF_vars(Boot) /\ \A h \in Handlers : WF_vars(Serve(h))
-----------------------------------------------------------------------------
(* Properties *)

\* Every variable has its type; std::map and the directory tree are maps.
TypeOK ==
  /\ HostTypeOK
  /\ pc \in [Threads -> MainSteps \cup HandlerSteps]
  /\ pc[Main] \in MainSteps /\ \A h \in Handlers : pc[h] \in HandlerSteps
  /\ id \in [Threads -> Ids] /\ port \in [Threads -> Ports]
  /\ mutex \in Handlers \cup {Nobody}
  /\ nextId \in Ids /\ nextPort \in Ports
  /\ DOMAIN instances \subseteq Ids /\ instances \in [DOMAIN instances -> Instance]
  /\ DOMAIN disk \subseteq Ids /\ disk \in [DOMAIN disk -> Dir]
  /\ todo \subseteq Ids /\ issued \subseteq Ids /\ full \in BOOLEAN
  /\ crashes \in 0..MaxCrashes

\* A run keeps a pointer to an instance of the map.
RunsKnown == \A h \in Handlers : pc[h] \in RunSteps => id[h] \in DOMAIN instances

\* A handler that has picked an id and not yet registered the instance.
Creating(h) == pc[h] \in ((CreateSteps \ {"instScan", "pickId"}) \cup RestoreSteps)

\* Two instantiate requests never work on one directory, whatever other
\* requests and crashes come in between: the id being created belongs to no
\* instance, was replied to nobody, and mkdir finds no directory of that name
\* (instantiate keeps the mutex from findNextId to the end of restore).
CreationExclusive ==
  \A h \in Handlers : Creating(h) =>
    /\ id[h] \notin DOMAIN instances /\ id[h] \notin issued
    /\ pc[h] = "mkdir" => ~DirExists(id[h])
    /\ \A g \in Handlers : Creating(g) /\ id[g] = id[h] => g = h

\* An instance that a client was told about survives crashes: its metadata is
\* on disk, and when the controller accepts requests it is in the map again
\* (the cookies are all written before the reply; the constructor restores
\* every directory before main() accepts), unless the constructor ran out of
\* descriptors.
IssuedDurable ==
  \A i \in issued : /\ Restorable(i)
                    /\ pc[Main] = "accept" /\ ~full => i \in DOMAIN instances

\* The answer to getInstances is a record at least, or the one empty line: the
\* map that was not empty is not empty when it is copied again, without which
\* the answer would be no line at all (send() then ends it differently).
ListingFramed == \A h \in Handlers : pc[h] = "list" => DOMAIN instances # {}

\* Two QEMU processes never write one root image ("attempt to run running
\* process", Process::run), with one connection and, after a crash, a
\* controller that keeps its control port: it forgets the VMs that survive,
\* but cannot start before they have ended.
SingleVm ==
  \A p, q \in DOMAIN procs : procs[p].vm = procs[q].vm => p = q

\* No two instances of a controller have the same SSH port.
DistinctPorts ==
  \A i, j \in DOMAIN instances : instances[i].ssh = instances[j].ssh => i = j

\* The SSH port that the listing shows for an instance is the port that its VM
\* forwards, when it is up.
ForwardsAdvertised ==
  \A p \in DOMAIN procs :
    procs[p].listens => procs[p].port = instances[procs[p].vm].ssh

\* Only another program that takes the port of an instance makes what is shown
\* and what is forwarded diverge: reused pids, forks and directories that fail,
\* and the ports of other instances do not.
ForwardsUnlessTaken ==
  \A p \in DOMAIN procs :
    procs[p].listens /\ procs[p].port # instances[procs[p].vm].ssh =>
      procs[p].port \in ForeignPorts

\* A restart finds in .ssh the port that clients were last shown, except
\* between the two writes of a run that changes it.
CookieMatches ==
  \A i \in DOMAIN instances :
    (\A h \in Handlers : pc[h] = "runSetPort" => id[h] # i) =>
      disk[i].ssh = instances[i].ssh

\* A kill request interrupts the VM it names and no other one.
KillHitsOwnVm ==
  [][\A p \in DOMAIN procs \cap DOMAIN procs' :
       procs'[p].dying /\ ~procs[p].dying =>
         \E h \in Handlers : pc[h] = "signal" /\ pc'[h] = "idle" /\ id[h] = procs[p].vm]_vars

\* A handler that takes the mutex gives it back: instantiate, with the ports
\* busy, files that do not open and restore throwing, always ends, unless fork
\* fails for mkdir and it waits for VMs that do not end (waitpid(-1)).
WaitsForVms(h) == pc[h] = "mkdirWait" /\ \E p \in DOMAIN procs : procs[p].child
LockReleased == \A h \in Handlers : mutex = h ~> mutex # h \/ WaitsForVms(h)

\* A controller that boots with instances on disk comes to accept requests,
\* unless it crashes again.
BootFinishes == pc[Main] = "boot" ~> pc[Main] \in {"accept", "down"}
=============================================================================
