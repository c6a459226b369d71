----------------------------- MODULE PortProofs -----------------------------
(***************************************************************************)
(* Proofs about the ports of a controller that does not crash, for any     *)
(* number of handlers: instances have ports of their own, the cookie holds *)
(* the port that is shown, and a VM forwards that port unless another      *)
(* program took it.  What handlers must not do at the same time is named   *)
(* (SearchesApart, RunsApart), and what no handler can do at the same time *)
(* if no other program takes ports is proved of them (OwnPortsCorrect).    *)
(***************************************************************************)
EXTENDS VmProofs

\* Every write of a cookie takes place.
FilesOpen == "writeFails" \notin Faults /\ "noDescriptors" \notin Faults

\* How far a handler is: with its search for a port, with what it writes of it.
Searching == {"runScan", "instScan", "restoreScan"}
Found     == {"pickId", "mkdir", "mkdirWait", "image", "meta", "ssh", "pid", "restore",
              "restoreScan", "restoreCookie", "restorePort", "register", "runCookie", "runSetPort"}
Hunting(h) == pc[h] \in Searching \cup Found

\* Where run races with instantiate, and with run: two handlers between the
\* begin of a search for a port and the assignment that the search was for,
\* which all go through nextPort.
SearchesApart == \A g, h \in Handlers : Hunting(g) /\ Hunting(h) => g = h

\* And two handlers that run one instance.
RunsApart ==
  \A g, h \in Handlers : pc[g] \in RunSteps /\ pc[h] \in RunSteps /\ id[g] = id[h] => g = h

\* The constructor finds an empty directory.
BootInv == todo = {} /\ pc[Main] \in {"boot", "accept"}

\* The port that an instance is shown with, and the one in its command line.
Given(i) == {instances[i].ssh, instances[i].arg}

\* findNextPort has just found a port that no instance was given.
FreshPort == \A i \in DOMAIN instances : \A q \in Given(i) : q < nextPort

\* Instances were given different ports, nextPort at the most.
ApartInv ==
  /\ \A i \in DOMAIN instances : \A q \in Given(i) : q <= nextPort
  /\ \A i, j \in DOMAIN instances : i # j => Given(i) \cap Given(j) = {}

\* What a handler knows of the port it looks for, and of the directory that it
\* writes: a .ssh that is there holds the port that was found.
HandlerOK(h) ==
  /\ pc[h] \in Searching => port[h] >= nextPort
  /\ pc[h] \in Found => FreshPort
  /\ pc[h] \in Files => DirExists(id[h])
  /\ pc[h] \in {"image", "meta", "ssh"} => "ssh" \notin disk[id[h]].files
  /\ pc[h] = "mkdirWait" => ~DirExists(id[h])
  /\ pc[h] \in {"pid", "restore"} /\ DirExists(id[h]) /\ "ssh" \in disk[id[h]].files =>
       disk[id[h]].ssh = nextPort
  /\ pc[h] = "register" => port[h] = nextPort

PortInv == BootInv /\ ApartInv /\ \A h \in Handlers : HandlerOK(h)

\* No instance has a port at the start.
LEMMA PortInit == Init => PortInv
  BY ControllerAssumption, FileSteps, ScanSteps
  DEF Init, HostInit, PortInv, BootInv, ApartInv, HandlerOK, Threads, Searching, Found

\* The steps that are left: the handlers', the end of the boot, and the machine's.
LEMMA BootSteps ==
  ASSUME MaxCrashes = 0, CoreInv, BootInv, [Next]_vars
  PROVE  /\ \/ UNCHANGED vars \/ BootDone \/ Exhaust \/ Environment
            \/ \E h \in Handlers : Request(h) \/ Serve(h)
         /\ BootInv'
  <1> USE ControllerAssumption, ScanSteps, FileSteps
      DEF CoreInv, TypeInv, TypeOK, Threads, BootInv, HandlerSteps, Goto, counters, bookkeeping
  <1>1. ASSUME UNCHANGED vars \/ BootDone \/ Exhaust \/ Environment
        PROVE  BootInv'
    BY <1>1 DEF vars, BootDone, Exhaust, Environment
  <1>2. ASSUME NEW h \in Handlers, Request(h)
        PROVE  BootInv'
    BY <1>2 DEF Request, RunBegin, KillBegin, RunRefused, KillIdle, List, ListSize,
         InstantiateBegin, vars
  <1>3. ASSUME NEW h \in Handlers, Serve(h)
        PROVE  BootInv'
    <2>1. CASE Restore(h)
      BY <2>1 DEF Restore, RestoreLeaves, RestoreRead, RestoreCookie, RestorePort, Register,
           LeaveRestore
    <2>2. CASE ~Restore(h)
      BY <1>3, <2>2 DEF Serve, Scan, RunPort, RunCookie, RunSetPort, Spawn, Fork, Reply,
           Signal, ListCopy, PickId, Mkdir, MkdirWait, WriteFile
    <2>3. QED
      BY <2>1, <2>2
  <1>4. ~BootNext /\ ~Crash /\ ~Restart /\ ~Restore(Main) /\ ~Scan(Main)
    BY DEF BootNext, Crash, Restart, Restore, RestoreLeaves, RestoreRead, RestoreCookie,
           RestorePort, Register, Scan
  <1>5. QED
    BY <1>1, <1>2, <1>3, <1>4 DEF Next, Boot

\* A handler's step changes no other handler.
LEMMA OthersStay ==
  ASSUME CoreInv, NEW h \in Handlers, Request(h) \/ Serve(h), NEW g \in Handlers, g # h
  PROVE  pc'[g] = pc[g] /\ id'[g] = id[g] /\ port'[g] = port[g]
  <1> USE ControllerAssumption DEF CoreInv, TypeInv, TypeOK, Threads, Goto
  <1>1. CASE Request(h)
    BY <1>1 DEF Request, RunBegin, KillBegin, RunRefused, KillIdle, List, ListSize,
         InstantiateBegin, vars
  <1>2. CASE Restore(h)
    BY <1>2 DEF Restore, RestoreLeaves, RestoreRead, RestoreCookie, RestorePort, Register,
         LeaveRestore
  <1>3. CASE Serve(h) /\ ~Restore(h)
    BY <1>3 DEF Serve, Scan, RunPort, RunCookie, RunSetPort, Spawn, Fork, Reply,
         Signal, ListCopy, PickId, Mkdir, MkdirWait, WriteFile
  <1>4. QED
    BY <1>1, <1>2, <1>3

-----------------------------------------------------------------------------
(* Ports *)

\* A step that gives no port to an instance and changes neither nextPort nor
\* the directory.
Quiet ==
  /\ UNCHANGED <<nextPort, disk>> /\ DOMAIN instances' = DOMAIN instances
  /\ \A i \in DOMAIN instances : /\ instances'[i].ssh = instances[i].ssh
                                 /\ instances'[i].arg = instances[i].arg

\* Such a step gives no port twice, and leaves the port in hand fresh.
LEMMA QuietGiven ==
  ASSUME Quiet
  PROVE  /\ ApartInv => ApartInv'
         /\ FreshPort => FreshPort'
  <1>1. \A i \in DOMAIN instances : Given(i)' = Given(i)
    BY DEF Quiet, Given
  <1>2. QED
    BY <1>1 DEF Quiet, ApartInv, FreshPort

\* After a quiet step, a handler that is where it was knows what it knew.
LEMMA QuietHandler ==
  ASSUME Quiet, NEW g, HandlerOK(g), pc'[g] = pc[g], id'[g] = id[g], port'[g] = port[g]
  PROVE  HandlerOK(g)'
  BY QuietGiven DEF Quiet, HandlerOK, DirExists

\* A quiet step of a handler.
LEMMA QuietPorts ==
  ASSUME CoreInv, PortInv, BootInv', NEW h \in Handlers, Request(h) \/ Serve(h), Quiet,
         HandlerOK(h)'
  PROVE  PortInv'
  <1>1. ASSUME NEW g \in Handlers, g # h PROVE HandlerOK(g)'
    BY <1>1, OthersStay, QuietHandler DEF PortInv
  <1>2. QED
    BY <1>1, QuietGiven DEF PortInv

\* A step of the one handler that hunts for a port: the others know nothing.
LEMMA HuntPorts ==
  ASSUME CoreInv, SearchesApart, BootInv', NEW h \in Handlers, Request(h) \/ Serve(h),
         Hunting(h), ApartInv', HandlerOK(h)'
  PROVE  PortInv'
  <1>1. ASSUME NEW g \in Handlers, g # h PROVE HandlerOK(g)'
    <2>1. ~Hunting(g) /\ pc'[g] = pc[g]
      BY <1>1, OthersStay DEF SearchesApart
    <2>2. QED
      BY <2>1, FileSteps DEF HandlerOK, Hunting, Searching, Found
  <1>2. QED
    BY <1>1 DEF PortInv

\* A run finds the port of its instance free, or begins a search.
LEMMA PortLooks ==
  ASSUME CoreInv, NEW h \in Handlers, RunPort(h)
  PROVE  pc'[h] = "spawn" \/ (pc'[h] = "runScan" /\ port'[h] = nextPort)
  <1>1. h \in DOMAIN pc /\ h \in DOMAIN port
    BY DEF CoreInv, TypeInv, TypeOK, Threads
  <1>2. CASE SeemsFree(instances[id[h]].ssh)
    <2>1. pc' = [pc EXCEPT ![h] = "spawn"]
      BY <1>2 DEF RunPort, Goto
    <2>2. pc'[h] = "spawn"
      BY <1>1, <2>1
    <2>3. QED
      BY <2>2
  <1>3. CASE ~SeemsFree(instances[id[h]].ssh)
    <2>1. pc' = [pc EXCEPT ![h] = "runScan"] /\ port' = [port EXCEPT ![h] = nextPort]
      BY <1>3 DEF RunPort, Goto
    <2>2. QED
      BY <1>1, <2>1, Zenon
  <1>4. QED
    BY <1>2, <1>3

\* Requests, and the steps of a handler that look at ports only.
LEMMA QuietStep ==
  ASSUME CoreInv, PortInv, BootInv', NEW h \in Handlers,
         \/ Request(h) \/ RunPort(h) \/ Spawn(h) \/ Signal(h) \/ ListCopy(h) \/ PickId(h)
         \/ MkdirWait(h) \/ RestoreLeaves(h) \/ RestoreRead(h) \/ RestorePort(h) \/ Fork(h)
  PROVE  PortInv'
  <1> USE ScanSteps, FileSteps, ControllerAssumption, HostAssumption
      DEF CoreInv, TypeInv, TypeOK, Threads, Searching, Found, Goto
  <1>1. HandlerOK(h) /\ (Request(h) \/ Serve(h))
    BY DEF PortInv, Serve, Restore
  <1>2. ASSUME UNCHANGED <<nextPort, instances, disk>>, HandlerOK(h)' PROVE PortInv'
    BY <1>1, <1>2, QuietPorts DEF Quiet
  <1>3. nextPort \in Int
    BY DEF Ports
  <1>4. CASE Request(h)
    <2>1. UNCHANGED <<nextPort, instances, disk>>
      BY <1>4 DEF Request, RunBegin, KillBegin, RunRefused, KillIdle, List, ListSize,
           InstantiateBegin, vars, counters
    <2>2. \/ pc'[h] = "instScan" /\ port'[h] = nextPort
          \/ pc'[h] \in {"runPort", "signal", "list"}
          \/ pc' = pc /\ id' = id /\ port' = port
      BY <1>4 DEF Request, RunBegin, KillBegin, RunRefused, KillIdle, List, ListSize,
           InstantiateBegin, vars
    <2>3. CASE pc' = pc /\ id' = id /\ port' = port
      BY <1>1, <1>2, <2>1, <2>3, QuietHandler DEF Quiet
    <2>4. CASE pc'[h] = "instScan" /\ port'[h] = nextPort
      BY <1>2, <1>3, <2>1, <2>4 DEF HandlerOK
    <2>5. CASE pc'[h] \in {"runPort", "signal", "list"}
      BY <1>2, <2>1, <2>5 DEF HandlerOK
    <2>6. QED
      BY <2>2, <2>3, <2>4, <2>5
  <1>5. CASE RunPort(h)
    <2>1. UNCHANGED <<nextPort, instances, disk>>
      BY <1>5 DEF RunPort, counters
    <2>2. pc'[h] = "spawn" \/ (pc'[h] = "runScan" /\ port'[h] = nextPort)
      BY <1>5, PortLooks
    <2>3. QED
      BY <1>2, <1>3, <2>1, <2>2 DEF HandlerOK
  <1>6. CASE Spawn(h) \/ Signal(h) \/ ListCopy(h)
    <2>1. UNCHANGED <<nextPort, instances, disk>> /\ pc'[h] \in {"idle", "fork"}
      BY <1>6 DEF Spawn, Signal, ListCopy, Reply, counters
    <2>2. QED
      BY <1>2, <2>1 DEF HandlerOK
  <1>7. CASE PickId(h)
    <2>1. /\ UNCHANGED <<nextPort, instances, disk>>
          /\ pc[h] = "pickId" /\ pc'[h] = "mkdir"
      BY <1>7 DEF PickId
    <2>2. FreshPort'
      BY <1>1, <2>1 DEF HandlerOK, FreshPort, Given
    <2>3. QED
      BY <1>2, <2>1, <2>2 DEF HandlerOK
  <1>8. CASE MkdirWait(h)
    <2>1. /\ UNCHANGED <<nextPort, instances, disk, id>>
          /\ pc[h] = "mkdirWait" /\ pc'[h] = "restore"
      BY <1>8 DEF MkdirWait, counters
    <2>2. FreshPort' /\ ~DirExists(id[h])'
      BY <1>1, <2>1 DEF HandlerOK, FreshPort, Given, DirExists
    <2>3. QED
      BY <1>2, <2>1, <2>2 DEF HandlerOK
  <1>9. CASE RestoreLeaves(h)
    <2>1. UNCHANGED <<nextPort, instances, disk>> /\ pc'[h] = "idle"
      BY <1>9 DEF RestoreLeaves, LeaveRestore, counters
    <2>2. QED
      BY <1>2, <2>1 DEF HandlerOK
  <1>10. CASE RestoreRead(h)
    <2>1. /\ UNCHANGED <<nextPort, instances, disk, id>>
          /\ pc[h] = "restore" /\ DirExists(id[h]) /\ "ssh" \in disk[id[h]].files
      BY <1>10 DEF RestoreRead, Restorable, DirExists, Cookies, counters
    <2>2. FreshPort /\ disk[id[h]].ssh = nextPort
      BY <1>1, <2>1 DEF HandlerOK
    <2>3. SshRead(id[h]) = {nextPort}
      BY <2>2 DEF SshRead, Torn, Ports
    <2>4. pc'[h] \in {"register", "restoreScan"} /\ port'[h] = nextPort
      BY <1>10, <2>3 DEF RestoreRead
    <2>5. FreshPort'
      BY <2>1, <2>2 DEF FreshPort, Given
    <2>6. QED
      BY <1>2, <1>3, <2>1, <2>4, <2>5 DEF HandlerOK
  <1>11. CASE RestorePort(h)
    <2>1. /\ UNCHANGED <<nextPort, instances, disk>>
          /\ pc[h] = "restorePort" /\ pc'[h] = "register" /\ port'[h] = nextPort
      BY <1>11 DEF RestorePort, counters
    <2>2. FreshPort'
      BY <1>1, <2>1 DEF HandlerOK, FreshPort, Given
    <2>3. QED
      BY <1>2, <2>1, <2>2 DEF HandlerOK
  <1>12. CASE Fork(h)
    <2>1. Quiet /\ pc'[h] = "idle"
      BY <1>12, ForkStep DEF Quiet, Fork, counters
    <2>2. QED
      BY <1>1, <2>1, QuietPorts DEF HandlerOK
  <1>13. QED
    BY <1>4, <1>5, <1>6, <1>7, <1>8, <1>9, <1>10, <1>11, <1>12

\* A search for a port: the one it finds is above all that were given.
LEMMA ScanPorts ==
  ASSUME CoreInv, SearchesApart, PortInv, BootInv', NEW h \in Handlers, Scan(h)
  PROVE  PortInv'
  <1> USE ScanSteps, FileSteps, ControllerAssumption, HostAssumption
      DEF CoreInv, TypeInv, TypeOK, Threads, Goto
  <1>1. HandlerOK(h) /\ (Request(h) \/ Serve(h))
    BY DEF PortInv, Serve
  <1>2. pc[h] \in Searching /\ port[h] \in Ports /\ nextPort \in Ports /\ port[h] >= nextPort
    BY <1>1 DEF Scan, Searching, HandlerOK
  <1>3. UNCHANGED <<id, instances, disk>> /\ port'[h] = port[h] + 1
    BY DEF Scan
  <1>4. CASE pc' = pc /\ nextPort' = nextPort
    <2>1. HandlerOK(h)'
      BY <1>1, <1>2, <1>3, <1>4 DEF HandlerOK, Ports, FreshPort, Given, DirExists, Searching
    <2>2. QED
      BY <1>1, <1>3, <1>4, <2>1, QuietPorts DEF Quiet
  <1>5. CASE nextPort' = port[h] + 1 /\ pc'[h] = AfterScan[pc[h]]
    <2>1. nextPort \in Nat /\ nextPort' \in Nat /\ nextPort' > nextPort
      BY <1>2, <1>5 DEF Ports
    <2>2. \A i \in DOMAIN instances : \A q \in Given(i) : q \in Nat /\ q <= nextPort
      BY DEF PortInv, ApartInv, Given, Instance, Ports
    <2>3. FreshPort'
      BY <1>2, <1>3, <2>1, <2>2 DEF FreshPort, Given, Ports
    <2>4. ApartInv'
      <3>1. \A i \in DOMAIN instances : \A q \in Given(i)' : q <= nextPort'
        BY <1>2, <1>3, <2>1, <2>2 DEF Given, Ports
      <3>2. QED
        BY <1>3, <3>1 DEF PortInv, ApartInv, Given
    <2>5. HandlerOK(h)'
      BY <1>2, <1>5, <2>3 DEF HandlerOK, Searching, Found
    <2>6. QED
      BY <1>1, <1>2, <2>4, <2>5, HuntPorts DEF Hunting
  <1>6. QED
    BY <1>4, <1>5 DEF Scan

\* Files are written with the port that the instance will have, or not at all.
LEMMA DiskPorts ==
  ASSUME CoreInv, SearchesApart, PortInv, BootInv', NEW h \in Handlers,
         RunCookie(h) \/ RestoreCookie(h) \/ Mkdir(h) \/ WriteFile(h)
  PROVE  PortInv'
  <1> USE FileSteps, ControllerAssumption, HostAssumption
      DEF CoreInv, TypeInv, TypeOK, Threads, Goto
  <1>1. HandlerOK(h) /\ (Request(h) \/ Serve(h))
    BY DEF PortInv, Serve, Restore
  <1>2. UNCHANGED <<id, instances, nextPort, port>>
    BY DEF RunCookie, RestoreCookie, Mkdir, WriteFile, counters
  <1>3. ApartInv' /\ (FreshPort => FreshPort')
    BY <1>2 DEF PortInv, ApartInv, FreshPort, Given
  <1>4. ASSUME Hunting(h), HandlerOK(h)' PROVE PortInv'
    BY <1>1, <1>3, <1>4, HuntPorts
  <1>5. CASE RunCookie(h)
    <2>1. pc[h] = "runCookie" /\ pc'[h] = "runSetPort"
      BY <1>5 DEF RunCookie
    <2>2. QED
      BY <1>1, <1>3, <1>4, <2>1 DEF HandlerOK, Hunting, Searching, Found
  <1>6. CASE RestoreCookie(h)
    <2>1. pc[h] = "restoreCookie" /\ pc'[h] = "restorePort"
      BY <1>6 DEF RestoreCookie
    <2>2. QED
      BY <1>1, <1>3, <1>4, <2>1 DEF HandlerOK, Hunting, Searching, Found
  <1>7. CASE Mkdir(h)
    <2>1. pc[h] = "mkdir" /\ id[h] \in Ids /\ ~DirExists(id[h])
      BY <1>7 DEF Mkdir, CreationInv, Creating, CreateSteps
    <2>2. \/ pc'[h] = "image" /\ DirExists(id[h])' /\ disk'[id[h]].files = {}
          \/ pc'[h] \in {"restore", "mkdirWait"} /\ ~DirExists(id[h])'
      BY <1>2, <1>7, <2>1 DEF Mkdir, Put, DirExists
    <2>3. HandlerOK(h)'
      BY <1>1, <1>2, <1>3, <2>1, <2>2 DEF HandlerOK, Searching, Found
    <2>4. QED
      BY <1>4, <2>1, <2>3 DEF Hunting, Found
  <1>8. CASE WriteFile(h)
    <2>1. /\ pc[h] \in Files /\ pc'[h] = NextFile[pc[h]] /\ id[h] \in DOMAIN disk
          /\ pc[h] \in {"image", "meta", "ssh"} => "ssh" \notin disk[id[h]].files
          /\ pc[h] = "pid" /\ "ssh" \in disk[id[h]].files => disk[id[h]].ssh = nextPort
          /\ FreshPort
      BY <1>1, <1>8 DEF WriteFile, HandlerOK, DirExists, Found
    <2>2. /\ id[h] \in DOMAIN disk'
          /\ \/ disk' = disk
             \/ /\ disk'[id[h]].files = disk[id[h]].files \cup {pc[h]}
                /\ disk'[id[h]].ssh = IF pc[h] = "ssh" THEN nextPort ELSE disk[id[h]].ssh
      BY <1>8, <2>1 DEF WriteFile
    <2>3. /\ pc'[h] \in {"image", "meta", "ssh"} => "ssh" \notin disk'[id[h]].files
          /\ pc'[h] \in {"pid", "restore"} /\ "ssh" \in disk'[id[h]].files =>
               disk'[id[h]].ssh = nextPort
      BY <2>1, <2>2
    <2>4. HandlerOK(h)'
      BY <1>2, <1>3, <2>1, <2>2, <2>3 DEF HandlerOK, DirExists, Searching, Found
    <2>5. QED
      BY <1>4, <2>1, <2>4 DEF Hunting, Found
  <1>9. QED
    BY <1>5, <1>6, <1>7, <1>8

\* A run gives the port that it found, which no instance has, to its instance.
LEMMA SetPort ==
  ASSUME CoreInv, SearchesApart, PortInv, BootInv', NEW h \in Handlers, RunSetPort(h)
  PROVE  PortInv'
  <1> USE ControllerAssumption, HostAssumption
      DEF CoreInv, TypeInv, TypeOK, Threads, Goto
  <1>1. HandlerOK(h) /\ (Request(h) \/ Serve(h))
    BY DEF PortInv, Serve
  <1>2. \A i \in DOMAIN instances : Given(i) \subseteq Nat /\ \A q \in Given(i) : q <= nextPort
    BY DEF PortInv, ApartInv, Given, Instance, Ports
  <1>3. nextPort \in Nat /\ nextPort' = nextPort
    BY DEF Ports, RunSetPort, counters
  <1>4. /\ pc[h] = "runSetPort" /\ pc'[h] = "spawn" /\ id[h] \in DOMAIN instances
        /\ DOMAIN instances' = DOMAIN instances
    BY DEF RunSetPort, RunsKnown, RunSteps
  <1>5. instances'[id[h]].ssh = nextPort /\ instances'[id[h]].arg = instances[id[h]].arg
    BY <1>4 DEF RunSetPort, Instance
  <1>6. \A i \in DOMAIN instances \ {id[h]} : instances'[i] = instances[i]
    BY DEF RunSetPort
  <1>7. FreshPort
    BY <1>1, <1>4 DEF HandlerOK, Found
  <1>8. \A i \in DOMAIN instances \ {id[h]} : Given(i)' = Given(i)
    BY <1>6 DEF Given
  <1>9. ASSUME NEW q, q \in {instances'[id[h]].ssh, instances'[id[h]].arg}
        PROVE  q = nextPort \/ q \in Given(id[h])
    BY <1>5, <1>9 DEF Given
  <1>10. ASSUME NEW i \in DOMAIN instances', NEW q \in Given(i)'
         PROVE  q <= nextPort'
    <2>1. CASE i = id[h]
      <3>1. q = nextPort \/ q \in Given(id[h])
        BY <1>9, <1>10, <2>1 DEF Given
      <3>2. QED
        BY <1>2, <1>3, <1>4, <3>1
    <2>2. CASE i # id[h]
      BY <1>2, <1>3, <1>4, <1>8, <1>10, <2>2
    <2>3. QED
      BY <2>1, <2>2
  <1>11. ASSUME NEW i \in DOMAIN instances, NEW j \in DOMAIN instances, i # j
         PROVE  Given(i)' \cap Given(j)' = {}
    <2>1. Given(i) \cap Given(j) = {}
      BY <1>11 DEF PortInv, ApartInv
    <2>2. nextPort \notin Given(i) /\ nextPort \notin Given(j)
      BY <1>2, <1>3, <1>7 DEF FreshPort
    <2>3. Given(i)' \subseteq Given(i) \cup {nextPort} /\ Given(j)' \subseteq Given(j) \cup {nextPort}
      BY <1>8, <1>9 DEF Given
    <2>4. nextPort \in Given(i)' => i = id[h]
      BY <1>8, <2>2
    <2>5. nextPort \in Given(j)' => j = id[h]
      BY <1>8, <2>2
    <2>6. QED
      BY <1>11, <2>1, <2>3, <2>4, <2>5
  <1>12. ApartInv'
    BY <1>4, <1>10, <1>11 DEF ApartInv
  <1>13. HandlerOK(h)'
    BY <1>4, FileSteps DEF HandlerOK, Searching, Found
  <1>14. QED
    BY <1>1, <1>4, <1>12, <1>13, HuntPorts DEF Hunting, Found

\* An instance is put in the map with the port that was found for it.
LEMMA RegisterPorts ==
  ASSUME CoreInv, SearchesApart, PortInv, BootInv', NEW h \in Handlers, Register(h)
  PROVE  PortInv'
  <1> USE ControllerAssumption, HostAssumption
      DEF CoreInv, TypeInv, TypeOK, Threads, Goto
  <1>1. HandlerOK(h) /\ (Request(h) \/ Serve(h))
    BY DEF PortInv, Serve, Restore
  <1>2. \A i \in DOMAIN instances : Given(i) \subseteq Nat /\ \A q \in Given(i) : q <= nextPort
    BY DEF PortInv, ApartInv, Given, Instance, Ports
  <1>3. nextPort \in Nat /\ nextPort' = nextPort
    BY DEF Ports, Register, counters
  <1>4. /\ pc[h] = "register" /\ pc'[h] = "idle"
        /\ DOMAIN instances' = DOMAIN instances \cup {id[h]} /\ id[h] \notin DOMAIN instances
    BY DEF Register, Put, LeaveRestore, CreationInv, Creating, RestoreSteps
  <1>5. instances'[id[h]].ssh = nextPort /\ instances'[id[h]].arg = nextPort
    BY <1>1, <1>4 DEF Register, Put, HandlerOK
  <1>6. \A i \in DOMAIN instances : instances'[i] = instances[i]
    BY <1>4 DEF Register, Put
  <1>7. FreshPort
    BY <1>1, <1>4 DEF HandlerOK, Found
  <1>8. \A i \in DOMAIN instances : Given(i)' = Given(i) /\ nextPort \notin Given(i)
    BY <1>2, <1>3, <1>6, <1>7 DEF Given, FreshPort
  <1>9. {instances'[id[h]].ssh, instances'[id[h]].arg} = {nextPort}
    BY <1>5
  <1>10. ASSUME NEW i \in DOMAIN instances'
         PROVE  \A q \in Given(i)' : q <= nextPort'
    <2>1. CASE i = id[h]
      BY <1>3, <1>9, <2>1 DEF Given
    <2>2. CASE i # id[h]
      BY <1>2, <1>3, <1>4, <1>8, <2>2
    <2>3. QED
      BY <2>1, <2>2
  <1>11. ASSUME NEW i \in DOMAIN instances', NEW j \in DOMAIN instances', i # j
         PROVE  Given(i)' \cap Given(j)' = {}
    <2>1. CASE i \in DOMAIN instances /\ j \in DOMAIN instances
      BY <1>8, <1>11, <2>1 DEF PortInv, ApartInv
    <2>2. CASE i = id[h]
      BY <1>4, <1>8, <1>9, <1>11, <2>2 DEF Given
    <2>3. CASE j = id[h]
      BY <1>4, <1>8, <1>9, <1>11, <2>3 DEF Given
    <2>4. QED
      BY <1>4, <2>1, <2>2, <2>3
  <1>12. ApartInv'
    BY <1>10, <1>11 DEF ApartInv
  <1>13. HandlerOK(h)'
    BY <1>4, FileSteps DEF HandlerOK, Searching, Found
  <1>14. QED
    BY <1>1, <1>4, <1>12, <1>13, HuntPorts DEF Hunting, Found

\* Every step but those of two searches at once keeps PortInv.
LEMMA PortStep ==
  ASSUME MaxCrashes = 0, CoreInv, SearchesApart, PortInv, [Next]_vars
  PROVE  PortInv'
  <1>1. BootInv' /\ \/ UNCHANGED vars \/ BootDone \/ Exhaust \/ Environment
                    \/ \E h \in Handlers : Request(h) \/ Serve(h)
    BY BootSteps DEF PortInv
  <1>2. CASE UNCHANGED vars \/ BootDone \/ Exhaust \/ Environment
    <2>1. Quiet /\ UNCHANGED <<id, port>>
      BY <1>2 DEF Quiet, vars, BootDone, Exhaust, Environment, counters
    <2>2. \A h \in Handlers : pc'[h] = pc[h]
      BY <1>2, ControllerAssumption
      DEF vars, BootDone, Exhaust, Environment, Goto, CoreInv, TypeInv, TypeOK, Threads
    <2>3. QED
      BY <1>1, <2>1, <2>2, QuietGiven, QuietHandler DEF PortInv
  <1>3. ASSUME NEW h \in Handlers, Request(h) \/ Serve(h) PROVE PortInv'
    BY <1>1, <1>3, QuietStep, ScanPorts, DiskPorts, SetPort, RegisterPorts DEF Serve, Restore
  <1>4. QED
    BY <1>1, <1>2, <1>3

\* SearchesApartPorts: no two instances are shown with one SSH port, for any
\* number of handlers, any faults, and whatever ports other programs take and
\* give back, in a behaviour in which no two handlers look for a port at once.
THEOREM SearchesApartPorts ==
  ASSUME MaxCrashes = 0
  PROVE  Spec /\ []SearchesApart => []DistinctPorts
  <1>1. Init => CoreInv /\ PortInv
    BY CoreInit, PortInit
  <1>2. CoreInv /\ PortInv /\ SearchesApart /\ [Next]_vars => (CoreInv /\ PortInv)'
    BY CoreStep, PortStep
  <1>3. PortInv => DistinctPorts
    BY DEF PortInv, ApartInv, Given, DistinctPorts
  <1>4. QED
    BY <1>1, <1>2, <1>3, PTL DEF Spec

\* DistinctPortsCorrect: nor in any behaviour with one handler.
THEOREM DistinctPortsCorrect ==
  ASSUME MaxCrashes = 0, \A g, h \in Handlers : g = h
  PROVE  Spec => []DistinctPorts
  <1>1. SearchesApart
    BY DEF SearchesApart
  <1>2. []SearchesApart
    BY <1>1, PTL
  <1>3. QED
    BY <1>2, SearchesApartPorts, PTL

-----------------------------------------------------------------------------
(* The cookie *)

\* What .ssh of an instance holds that gets another port, or is registered.
CookieOK(h) ==
  pc[h] \in {"runSetPort", "restorePort", "register"} => disk[id[h]].ssh = nextPort

CookieInv == ~full /\ CookieMatches /\ \A h \in Handlers : CookieOK(h)

\* No cookie is loaded, and no port given, before the first request.
LEMMA CookieInit == Init => CookieInv
  BY ControllerAssumption DEF Init, CookieInv, CookieMatches, CookieOK, Threads

\* A step that writes neither ports nor files, of a handler that knows what is in
\* its cookie.
LEMMA QuietCookies ==
  ASSUME CoreInv, CookieInv, ~full', NEW h \in Handlers, Request(h) \/ Serve(h), Quiet,
         pc[h] # "runSetPort", CookieOK(h)'
  PROVE  CookieInv'
  <1>1. ASSUME NEW g \in Handlers, g # h PROVE CookieOK(g)'
    BY <1>1, OthersStay DEF CookieInv, CookieOK, Quiet
  <1>2. CookieMatches'
    <2>1. SUFFICES ASSUME NEW i \in DOMAIN instances,
                          \A g \in Handlers : pc'[g] = "runSetPort" => id'[g] # i
                   PROVE  disk[i].ssh = instances[i].ssh
      BY DEF CookieMatches, Quiet
    <2>2. \A g \in Handlers : pc[g] = "runSetPort" => id[g] # i
      BY <2>1, OthersStay
    <2>3. QED
      BY <2>2 DEF CookieInv, CookieMatches
  <1>3. QED
    BY <1>1, <1>2 DEF CookieInv

\* A step of the one handler that hunts for a port.
LEMMA HuntCookies ==
  ASSUME CoreInv, SearchesApart, ~full', NEW h \in Handlers, Request(h) \/ Serve(h),
         Hunting(h), CookieMatches', CookieOK(h)'
  PROVE  CookieInv'
  <1>1. ASSUME NEW g \in Handlers, g # h PROVE CookieOK(g)'
    BY <1>1, OthersStay DEF SearchesApart, CookieOK, Hunting, Found
  <1>2. QED
    BY <1>1 DEF CookieInv

\* The step of a handler that begins to set a port or has set it.
LEMMA SetCookie ==
  ASSUME FilesOpen, CoreInv, SearchesApart, PortInv, CookieInv, ~full', NEW h \in Handlers,
         RunCookie(h) \/ RunSetPort(h)
  PROVE  CookieInv'
  <1> USE ControllerAssumption DEF CoreInv, TypeInv, TypeOK, Threads, Goto
  <1>1. /\ pc[h] \in {"runCookie", "runSetPort"} /\ Hunting(h) /\ (Request(h) \/ Serve(h))
        /\ id[h] \in DOMAIN instances /\ id[h] \in DOMAIN disk
    BY DEF RunCookie, RunSetPort, Hunting, Found, Serve, RunsKnown, RunSteps, DurableInv,
           Restorable, DirExists
  <1>2. \A g \in Handlers : pc[g] = "runSetPort" => g = h
    BY <1>1 DEF SearchesApart, Hunting, Found
  <1>3. \A i \in DOMAIN instances : i # id[h] => disk[i].ssh = instances[i].ssh
    BY <1>2 DEF CookieInv, CookieMatches
  <1>4. CASE RunCookie(h)
    <2>1. /\ pc'[h] = "runSetPort" /\ UNCHANGED <<id, instances, nextPort>>
          /\ disk' = [disk EXCEPT ![id[h]].ssh = nextPort]
      BY <1>4 DEF RunCookie, WriteSsh, MayFail, FilesOpen, CookieInv, counters
    <2>2. disk'[id[h]].ssh = nextPort /\ \A i \in DOMAIN disk \ {id[h]} : disk'[i] = disk[i]
      BY <1>1, <2>1 DEF Dir
    <2>3. CookieMatches'
      BY <1>3, <2>1, <2>2 DEF CookieMatches, DurableInv, Restorable, DirExists
    <2>4. QED
      BY <1>1, <2>1, <2>2, <2>3, HuntCookies DEF CookieOK
  <1>5. CASE RunSetPort(h)
    <2>1. /\ pc[h] = "runSetPort" /\ pc'[h] = "spawn" /\ UNCHANGED <<id, disk, nextPort>>
          /\ instances' = [instances EXCEPT ![id[h]].ssh = nextPort]
      BY <1>5 DEF RunSetPort, counters
    <2>2. /\ DOMAIN instances' = DOMAIN instances /\ instances'[id[h]].ssh = nextPort
          /\ \A i \in DOMAIN instances \ {id[h]} : instances'[i] = instances[i]
      BY <1>1, <2>1 DEF Instance
    <2>3. disk[id[h]].ssh = nextPort
      BY <2>1 DEF CookieInv, CookieOK
    <2>4. CookieMatches'
      BY <1>3, <2>1, <2>2, <2>3 DEF CookieMatches
    <2>5. QED
      BY <1>1, <2>1, <2>4, HuntCookies DEF CookieOK
  <1>6. QED
    BY <1>4, <1>5

\* The steps that create an instance: its files are no other instance's.
LEMMA CreateCookies ==
  ASSUME FilesOpen, CoreInv, SearchesApart, PortInv, CookieInv, ~full', NEW h \in Handlers,
         RestoreCookie(h) \/ Mkdir(h) \/ WriteFile(h)
  PROVE  CookieInv'
  <1> USE ControllerAssumption, FileSteps DEF CoreInv, TypeInv, TypeOK, Threads, Goto
  <1>1. /\ pc[h] \in {"restoreCookie", "mkdir"} \cup Files /\ (Request(h) \/ Serve(h))
        /\ UNCHANGED <<instances, id, nextPort>>
    BY DEF RestoreCookie, Mkdir, WriteFile, Serve, Restore, counters
  <1>2. Hunting(h) /\ id[h] \notin DOMAIN instances
    BY <1>1 DEF Hunting, Found, CreationInv, Creating, CreateSteps, RestoreSteps
  <1>3. DOMAIN instances \subseteq DOMAIN disk
    BY DEF DurableInv, Restorable, DirExists
  <1>4. \A i \in DOMAIN disk \ {id[h]} : disk'[i] = disk[i]
    <2>1. CASE RestoreCookie(h)
      BY <2>1 DEF RestoreCookie, WriteSsh
    <2>2. CASE Mkdir(h)
      BY <2>2 DEF Mkdir, Put, DirExists
    <2>3. CASE WriteFile(h)
      BY <2>3 DEF WriteFile
    <2>4. QED
      BY <2>1, <2>2, <2>3
  <1>5. \A g \in Handlers : pc[g] # "runSetPort"
    BY <1>1, <1>2 DEF SearchesApart, Hunting, Found
  <1>6. \A i \in DOMAIN instances : disk'[i].ssh = instances[i].ssh
    BY <1>2, <1>3, <1>4, <1>5 DEF CookieInv, CookieMatches
  <1>7. CookieMatches'
    BY <1>1, <1>6 DEF CookieMatches
  <1>8. CookieOK(h)'
    <2>1. CASE RestoreCookie(h)
      <3>1. id[h] \in DOMAIN disk
        BY <2>1 DEF RestoreCookie, DurableInv, Restorable, DirExists, RestoreSteps
      <3>2. disk' = [disk EXCEPT ![id[h]].ssh = nextPort]
        BY <2>1 DEF RestoreCookie, WriteSsh, MayFail, FilesOpen, CookieInv
      <3>3. disk'[id[h]].ssh = nextPort
        BY <3>1, <3>2 DEF Dir
      <3>4. QED
        BY <1>1, <3>3 DEF CookieOK
    <2>2. CASE Mkdir(h)
      BY <2>2 DEF Mkdir, CookieOK
    <2>3. CASE WriteFile(h)
      BY <2>3 DEF WriteFile, CookieOK
    <2>4. QED
      BY <2>1, <2>2, <2>3
  <1>9. QED
    BY <1>1, <1>2, <1>7, <1>8, HuntCookies

\* An instance is registered with the port that its cookie holds.
LEMMA RegisterCookie ==
  ASSUME CoreInv, SearchesApart, PortInv, CookieInv, ~full', NEW h \in Handlers, Register(h)
  PROVE  CookieInv'
  <1> USE ControllerAssumption DEF CoreInv, TypeInv, TypeOK, Threads
  <1>1. /\ pc[h] = "register" /\ pc'[h] = "idle" /\ disk' = disk
        /\ DOMAIN instances' = DOMAIN instances \cup {id[h]} /\ id[h] \notin DOMAIN instances
    BY DEF Register, Put, LeaveRestore, CreationInv, Creating, RestoreSteps
  <1>2. Hunting(h) /\ (Request(h) \/ Serve(h))
    BY <1>1 DEF Hunting, Found, Serve, Restore
  <1>3. port[h] = nextPort /\ disk[id[h]].ssh = nextPort
    BY <1>1 DEF PortInv, HandlerOK, CookieInv, CookieOK
  <1>4. instances'[id[h]].ssh = disk[id[h]].ssh
    BY <1>1, <1>3 DEF Register, Put
  <1>5. \A i \in DOMAIN instances : instances'[i] = instances[i]
    BY <1>1 DEF Register, Put
  <1>6. \A g \in Handlers : pc[g] # "runSetPort"
    BY <1>1, <1>2 DEF SearchesApart, Hunting, Found
  <1>7. CookieMatches'
    BY <1>1, <1>4, <1>5, <1>6 DEF CookieInv, CookieMatches
  <1>8. QED
    BY <1>1, <1>2, <1>7, HuntCookies DEF CookieOK

\* A search changes nextPort, and nobody else has a use for it.
LEMMA ScanCookies ==
  ASSUME CoreInv, SearchesApart, CookieInv, ~full', NEW h \in Handlers, Scan(h)
  PROVE  CookieInv'
  <1> USE ControllerAssumption, ScanSteps DEF CoreInv, TypeInv, TypeOK, Threads, Goto
  <1>1. /\ pc[h] \in Searching /\ (Request(h) \/ Serve(h)) /\ UNCHANGED <<instances, disk, id>>
        /\ pc'[h] \notin {"runSetPort", "restorePort", "register"}
    BY DEF Scan, Searching, Serve
  <1>2. Hunting(h) /\ \A g \in Handlers : pc[g] # "runSetPort"
    BY <1>1 DEF SearchesApart, Hunting, Found, Searching
  <1>3. CookieMatches'
    BY <1>1, <1>2 DEF CookieInv, CookieMatches
  <1>4. QED
    BY <1>1, <1>2, <1>3, HuntCookies DEF CookieOK

\* Requests, and the steps of a handler that write no file and set no port.
LEMMA QuietCookieStep ==
  ASSUME CoreInv, PortInv, CookieInv, ~full', NEW h \in Handlers,
         \/ Request(h) \/ RunPort(h) \/ Spawn(h) \/ Signal(h) \/ ListCopy(h) \/ PickId(h)
         \/ MkdirWait(h) \/ RestoreLeaves(h) \/ RestoreRead(h) \/ RestorePort(h) \/ Fork(h)
  PROVE  CookieInv'
  <1> USE ControllerAssumption DEF CoreInv, TypeInv, TypeOK, Threads, Goto
  <1>1. Request(h) \/ Serve(h)
    BY DEF Serve, Restore
  <1>2. CASE Request(h)
    <2>1. UNCHANGED <<nextPort, instances, disk>>
      BY <1>2 DEF Request, RunBegin, KillBegin, RunRefused, KillIdle, List, ListSize,
           InstantiateBegin, vars, counters
    <2>2. /\ pc[h] = "idle"
          /\ pc'[h] \in {"idle", "instScan", "runPort", "signal", "list"}
      BY <1>2 DEF Request, RunBegin, KillBegin, RunRefused, KillIdle, List, ListSize,
           InstantiateBegin, Ready, vars
    <2>3. QED
      BY <1>1, <2>1, <2>2, QuietCookies DEF Quiet, CookieOK
  <1>3. CASE RunPort(h)
    <2>1. UNCHANGED <<nextPort, instances, disk>> /\ pc[h] = "runPort"
      BY <1>3 DEF RunPort, counters
    <2>2. QED
      BY <1>1, <1>3, <2>1, PortLooks, QuietCookies DEF Quiet, CookieOK
  <1>4. CASE Spawn(h) \/ Signal(h) \/ ListCopy(h) \/ PickId(h) \/ MkdirWait(h)
    <2>1. /\ UNCHANGED <<nextPort, instances, disk>>
          /\ pc[h] # "runSetPort" /\ pc'[h] \in {"idle", "fork", "mkdir", "restore"}
      BY <1>4 DEF Spawn, Signal, ListCopy, PickId, MkdirWait, Reply, counters
    <2>2. QED
      BY <1>1, <2>1, QuietCookies DEF Quiet, CookieOK
  <1>5. CASE RestoreLeaves(h)
    <2>1. /\ UNCHANGED <<nextPort, instances, disk>>
          /\ pc[h] # "runSetPort" /\ pc'[h] = "idle"
      BY <1>5 DEF RestoreLeaves, LeaveRestore, counters
    <2>2. QED
      BY <1>1, <2>1, QuietCookies DEF Quiet, CookieOK
  <1>6. CASE RestoreRead(h)
    <2>1. /\ UNCHANGED <<nextPort, instances, disk, id>> /\ pc[h] = "restore"
          /\ DirExists(id[h]) /\ "ssh" \in disk[id[h]].files
      BY <1>6 DEF RestoreRead, Restorable, DirExists, Cookies, counters
    <2>2. disk[id[h]].ssh = nextPort
      BY <2>1 DEF PortInv, HandlerOK
    <2>3. QED
      BY <1>1, <2>1, <2>2, QuietCookies DEF Quiet, CookieOK
  <1>7. CASE RestorePort(h)
    <2>1. UNCHANGED <<nextPort, instances, disk, id>> /\ pc[h] = "restorePort"
      BY <1>7 DEF RestorePort, counters
    <2>2. disk[id[h]].ssh = nextPort
      BY <2>1 DEF CookieInv, CookieOK
    <2>3. QED
      BY <1>1, <2>1, <2>2, QuietCookies DEF Quiet, CookieOK
  <1>8. CASE Fork(h)
    <2>1. Quiet /\ pc[h] = "fork" /\ pc'[h] = "idle"
      BY <1>8, ForkStep DEF Quiet, Fork, counters
    <2>2. QED
      BY <1>1, <2>1, QuietCookies DEF CookieOK
  <1>9. QED
    BY <1>2, <1>3, <1>4, <1>5, <1>6, <1>7, <1>8

\* Every step but those of two searches at once keeps CookieInv.
LEMMA CookieStep ==
  ASSUME MaxCrashes = 0, FilesOpen, CoreInv, SearchesApart, PortInv, CookieInv, [Next]_vars
  PROVE  CookieInv'
  <1>1. \/ UNCHANGED vars \/ BootDone \/ Environment
        \/ \E h \in Handlers : Request(h) \/ Serve(h)
    BY BootSteps DEF PortInv, Exhaust, FilesOpen
  <1>2. CASE UNCHANGED vars \/ BootDone \/ Environment
    <2>1. Quiet /\ UNCHANGED <<id, port, full>>
      BY <1>2 DEF Quiet, vars, BootDone, Environment, counters, bookkeeping
    <2>2. \A h \in Handlers : pc'[h] = pc[h]
      BY <1>2, ControllerAssumption
      DEF vars, BootDone, Environment, Goto, CoreInv, TypeInv, TypeOK, Threads
    <2>3. QED
      BY <2>1, <2>2 DEF CookieInv, CookieMatches, CookieOK, Quiet
  <1>3. ASSUME NEW h \in Handlers, Request(h) \/ Serve(h) PROVE CookieInv'
    <2>1. ~full'
      BY <1>3 DEF CookieInv, Request, RunBegin, KillBegin, RunRefused, KillIdle, List, ListSize,
           InstantiateBegin, vars, bookkeeping, Serve, Scan, RunPort, RunCookie, RunSetPort,
           Spawn, Fork, Signal, ListCopy, PickId, Mkdir, MkdirWait, WriteFile, Restore,
           RestoreLeaves, RestoreRead, RestoreCookie, RestorePort, Register
    <2>2. QED
      BY <1>3, <2>1, QuietCookieStep, ScanCookies, SetCookie, CreateCookies, RegisterCookie
      DEF Serve, Restore
  <1>4. QED
    BY <1>1, <1>2, <1>3

\* SearchesApartCookies: .ssh holds the port that is shown, but between the two
\* writes of a run that changes it, for any number of handlers of which no two
\* look for a port at once.
THEOREM SearchesApartCookies ==
  ASSUME MaxCrashes = 0, FilesOpen
  PROVE  Spec /\ []SearchesApart => []CookieMatches
  <1>1. Init => CoreInv /\ PortInv /\ CookieInv
    BY CoreInit, PortInit, CookieInit
  <1>2. CoreInv /\ PortInv /\ CookieInv /\ SearchesApart /\ [Next]_vars
          => (CoreInv /\ PortInv /\ CookieInv)'
    BY CoreStep, PortStep, CookieStep
  <1>3. CookieInv => CookieMatches
    BY DEF CookieInv
  <1>4. QED
    BY <1>1, <1>2, <1>3, PTL DEF Spec

\* CookieMatchesCorrect: and in every behaviour with one handler.
THEOREM CookieMatchesCorrect ==
  ASSUME MaxCrashes = 0, FilesOpen, \A g, h \in Handlers : g = h
  PROVE  Spec => []CookieMatches
  <1>1. SearchesApart
    BY DEF SearchesApart
  <1>2. []SearchesApart
    BY <1>1, PTL
  <1>3. QED
    BY <1>2, SearchesApartCookies, PTL

-----------------------------------------------------------------------------
(* What VMs forward *)

\* A process forwards the port that its instance began with, and the instance
\* is shown with another one only if a program had taken that one.
ForwardInv ==
  /\ \A p \in DOMAIN procs : procs[p].port = instances[procs[p].vm].arg
  /\ \A i \in DOMAIN instances :
       instances[i].arg # instances[i].ssh => instances[i].arg \in ForeignPorts

\* The instance of a run has no process yet, and gets another port only if a
\* program had taken the one that it began with.
RunOK(h) ==
  /\ pc[h] \in RunSteps => \A p \in DOMAIN procs : procs[p].vm # id[h]
  /\ pc[h] \in {"runScan", "runCookie", "runSetPort"} => instances[id[h]].arg \in ForeignPorts

ServeInv == ForwardInv /\ \A h \in Handlers : RunOK(h)

\* Nothing runs at the start.
LEMMA ServeInit == Init => ServeInv
  BY ControllerAssumption DEF Init, HostInit, ServeInv, ForwardInv, RunOK, Threads, RunSteps

\* No process is started, and processes and instances keep their ports.
Settled ==
  /\ DOMAIN instances' = DOMAIN instances
  /\ \A i \in DOMAIN instances : /\ instances'[i].ssh = instances[i].ssh
                                 /\ instances'[i].arg = instances[i].arg
  /\ DOMAIN procs' \subseteq DOMAIN procs
  /\ \A p \in DOMAIN procs' : procs'[p].vm = procs[p].vm /\ procs'[p].port = procs[p].port

\* The instances of processes, and of runs, are in the map.
LEMMA InMap ==
  ASSUME CoreInv, VmInv, BootInv
  PROVE  /\ \A p \in DOMAIN procs : procs[p].vm \in DOMAIN instances
         /\ \A h \in Handlers : pc[h] \in RunSteps => id[h] \in DOMAIN instances
  BY DEF CoreInv, TypeInv, RunsKnown, VmInv, BootInv

\* Then each process still forwards the port of its instance, or one that was taken.
LEMMA SettledForward ==
  ASSUME CoreInv, VmInv, BootInv, ForwardInv, Settled
  PROVE  ForwardInv'
  BY InMap DEF Settled, ForwardInv

\* And a run that is where it was knows what it knew.
LEMMA SettledRun ==
  ASSUME CoreInv, VmInv, BootInv, Settled, NEW g \in Handlers, RunOK(g),
         pc'[g] = pc[g], id'[g] = id[g]
  PROVE  RunOK(g)'
  <1>1. pc[g] \in {"runScan", "runCookie", "runSetPort"} => pc[g] \in RunSteps
    BY DEF RunSteps
  <1>2. QED
    BY <1>1, InMap DEF Settled, RunOK

\* A step of a handler that starts no process and gives no port.
LEMMA SettledServe ==
  ASSUME CoreInv, VmInv, BootInv, ServeInv, NEW h \in Handlers, Request(h) \/ Serve(h),
         Settled, RunOK(h)'
  PROVE  ServeInv'
  <1>1. ASSUME NEW g \in Handlers, g # h PROVE RunOK(g)'
    BY <1>1, OthersStay, SettledRun DEF ServeInv
  <1>2. QED
    BY <1>1, SettledForward DEF ServeInv

\* A run that finds the port of its instance taken: it is no VM that has it.
LEMMA PortTaken ==
  ASSUME CoreInv, VmInv, PortInv, ServeInv, NEW h \in Handlers, RunPort(h),
         pc'[h] # "spawn"
  PROVE  instances[id[h]].arg \in ForeignPorts
  <1> USE DEF CoreInv, TypeInv, TypeOK, Threads, Goto
  <1>1. pc[h] = "runPort" /\ id[h] \in DOMAIN instances
    BY DEF RunPort, RunsKnown, RunSteps
  <1>2. ~IsPortFree(instances[id[h]].ssh)
    BY DEF RunPort, SeemsFree
  <1>3. ASSUME NEW p \in DOMAIN procs PROVE procs[p].port # instances[id[h]].ssh
    <2>1. procs[p].vm \in DOMAIN instances /\ procs[p].vm # id[h]
      BY <1>1, InMap DEF PortInv, ServeInv, RunOK, RunSteps
    <2>2. procs[p].port = instances[procs[p].vm].arg
      BY DEF ServeInv, ForwardInv
    <2>3. Given(procs[p].vm) \cap Given(id[h]) = {}
      BY <1>1, <2>1 DEF PortInv, ApartInv
    <2>4. QED
      BY <2>2, <2>3 DEF Given
  <1>4. instances[id[h]].ssh \in ForeignPorts
    BY <1>2, <1>3 DEF IsPortFree, HostTypeOK
  <1>5. QED
    BY <1>1, <1>4 DEF ServeInv, ForwardInv

\* Requests: an instance that is run has no process.
LEMMA RequestServe ==
  ASSUME CoreInv, VmInv, PortInv, ServeInv, NEW h \in Handlers, Request(h)
  PROVE  ServeInv'
  <1> USE ControllerAssumption DEF CoreInv, TypeInv, TypeOK, Threads, Goto
  <1>1. UNCHANGED <<instances, procs>>
    BY DEF Request, RunBegin, KillBegin, RunRefused, KillIdle, List, ListSize,
         InstantiateBegin, vars, host, counters
  <1>2. BootInv /\ Settled
    BY <1>1 DEF Settled, PortInv
  <1>3. RunOK(h)'
    <2>1. ASSUME NEW i \in Ids, RunBegin(h, i) PROVE RunOK(h)'
      <3>1. \A p \in DOMAIN procs : procs[p].vm # i
        BY <2>1 DEF RunBegin, Ready, IsRunning, IsAlive, VmInv
      <3>2. pc'[h] = "runPort" /\ id'[h] = i
        BY <2>1 DEF RunBegin
      <3>3. QED
        BY <1>1, <3>1, <3>2 DEF RunOK
    <2>2. ASSUME NEW i \in Ids, KillBegin(h, i) PROVE RunOK(h)'
      BY <2>2 DEF KillBegin, RunOK, RunSteps
    <2>3. CASE InstantiateBegin(h) \/ ListSize(h)
      BY <2>3 DEF InstantiateBegin, ListSize, RunOK, RunSteps
    <2>4. CASE UNCHANGED vars
      BY <1>2, <2>4, SettledRun DEF vars, ServeInv
    <2>5. QED
      BY <2>1, <2>2, <2>3, <2>4 DEF Request, RunRefused, KillIdle, List
  <1>4. QED
    BY <1>2, <1>3, SettledServe

\* The steps of a handler that start no process and give no port.
LEMMA SettledStep ==
  ASSUME CoreInv, VmInv, PortInv, ServeInv, NEW h \in Handlers,
         Serve(h), ~RunSetPort(h), ~Fork(h), ~Register(h)
  PROVE  ServeInv'
  <1> USE ControllerAssumption, ScanSteps, FileSteps
      DEF CoreInv, TypeInv, TypeOK, Threads, Goto
  <1>1. BootInv /\ RunOK(h)
    BY DEF PortInv, ServeInv
  <1>2. CASE Signal(h)
    <2>1. DOMAIN procs' = DOMAIN procs /\ UNCHANGED instances /\ pc'[h] = "idle"
      BY <1>2 DEF Signal, Interrupt, Reply
    <2>2. \A p \in DOMAIN procs : procs'[p].vm = procs[p].vm /\ procs'[p].port = procs[p].port
      BY <1>2 DEF Signal, Interrupt, HostTypeOK, Proc
    <2>3. Settled
      BY <2>1, <2>2 DEF Settled
    <2>4. QED
      BY <1>1, <2>1, <2>3, SettledServe DEF RunOK, RunSteps
  <1>3. CASE ~Signal(h)
    <2>1. UNCHANGED <<instances, procs>>
      BY <1>3 DEF Serve, Scan, RunPort, RunCookie, Spawn, ListCopy, PickId, Mkdir, MkdirWait,
           WriteFile, Restore, RestoreLeaves, RestoreRead, RestoreCookie, RestorePort, host,
           counters
    <2>2. Settled
      BY <2>1 DEF Settled
    <2>3. RunOK(h)'
      <3>1. CASE RunPort(h)
        <4>1. id' = id /\ pc[h] = "runPort"
          BY <3>1 DEF RunPort
        <4>2. pc'[h] # "spawn" => instances[id[h]].arg \in ForeignPorts
          BY <3>1, PortTaken
        <4>3. QED
          BY <1>1, <2>1, <3>1, <4>1, <4>2, PortLooks DEF RunOK, RunSteps
      <3>2. CASE Scan(h)
        <4>1. id' = id /\ \/ pc' = pc
                          \/ pc[h] = "runScan" /\ pc'[h] = "runCookie"
                          \/ pc'[h] \notin RunSteps
          BY <3>2 DEF Scan, RunSteps
        <4>2. QED
          BY <1>1, <2>1, <4>1 DEF RunOK, RunSteps
      <3>3. CASE RunCookie(h)
        <4>1. id' = id /\ pc[h] = "runCookie" /\ pc'[h] = "runSetPort"
          BY <3>3 DEF RunCookie
        <4>2. QED
          BY <1>1, <2>1, <4>1 DEF RunOK, RunSteps
      <3>4. CASE Spawn(h)
        <4>1. pc'[h] = "idle" \/ (pc[h] = "spawn" /\ pc'[h] = "fork" /\ id'[h] = id[h])
          BY <3>4 DEF Spawn, Reply
        <4>2. QED
          BY <1>1, <2>1, <4>1 DEF RunOK, RunSteps
      <3>5. CASE ListCopy(h) \/ PickId(h) \/ Mkdir(h) \/ MkdirWait(h) \/ WriteFile(h)
        BY <3>5 DEF ListCopy, PickId, Mkdir, MkdirWait, WriteFile, Reply, RunOK, RunSteps
      <3>6. CASE Restore(h)
        BY <3>6 DEF Restore, RestoreLeaves, RestoreRead, RestoreCookie, RestorePort,
             LeaveRestore, RunOK, RunSteps
      <3>7. QED
        BY <1>3, <3>1, <3>2, <3>3, <3>4, <3>5, <3>6 DEF Serve
    <2>4. QED
      BY <1>1, <2>2, <2>3, SettledServe
  <1>4. QED
    BY <1>2, <1>3

\* An instance gets a port or a process, or is registered.
LEMMA GiveStep ==
  ASSUME CoreInv, RunsApart, VmInv, PortInv, ServeInv, NEW h \in Handlers,
         RunSetPort(h) \/ Fork(h) \/ Register(h)
  PROVE  ServeInv'
  <1> USE ControllerAssumption DEF CoreInv, TypeInv, TypeOK, Threads, Goto
  <1>1. BootInv /\ RunOK(h) /\ (Request(h) \/ Serve(h))
    BY DEF PortInv, ServeInv, Serve, Restore
  <1>2. \A p \in DOMAIN procs : procs[p].vm \in DOMAIN instances
    BY <1>1, InMap
  <1>3. \A g \in Handlers : pc[g] \in RunSteps => id[g] \in DOMAIN instances
    BY <1>1, InMap
  <1>4. \A g \in Handlers \ {h} : pc'[g] = pc[g] /\ id'[g] = id[g] /\ RunOK(g)
    BY <1>1, OthersStay DEF ServeInv
  <1>5. {"runScan", "runCookie", "runSetPort"} \subseteq RunSteps
    BY DEF RunSteps
  <1>6. CASE RunSetPort(h)
    <2>1. /\ pc[h] = "runSetPort" /\ pc'[h] = "spawn" /\ id'[h] = id[h] /\ procs' = procs
          /\ id[h] \in DOMAIN instances /\ DOMAIN instances' = DOMAIN instances
      BY <1>6 DEF RunSetPort, RunsKnown, RunSteps, host
    <2>2. \A i \in DOMAIN instances : /\ instances'[i].arg = instances[i].arg
                                      /\ i # id[h] => instances'[i].ssh = instances[i].ssh
      BY <1>6, <2>1 DEF RunSetPort, Instance
    <2>3. instances[id[h]].arg \in ForeignPorts /\ \A p \in DOMAIN procs : procs[p].vm # id[h]
      BY <1>1, <2>1 DEF RunOK, RunSteps
    <2>4. ForwardInv'
      BY <1>2, <2>1, <2>2, <2>3 DEF ServeInv, ForwardInv
    <2>5. RunOK(h)'
      BY <2>1, <2>3 DEF RunOK
    <2>6. \A g \in Handlers \ {h} : RunOK(g)'
      BY <1>3, <1>4, <1>5, <2>1, <2>2 DEF RunOK
    <2>7. QED
      BY <2>4, <2>5, <2>6 DEF ServeInv
  <1>7. CASE Register(h)
    <2>1. /\ pc[h] = "register" /\ pc'[h] = "idle" /\ procs' = procs
          /\ DOMAIN instances' = DOMAIN instances \cup {id[h]} /\ id[h] \notin DOMAIN instances
      BY <1>7 DEF Register, Put, LeaveRestore, CreationInv, Creating, RestoreSteps, host
    <2>2. instances'[id[h]].ssh = instances'[id[h]].arg
      BY <1>7, <2>1 DEF Register, Put
    <2>3. \A i \in DOMAIN instances : instances'[i] = instances[i]
      BY <1>7, <2>1 DEF Register, Put
    <2>4. ForwardInv'
      BY <1>2, <2>1, <2>2, <2>3 DEF ServeInv, ForwardInv
    <2>5. RunOK(h)'
      BY <2>1 DEF RunOK, RunSteps
    <2>6. \A g \in Handlers \ {h} : RunOK(g)'
      BY <1>3, <1>4, <1>5, <2>1, <2>3 DEF RunOK
    <2>7. QED
      BY <2>4, <2>5, <2>6 DEF ServeInv
  <1>8. CASE Fork(h)
    <2>1. /\ pc[h] = "fork" /\ pc'[h] = "idle" /\ id[h] \in DOMAIN instances
          /\ DOMAIN instances' = DOMAIN instances
      BY <1>8, ForkStep
    <2>2. \A i \in DOMAIN instances : /\ instances'[i].ssh = instances[i].ssh
                                      /\ instances'[i].arg = instances[i].arg
      BY <1>8, ForkStep
    <2>3. \A r \in DOMAIN procs' :
            \/ r \in DOMAIN procs /\ procs'[r] = procs[r]
            \/ procs'[r].vm = id[h] /\ procs'[r].port = instances[id[h]].arg
      <3>1. CASE UNCHANGED host
        BY <3>1 DEF host
      <3>2. ASSUME NEW p \in FreePids, Started(p, id[h], instances[id[h]].arg)
            PROVE  \A r \in DOMAIN procs' :
                     \/ r \in DOMAIN procs /\ procs'[r] = procs[r]
                     \/ procs'[r].vm = id[h] /\ procs'[r].port = instances[id[h]].arg
        BY <3>2 DEF Started
      <3>3. QED
        BY <1>8, <3>1, <3>2, ForkStep, StartStep
    <2>4. ForwardInv'
      BY <1>2, <2>1, <2>2, <2>3 DEF ServeInv, ForwardInv
    <2>5. RunOK(h)'
      BY <2>1 DEF RunOK, RunSteps
    <2>6. ASSUME NEW g \in Handlers, g # h PROVE RunOK(g)'
      <3>1. pc'[g] = pc[g] /\ id'[g] = id[g] /\ RunOK(g)
        BY <1>4, <2>6
      <3>2. pc[g] \in RunSteps => id[g] # id[h]
        BY <2>1, <2>6 DEF RunsApart, RunSteps
      <3>3. pc[g] \in RunSteps => \A r \in DOMAIN procs' : procs'[r].vm # id[g]
        BY <2>3, <3>1, <3>2 DEF RunOK
      <3>4. QED
        BY <1>3, <1>5, <2>2, <3>1, <3>3 DEF RunOK
    <2>7. QED
      BY <2>4, <2>5, <2>6 DEF ServeInv
  <1>9. QED
    BY <1>6, <1>7, <1>8

\* Every step but those of two runs of an instance at once keeps ServeInv.
LEMMA ServeStep ==
  ASSUME MaxCrashes = 0, CoreInv, RunsApart, VmInv, PortInv, ServeInv, [Next]_vars
  PROVE  ServeInv'
  <1>1. BootInv /\ \/ UNCHANGED vars \/ BootDone \/ Exhaust \/ Environment
                   \/ \E h \in Handlers : Request(h) \/ Serve(h)
    BY BootSteps DEF PortInv
  <1>2. CASE UNCHANGED vars \/ BootDone \/ Exhaust \/ Environment
    <2>1. UNCHANGED <<id, instances>> /\ (HostNext \/ procs' = procs)
      BY <1>2 DEF vars, BootDone, Exhaust, Environment, host
    <2>2. Settled
      BY <2>1, MachineStep DEF Settled
    <2>3. \A h \in Handlers : pc'[h] = pc[h]
      BY <1>2, ControllerAssumption
      DEF vars, BootDone, Exhaust, Environment, Goto, CoreInv, TypeInv, TypeOK, Threads
    <2>4. QED
      BY <1>1, <2>1, <2>2, <2>3, SettledForward, SettledRun DEF ServeInv
  <1>3. ASSUME NEW h \in Handlers, Request(h) \/ Serve(h) PROVE ServeInv'
    BY <1>3, RequestServe, SettledStep, GiveStep
  <1>4. QED
    BY <1>1, <1>2, <1>3

\* What two handlers about to fork would be.
LEMMA RunsForkApart == RunsApart => ForksApart
  BY DEF RunsApart, ForksApart, RunSteps

\* What the invariants say of a VM that is up.
LEMMA ServeForwards ==
  ASSUME CoreInv, VmInv, PortInv, ServeInv, NEW p \in DOMAIN procs,
         procs[p].port # instances[procs[p].vm].ssh
  PROVE  procs[p].port \in ForeignPorts
  <1>1. procs[p].vm \in DOMAIN instances
    BY InMap DEF PortInv
  <1>2. QED
    BY <1>1 DEF ServeInv, ForwardInv

\* RunsApartForwards: a VM forwards the port that is shown, unless another program
\* had taken the one it forwards, for any number of handlers and every fault but
\* a crash, in a behaviour in which no two handlers look for a port at once, and
\* none runs an instance that another runs already.
THEOREM RunsApartForwards ==
  ASSUME MaxCrashes = 0
  PROVE  Spec /\ [](SearchesApart /\ RunsApart) => []ForwardsUnlessTaken
  <1> DEFINE Inv == CoreInv /\ VmInv /\ PortInv /\ ServeInv
  <1>1. Init => Inv
    BY CoreInit, VmInit, PortInit, ServeInit
  <1>2. Inv /\ SearchesApart /\ RunsApart /\ [Next]_vars => Inv'
    <2>1. KeepsPort
      BY DEF KeepsPort
    <2>2. QED
      BY <2>1, RunsForkApart, CoreStep, VmStep, PortStep, ServeStep
  <1>3. Inv => ForwardsUnlessTaken
    BY ServeForwards DEF ForwardsUnlessTaken
  <1> HIDE DEF Inv
  <1>4. QED
    BY <1>1, <1>2, <1>3, PTL DEF Spec

\* ForwardsCorrect: and in every behaviour with one handler; pids that are used
\* again, and forks, directories and files that fail, change nothing of this.
THEOREM ForwardsCorrect ==
  ASSUME MaxCrashes = 0, \A g, h \in Handlers : g = h
  PROVE  Spec => []ForwardsUnlessTaken
  <1>1. SearchesApart /\ RunsApart
    BY DEF SearchesApart, RunsApart
  <1>2. [](SearchesApart /\ RunsApart)
    BY <1>1, PTL
  <1>3. QED
    BY <1>2, RunsApartForwards, PTL

-----------------------------------------------------------------------------
(* Without other programs *)

\* If no other program takes ports, a run never searches for one.
LEMMA NoSearch ==
  ASSUME ForeignPorts = {}, CoreInv, ServeInv
  PROVE  SearchesApart
  <1>1. ASSUME NEW h \in Handlers, Hunting(h) PROVE mutex = h
    <2>1. pc[h] \notin {"runScan", "runCookie", "runSetPort"}
      BY DEF ServeInv, RunOK
    <2>2. pc[h] \in CreateSteps \cup RestoreSteps
      BY <1>1, <2>1, FileSteps
      DEF Hunting, Searching, Found, CreateSteps, RestoreSteps
    <2>3. QED
      BY <2>2 DEF CoreInv, LockInv
  <1>2. QED
    BY <1>1 DEF SearchesApart

\* OwnPortsCorrect: if no other program takes ports, the mutex of instantiate is
\* enough.  For any number of handlers and every fault but a crash, as long as
\* no two of them run one instance at once, instances have ports of their own,
\* and each VM forwards the port that its instance is shown with.
THEOREM OwnPortsCorrect ==
  ASSUME MaxCrashes = 0, ForeignPorts = {}
  PROVE  Spec /\ []RunsApart => [](DistinctPorts /\ ForwardsAdvertised)
  <1> DEFINE Inv == CoreInv /\ VmInv /\ PortInv /\ ServeInv
  <1>1. Init => Inv
    BY CoreInit, VmInit, PortInit, ServeInit
  <1>2. Inv /\ RunsApart /\ [Next]_vars => Inv'
    <2>1. KeepsPort
      BY DEF KeepsPort
    <2>2. QED
      BY <2>1, NoSearch, RunsForkApart, CoreStep, VmStep, PortStep, ServeStep
  <1>3. Inv => DistinctPorts
    BY DEF PortInv, ApartInv, Given, DistinctPorts
  <1>4. Inv => ForwardsAdvertised
    BY ServeForwards DEF ForwardsAdvertised
  <1> HIDE DEF Inv
  <1>5. QED
    BY <1>1, <1>2, <1>3, <1>4, PTL DEF Spec
=============================================================================
