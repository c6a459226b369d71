-------------------------------- MODULE Host --------------------------------
(***************************************************************************)
(* The machine a controller runs on, as src/src/Sys/Process.hpp and the    *)
(* port probe of src/src/Vm/Controller.hpp use it: a process table, the    *)
(* TCP ports something listens on, fork, kill(2) and the life of a QEMU    *)
(* process.  QEMU and the other programs of the machine are external.      *)
(***************************************************************************)
EXTENDS Integers, FiniteSets

CONSTANTS
  Pids,         \* process ids the kernel can give to a VM process
  InitialId, MaxId,        \* instance ids: <initial-id>, and a bound
  InitialPort, MaxPort,    \* SSH ports: <initial-ssh-port>, and a bound
  ForeignPorts, \* ports that programs other than the VMs may bind
  Faults        \* what may go wrong on this machine

VARIABLES
  procs,    \* live VM processes: pid -> Proc
  retired,  \* pids given out before (kept only when pids are not reused)
  foreign   \* ports bound by other programs now

host == <<procs, retired, foreign>>

FaultKinds == {"pidReuse", "forkFails", "mkdirFails", "writeFails", "noDescriptors",
               "otherPort"}

\* The values of pid_t that name no VM process: Process starts with _pid = 0,
\* and a failed fork() leaves -1, which kill(2) takes for "every process".
NoPid   == 0
AllPids == -1

Ids   == InitialId .. MaxId
Ports == InitialPort .. MaxPort
Proc  == [vm : Ids, port : Ports, listens : BOOLEAN, dying : BOOLEAN,
          child : BOOLEAN]

ASSUME HostAssumption ==
  /\ InitialId \in Nat /\ MaxId \in Nat /\ InitialId <= MaxId
  /\ InitialPort \in Nat /\ MaxPort \in Nat /\ InitialPort <= MaxPort
  /\ NoPid \notin Pids /\ AllPids \notin Pids
  /\ ForeignPorts \subseteq Ports
  /\ Faults \subseteq FaultKinds

\* The map f with k bound to v, as std::map::operator[] assigns it.
Put(f, k, v) == [x \in DOMAIN f \cup {k} |-> IF x = k THEN v ELSE f[x]]

HostInit ==
  /\ procs = [p \in {} |-> 0]
  /\ retired = {}
  /\ foreign = {}

\* Controller::isPortFree: a connect() to 127.0.0.1 that nobody accepts.
IsPortFree(q) ==
  q \notin foreign /\ \A p \in DOMAIN procs : procs[p].listens => procs[p].port # q

\* A plausible slip: only a VM that already serves its port counts as running.
IsAliveIfListening(pid) == pid \in DOMAIN procs /\ procs[pid].listens

\* Process::isRunning.  kill(-1, 0) succeeds as long as the user owns one
\* other process, which the shell that started the controller is.
IsAlive(pid) == pid \in DOMAIN procs \/ pid = AllPids

\* fork() in Process::run: any pid of no live process.
FreePids == Pids \ (DOMAIN procs \cup retired)
StartVm(p, vm, q) ==
  /\ procs' = Put(procs, p, [vm |-> vm, port |-> q, listens |-> FALSE,
                             dying |-> FALSE, child |-> TRUE])
  /\ retired' = IF "pidReuse" \in Faults THEN retired ELSE retired \cup {p}
  /\ UNCHANGED foreign

\* Process::kill: SIGINT to pid; kill(2) takes -1 for every process of the
\* user and 0 for the process group of the caller, its children.
Interrupt(pid) ==
  /\ procs' = [p \in DOMAIN procs |->
                 [procs[p] EXCEPT !.dying = \/ @
                                            \/ pid \in {p, AllPids}
                                            \/ pid = NoPid /\ procs[p].child]]
  /\ UNCHANGED <<retired, foreign>>

\* The parent dies: its children are adopted by init and live on.
OrphanAll == procs' = [p \in DOMAIN procs |-> [procs[p] EXCEPT !.child = FALSE]]

Remove(p) == procs' = [x \in DOMAIN procs \ {p} |-> procs[x]]

-----------------------------------------------------------------------------
(* External steps. *)

\* QEMU sets up "-redir tcp:port::22", and gives up when the port is taken.
VmBind(p) ==
  /\ ~procs[p].listens /\ ~procs[p].dying
  /\ IF IsPortFree(procs[p].port)
       THEN procs' = [procs EXCEPT ![p].listens = TRUE]
       ELSE Remove(p)
  /\ UNCHANGED <<retired, foreign>>

\* The guest powers off, the process is killed by hand, or SIGINT ends it;
\* SA_NOCLDWAIT (controller.cpp) leaves no zombie, so the pid is gone at once.
VmExit(p) == Remove(p) /\ UNCHANGED <<retired, foreign>>

\* Another program binds or releases a port.
ForeignBind(q) ==
  /\ \/ q \in foreign /\ foreign' = foreign \ {q}
     \/ IsPortFree(q) /\ foreign' = foreign \cup {q}
  /\ UNCHANGED <<procs, retired>>

HostNext ==
  \/ \E p \in DOMAIN procs : VmBind(p) \/ VmExit(p)
  \/ \E q \in ForeignPorts : ForeignBind(q)

HostTypeOK ==
  /\ DOMAIN procs \subseteq Pids /\ procs \in [DOMAIN procs -> Proc]
  /\ retired \subseteq Pids
  /\ foreign \subseteq ForeignPorts
=============================================================================
