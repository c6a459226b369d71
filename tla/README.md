# kvm-cloud: a verification development

TLA+ models of kvm-cloud (`src/`), the TLC configurations that check them, and
theorems about them that TLAPS proves. Line numbers below refer to `src/src/`
unless a path says otherwise. `PROJECT.json` maps each definition to its lines
and lists runs, mutants, findings, hazards and theorems.

## 1. The system

A **client** (CLI) talks to a **manager**, which talks to **controllers**; a
client may also talk to a controller directly. A controller creates instances
(a directory with images and "cookies", small files with one value each) and
runs each as a QEMU process whose SSH port is forwarded to a port of the host.

| component | state | operations | interacts by |
|---|---|---|---|
| Controller (`Vm/Controller.hpp`, `controller.cpp`) | map of instances, `nextId`, `nextPort`, one mutex, the working directory | `instantiate`, `run`, `kill`, two listings; `restore` of every directory at boot | one thread per connection; the map and counters are shared, the directory outlives the process |
| Process (`Sys/Process.hpp`) | `_pid`, command line | `run` (fork, exec), `kill`, `isRunning`, `wait` | pids of the kernel, kill(2), waitpid |
| Cookie (`Util/Cookie.hpp`) | one file | `read`, `write` | files |
| Manager (`manager.cpp`) | `nextController`, one mutex, one proxy per controller | the same commands, on all controllers | one thread per client; all handlers share each proxy's connection |
| ControllerProxy (`Vm/ControllerProxy.hpp`) | a socket | one method per command: write a request, read an answer | used by manager and client |
| Socket, SocketIstream (`Net/`) | `writeCount`; two characters of lookahead | `write`, `send`, `read` | TCP |
| ServerSocket (`Net/`) | listening socket | `accept` | main loops |
| Mutex, ScopedLock, Thread (`Thread/`) | a pthread mutex | lock for a scope, detached threads | controller and manager |
| Template, InstanceInfo (`Vm/`) | records of 4 and 6 lines | `serialize`, `deserialize` | messages |
| Client (`client.cpp`) | its connection | reads a command, calls the proxy, prints | the manager |
| Logger, Helpers, exceptions (`Util/`) | none | formatting | all |

Hard behaviours, which the properties are for (all in `PROJECT.json`, "hazards"):

* *Threads.* `run` and `kill` of a controller take no lock; `nextPort` is read
  several times between changes of it; the manager's handlers share connections.
* *Crashes.* VMs outlive their controller; `instantiate` writes a directory in
  several steps; counters start again; a new controller knows only what is on disk.
* *The machine.* Ports are taken between a probe and their use; fork, mkdir and
  files fail, and no result of these is looked at; pids are reused.
* *Framing.* A message ends with an empty line that depends on what the socket
  wrote before, and the reader looks one character ahead.
* *Ends of processes.* A reader does not see that its connection has ended, and
  what it makes of that ends its own process, or not; VMs keep the sockets of
  the controller that forked them.
* *Blocking calls under a lock*, in the manager and (waitpid) in the controller.

What makes each correct: an instance has one VM, and a port that is its own and is
the one that is shown; creations do not mix; what a client was told survives;
kill hits what it names; a call returns its own answer; each request to the
manager acts as one step on the cloud, is carried out once and by the controller
it names, whatever ends meanwhile; locks are given back.

## 2. The modules

| module | models | its relations |
|---|---|---|
| `Host` | the machine: VM processes, pids, ports; `Process` and the port probe | extended by `Controller` |
| `Controller` | the controller's handlers, boot, crash and restart | |
| `VmPool` | what a controller promises, with no threads, ports or files | refined by `Controller` in `ControllerRefinement` |
| `Wire` | one connection, character by character | refines `Rpc` (in `Wire`) |
| `Rpc` | a call: asked, answered, returned | |
| `Records` | the records in a message, both ways (no state) | |
| `Listings` | records on a connection | extends `Wire` and `Records` |
| `Manager` | the manager's handlers and the connections to controllers | |
| `Cloud` | what a manager's clients are promised | refined by `Manager` in `ManagerRefinement` |
| `Cluster` | clients, managers and controllers as processes that start and end | |
| `ControllerProofs`, `VmProofs`, `PortProofs` | theorems about a controller: what it keeps, its VMs, its ports | each extends the one before; `VmProofs` also `ControllerRefinement` |
| `ManagerProofs`, `CloudProofs` | theorems about the manager: its connections, its answers | `CloudProofs` extends `ManagerRefinement` |
| `WireProofs`, `ClusterProofs` | theorems about a connection, and about processes that end | |
| `RecordsProofs` | theorems about listings on a connection | extends `Listings` and `WireProofs` |
| `MCController`, `MCWire`, `MCManager`, `MCCluster` | values for TLC | |

**Controller.** A thread has a program counter `pc` named for the next stretch of
code, the instance `id` it works on and a `port`. An action is a stretch between
two accesses to what it shares. `instantiate` is `InstantiateBegin` (lock),
`Scan` (one round of findNextPort), `PickId`, `Mkdir`, four `WriteFile` steps,
then `restore`: `RestoreRead` (or `RestoreLeaves`, for an exception or a known
instance), `Scan`, `RestoreCookie`, `RestorePort`, `Register`. The constructor
runs the same `restore` steps in the thread `Main`. `run` is `RunBegin`,
`RunPort`, `Scan`, `RunCookie`, `RunSetPort`, `Spawn`, `Fork`; `kill` is
`KillBegin`, `Signal`. `Crash` is any end of the process (an exception that no
handler catches, a signal); the disk and the VMs stay, and a `.ssh` that is being
written may be left empty (`Torn`), to be read later as any port. `Restart` finds
its control port free only when no VM is left that inherited it, unless it is
started at another one (`otherPort`). The two copies that `getInstances` makes
are `ListSize` and `ListCopy`. `Host` moves the VMs: a VM binds
its port after its fork, or exits when the port is taken; any VM may end.

`Faults` says what may go wrong: pids are reused (`pidReuse`), fork fails
(`forkFails`), mkdir fails (`mkdirFails`), a file does not open (`writeFails`),
the process runs out of descriptors and every probe, file and mkdir fails from
then on (`noDescriptors`), a restart uses another control port (`otherPort`).
`ForeignPorts` are ports that other programs take. Each run names its faults, so
that a property that holds only without one says so.

**Wire.** Two ends, "proxy" and "handler", each with lines still to write, its
`writeCount` (as zero or not), the characters on their way to it, and the reader of its current message
(`currChar`, `nextChar`, the line that `getline` has so far). `Peek` is one
character read. A line that is not empty is one character, since the reader
treats all characters but `\r` and `\n` alike, and `\r` is dropped on arrival.

**Records, Listings.** `Records` serialises and reads templates, instances,
listings and requests. A `std::map` is the sequence of its values; `Stoi` inverts
`ToString` on the `Numbers` of a run. `Listings` lets them cross a connection of
`Wire` and says that they arrive.

**Manager.** A handler waits for the mutex and keeps it for its whole request.
Each call to a controller is two actions: one puts a call on the controller's
connection, one takes the next answer from it, whoever's it is. Calls have no
identity in the code; `by` is only there for `PairedCalls` to speak of. `Serve`
answers as a controller may: a creation may fail, `run` of an instance may be
refused. `Direct` is a client that uses a controller without the manager. A
request with no id is one with the id of no controller: both answer 0.

**Cluster.** Here processes are the actors, and what they do in between is coarse:
a client starts, asks, exits; a manager reads `controllers.list` entry by entry
(`ManagerConnect`; who does not answer is left out), then serves one request at a
time (the mutex), with one action per call to a controller and one per answer; a
controller carries requests out (`Execute`). The actions `...Closed` are what the
other side of a connection does when a process has ended: `peek` returns a
character that was never set, so the thread reads for ever (no step), or reads an
empty message. That ends a handler's process (`commands.at(0)`), as does
SIGPIPE; in a proxy it is an empty listing, which the manager's loop takes for
"no templates here" and goes on, or an exception that ends the process. `Crash`
is one end for a reason of its own. A request has an `op`: `templates` (which is also the
first call of the command `new`), `instances`, `new` (its second call) and `do`, which is
`run` and `kill`. Every controller has templates (the constructor puts two into the map,
`Controller.hpp:97-109`) and instances or none. An answer names a controller and
says whether there is something in it (`Answer`): `ok` is FALSE for "0", for an id with
the number 0 and for a listing of nothing. So a creation that fails on controller `s2` is
told as (`s2`, not ok), which is what the client prints as `s2/0`. What the client does next is in `Hears`: it prompts, goes on with
`new`, or stalls, when the manager's listing is empty and the connection was `used`:
then one newline arrives where it waits for two. A VM's exit shows only once its
controller has ended: before that nobody here looks at it.

The definitions marked as slips (`ScanPostIncrement`, `LockNot`, ...) are the
mutants of `PROJECT.json`, plausible bugs that the properties must find; no
specification uses them.

## 3. What is checked

Runs that pass:

| run | instance | shows |
|---|---|---|
| `controller_one` | 1 connection, 3 instances, 3 pids, a port others take; pid reuse, failing fork and mkdir | `SingleVm`, `DistinctPorts`, `CookieMatches`, `ForwardsUnlessTaken`; `ImplementsPool`: the controller implements `VmPool` |
| `controller_crash` | 2 connections, 2 instances, a crash at any step, torn cookies, a restart at another port; failing mkdir and files | `CreationExclusive`, `IssuedDurable`, `ListingFramed`, `KillHitsOwnVm`, types |
| `controller_live` | 1 connection, a crash, a restart at the same port, busy ports, failing fork, no descriptors | `SingleVm` across the restart, `IssuedDurable`; `LockReleased`, `BootFinishes` |
| `wire` | messages of 1 to 12 lines, listings of 0, 1 and 2 records, the manager's with equal ids | `NothingLeft`, `NeitherWaits`, `CallsReturn`; `ImplementsRpc`: what is read is what was written, call by call; `RecordsArrive`: every record once and as it was |
| `manager` | 2 clients, 2 controllers that have the template or not, others who use them | `PairedCalls`, `HolderGoesOn`, `Balanced`, `LockReturned`; `ImplementsCloud`: each request acts as one step between request and answer |
| `cluster` | 2 clients with 2 requests between them, 2 managers in turn, controllers s1 (twice) and s2, every order of starts and ends | `TrueAnswers`, `DoneOnce`, `NobodyStuck`, types |

Runs that find a disagreement between the code and what the repository says of it:

| run | what happens |
|---|---|
| `find_run_race` | two `run` requests both see the instance offline and fork two QEMU processes on one image (`SingleVm`) |
| `find_run_restart` | a VM survives its controller, whose successor at another control port reads `.pid` and drops it: the instance runs twice (`SingleVm`) |
| `find_port_moved` | `run` takes a new port and shows it, but the command line keeps the old one (`ForwardsAdvertised`) |
| `find_wire_empty` | the manager's listing without instances on a used connection sends one empty line, which ends no message: both sides wait for ever (`CallsReturn`) |
| `find_echo` | a controller that cannot create an instance echoes the request, and the client is told that `s2/0` was created (`ToldExists`) |
| `find_exit` | a client exits; the manager's handler reads an empty message and `commands.at(0)` ends the manager (`ExitEndsOnlyClient`) |

**Why some properties need their setting.** `SingleVm` holds with one connection
and, across a crash, for a restart at the same control port, which the VMs keep
busy until they have ended; the first two findings are what a second connection
and another port add. `DistinctPorts` and `CookieMatches` hold for one
connection, with no crash and with files that open: a second handler may change
`nextPort` between the probe and its use, and the code does nothing against it;
a restart gives ports of offline instances out again. `ForwardsUnlessTaken`
needs the same: after a crash, ports of offline instances clash. `KillHitsOwnVm`
needs pids that are not reused (`_pid` is never cleared) and forks that succeed:
a failed one leaves pid -1, and a kill of that instance interrupts every VM.
`LockReleased` excepts a handler whose fork for mkdir failed while VMs live:
`waitpid(-1)` waits for them with the mutex held. `IssuedDurable` speaks of the
map only when the boot had descriptors; the directory is kept in any case.
`NobodyStuck` says nothing once a manager or controller has ended (an endless
message is then possible). It allows a client to stall in one way, that of
`find_wire_empty`: after a listing of instances when there are none, or after any listing
of a manager that has found no controller. It says that no other request, and no mix of
requests, starts and ends of clients, leads there. `TrueAnswers` takes the number 0 for
what it is: an id `s2/0` was created by nobody. That the client prints it like any
other id is `find_echo`.

Some hazards of the code are not avoided by it, so that no passing run can cover
them: there is a finding (two runs at once, the port that moves), or a theorem whose
hypothesis names them (failed forks and reused pids in `KillCorrect`, overlapping
searches in `SearchesApartPorts` and `SearchesApartCookies`), or an exception in a
property (the wait of mkdir in `LockReleased`). `PROJECT.json` says so at each.

**Bounds**, all named in the modules. `MaxId`, `MaxPort`, `Pids`: two instances
are the least for one to disturb the other; three give a port search two others
to step over. `PortsLeft` and `PidsLeft` only stop a request from beginning
near a bound. `MaxCrashes = 1`: all that an incarnation leaves to the next is the disk
and the VMs, and the model has both in any state. Two handlers: all shared
state is reached by pairs. `controller_live` has a smaller
`ScanRoom`, since at most one foreign port and two VMs are in the way.
`MaxAsks` bounds the requests of all clients together: one is in the work while
another waits, and no state outlives a request but `nextController`, the lists
and what was told. Three controller processes of two names give a name with a
successor and one without; a third life of a name adds none that a second does
not. `crashed` allows one end without a cause, at any step; all others follow
from it or from exits. `MaxNew` bounds the creations that begin; two per controller
let the round robin wrap around. One id per controller is enough in
`manager`: names of instances are pairs, and both controllers use the id.
`SYMMETRY` is used only in runs with no liveness property.

**Fairness** is weak and per thread: a detached thread that can go on does
(`Thread.hpp:59-71`), and TCP delivers. Requests, crashes, restarts, VMs and
other programs owe nothing. The pthread mutex is not assumed fair: no property
says that a handler that waits for it gets it. `LockReturned` assumes that controllers answer
(`WF` of `Serve`). Deadlock is checked in all runs but
`find_wire_empty`, `cluster` and `find_exit`: in the last two all processes may have ended, or the clients stalled.
`Cluster` states no fairness. `NobodyStuck` says instead that while a client
waits, a manager or a controller can take a step that brings its answer nearer; it is a
predicate on states (`GoesOn`, a disjunction of the guards of those actions, such as
`CanTake`), so that it can be proved. `HolderGoesOn` and `NeitherWaits` are its
counterparts in `Manager` and `Wire`: the safety half of `LockReturned` and `CallsReturn`,
to which fairness only has to add that what can go on does.

## 4. What is proved

Everything below holds for any number of handlers, pids, ids, ports, crashes,
controllers, lines and requests, and any faults, under the named assumptions on constants
(`HostAssumption`, `ControllerAssumption`, `ManagerAssumption`, `ClusterAssumption`,
`WireAssumption`, `RecordsAssumption`; TLC evaluates them in every run). Where a theorem needs more,
it has a named hypothesis; the hypotheses are those that section 3 explains, and the
findings show that they are needed. TLC checked each invariant before it was proved.

A controller (`ControllerProofs`, `VmProofs`, `PortProofs`):

* `TypeCorrect`: types (with `RunsKnown`).
* `DurableCorrect`: what a client was told survives crashes.
  `DurableInv` adds what makes it inductive: while the constructor runs,
  each issued instance is in the map, still to be read, or being restored
  (`BootCovers`); a handler in `register` has its cookies on disk. `DiskStep`
  says that no step spoils a directory that could be restored.
* `ListingCorrect`: the second copy of a listing is not empty
  when the first was not. `InstancesStay` says that no step but a crash, which
  ends the listing too, takes an instance from the map.
* `CreationCorrect`: the instance that is being created is in no other
  hand. It rests on `LockInv`, that the steps of `instantiate` are those of the
  handler with the mutex, and no handler moves while main() is not accepting.
* `KillCorrect`: a kill only reaches the VM that it names, if pids are not used again
  and fork does not fail (`PidsUnique`), for any number of handlers and crashes.
  `KillInv` says that every process got its pid once (`retired`), that the
  pid an instance remembers was such a pid, and that if a process still has it, it is
  the VM of that instance.
* `SingleVmCorrect`: an instance has one VM, for one handler, through crashes, if a
  restart keeps its port (`KeepsPort`, which allows other ports where nothing crashes).
  `RunsApartSingleVm` says more: with any number of handlers, the VMs stay single in
  every behaviour where no two handlers are about to fork for the same instance
  (`ForksApart`). So `find_run_race` is the only way to a second VM but `find_run_restart`.
  `VmInv` adds that while a controller runs, every VM is the process that its
  instance remembers, that none is left while it boots, and that a handler about to fork
  does so for an instance without one.
* `PoolCorrect`, `RunsApartPool`: under the same hypotheses the controller implements
  `VmPool`: each action is a step of the pool or none. Most are none, by
  one lemma on steps that leave the VMs alone (`Aside`).
* `SearchesApartPorts`, `SearchesApartCookies`, `RunsApartForwards`: ports are apart,
  the cookie holds what is shown, and a VM forwards it unless another program took it,
  for any number of handlers in a life that no crash interrupts (`MaxCrashes = 0`), as
  long as no two of them are between the begin of a port search and the assignment it is
  for (`SearchesApart`: they go through the one `nextPort`), nor, for the last, run one
  instance at once (`RunsApart`); cookies need `FilesOpen` too. Forks, directories, pids
  and foreign ports may be as they like. With one handler the hypotheses hold by
  themselves (`DistinctPortsCorrect`, `CookieMatchesCorrect`, `ForwardsCorrect`). None is
  inductive alone. `PortInv` follows the port through a request: all that was given is
  `nextPort` at the most, and less than `nextPort` from the end of the search to the
  assignment (`FreshPort`, `HandlerOK`); `ServeInv` adds what the VMs serve.
* `OwnPortsCorrect`: where other programs take no ports (and, again, no crash interrupts),
  `run` never searches, and the mutex of `instantiate` is enough: `DistinctPorts` and `ForwardsAdvertised` hold for any
  number of handlers that do not run one instance at once. So a port that two instances
  share takes two searches that overlap, and another program, or a second run of one
  instance, that makes `run` search.

The manager (`ManagerProofs`, `CloudProofs`), with no hypotheses but that of the last:

* `TypeCorrect`, and `PairedCallsCorrect`: a handler
  never takes another's answer. `MutexInv` ties the branches to the mutex;
  `FlightInv` says that there is at most one call or answer on all the
  connections together, that of the handler with the mutex, at the controller it waits for. Neither
  is inductive alone: a call may go out because the mutex is held,
  and a handler that waits has the mutex.
* `HolderGoesOnCorrect`: the mutex is never held for nothing. Who waits has something
  on the connection that it reads (`Awaited`), and by `FlightInv` that is its own.
* `BalancedCorrect`: the round robin is fair. `EvenInv` says that all rounds but the
  last are complete, and that the last stands at `nextController`, or, during a search,
  where the search began (`StartOf`): a search that finds nothing goes all the way round.
* `CloudCorrect`: the manager implements `Cloud`: each request acts as
  one step between request and answer, though a listing is many calls and others use
  the controllers meanwhile. `CloudInv` says what a handler knows half-way: its calls
  are about its request (`CallFits`), an answer still holds when it is read, as
  templates never change and instances never go (`AnswerHolds`), a search has
  passed only controllers without the template (`Passed`), and a listing holds what the
  controllers so far showed (`Shown`).
* `AllMadeTold`: as long as no controller fails to create (`AllMade`), the id that a
  client is told names an instance (`ToldExists`): `find_echo` is the only way to a false one.

A connection (`WireProofs`):

* `TypeCorrect`, for all messages.
* `NothingLeftCorrect`, `NeitherWaitsCorrect` and `RpcCorrect`: nothing is left behind by
  a call, the ends never wait for each other, and the connection implements `Rpc`, for
  messages of any length, if their lines are not empty, or the message is the one empty line of a controller without instances (`Framed`;
  `find_wire_empty` and the empty id are what happens otherwise). `WireInv` says that
  a connection is idle, carries a request or carries an answer (`Idle`, `Asking`,
  `Answering`), and that of the message on its way the first `w` characters are written
  and `r` are read (`Flow`): the socket holds those between, and the reader is what `r`
  characters make of it (`ReaderAt`, in closed form, so that no induction is needed).
  `EndsOnce` is the heart: two ends of lines follow each other at the end of a message
  only, so that the lookahead never reaches into the next one; `ReadToEnd` is its
  converse, so that no reader waits at the end of a message.

Records (`RecordsProofs`):

* `RecordsArriveCorrect`: listings of any length arrive: the records a proxy makes of the
  lines it reads are those that the other end had, each once under its key, and the
  order of a client is read as it was given. Hypotheses: `Framed`, as above, and `Kept`: a
  store has one value for each key, as a `std::map` has, no two controllers give the
  same full id, and the fields that are written as numbers are `int`s.
  * What is heard is what was said: `WireInv` (`Hears`).
  * The lines of a listing of `n` records are `n` times the lines of one (`FlatBlocks`), so
    that the reader, which has no count and no marks, cuts them where they were joined
    (`CutBack`), as long as each record is read from its own lines (`InstanceBack`, `TemplateBack`).
  * What the manager puts together from its controllers is such a store again (`MergedIs`).

  The lines of a listing are a fold (`FlattenSeq`), so this is induction over data. The
  library's induction theorems take an operator as a parameter, which the provers
  cannot instantiate; here induction is over a *set* of naturals instead
  (`Induction`, from the library's `WFMin`), with the lengths for which a fact holds as the set.

Processes (`ClusterProofs`), with no hypotheses but that of the last:

* `TypeCorrect`: types, and that no index leaves the list of a
  manager. `TypeInv` adds `Asked`: a request that is on a connection or in a
  manager's work was counted, so that a call names a request that there is.
* `DoneOnceCorrect`: no request is carried out twice. `OnceInv`
  follows each request: until a call is sent for it, it is fresh
  (`FreshUntilCalled`); then it has one call or one trace (`CalledOnce`). `Turn`
  is why no second call is sent: a request is in the work of one manager, that of
  its client's only connection, and is not taken again.
* `TrueAnswersCorrect`: "OK" and a number tell of what was done, once, by the controller that is
  named, and "ERROR" and the number 0 of what nobody did. `AnswerInv` adds `Flight`, one call or answer per
  manager, where both processes are alive, and that answer true (`Truthful`); `Understood`, that
  the work is what the waiting client asked; and `Told`, that what a client was told last
  stays so until it asks again: a request that was refused is still fresh
  (no call for it is left that could be carried out later). A call to an ended process may stay
  for ever, which is why `Flight` speaks of `Live` calls only.
* `NobodyStuckCorrect`: a client that waits has somebody who goes on, in every order of
  starts, and one that stalls has listed no instances, or has a manager without controllers. `StuckInv` adds that links and lists lead to processes that were started (`Reached`),
  that a manager with work has a call, an answer, or a step to one (`OnTheWay`), and that the
  request of a waiting client is on its connection or in that work (`Held`).
* `SessionsLastEnds`: as long as no client ends its session (`SessionsLast`), no manager
  and no controller ends but by a crash (`ExitEndsOnlyClient`): the ends of the model all
  follow from an exit, which is what `find_exit` shows, or from a crash.

Each finding has thus a theorem beside it: `RunsApartSingleVm` for the race of two runs,
`SingleVmCorrect` (`KeepsPort`) for the restart, `OwnPortsCorrect` for the port that moves,
`NeitherWaitsCorrect` for the empty listing, `AllMadeTold` for the echo and
`SessionsLastEnds` for the exit. Its hypothesis is what the finding breaks.

The proofs corrected the models in two places. The refinement mappings of `Wire` and `Manager`
were written with CASE expressions whose guards overlap, so that TLA+ leaves
open which branch counts (TLC takes the first); they are IF expressions now. And
`ManagerAssumption` and `WireAssumption` did not say that a full id is a pair, and that
"nothing heard yet" is not a message.

Only model-checked, and why:

* `LockReleased`, `BootFinishes`, `CallsReturn` and `LockReturned` are liveness under
  fairness, which is out of the prover's reach.
* That what `GoesOn` names are steps that can be taken: ENABLED is out of reach too. TLC
  checked on `cluster` that `GoesOn` gives an enabled step.

## 5. What is not modelled

* Logger, Helpers, exceptions, reading of command lines, the build,
  `include/libkvm.h` (its functions are never called): no state a property is about.
* How many probes it takes until descriptors run out (`Exhaust` comes at any
  time); ports above 65535, where `htons` wraps.
* The data race on `std::map instances` (`Controller.hpp:151`): a lookup that
  misses is `RunRefused`; one that ends the process is a `Crash`.
* The result of `pthread_create`, which is ignored; `cancel` and `join`, which
  are never called; `.append`, a cookie that only a user writes.
* The exception of `restore` for a template that the controller does not have
  (`Controller.hpp:284-286`): the faults modelled leave no directory that has all its
  cookies and another template than those of the constructor.
* That an image was copied: `IssuedDurable` is about the cookies, all that `restore` needs. An
  instance without its image is registered and told like any other.
* Empty lines inside a message (`run s1/`), which put the two ends out of step,
  and names with a slash in `controllers.list`: nothing in the repository says
  what should happen.
* A character that `peek` makes up is assumed to be no digit: otherwise a proxy could read
  the answer "1" from nobody.
* `Manager` composed with `Controller`s in place of `Serve` and `Execute`: two
  controllers with threads, ports and VMs under two manager handlers have too many states for
  TLC. The interface is the same in both: `Serve` and `Execute` answer as any
  controller may, and `VmPool`, which `Controller` implements, is what one
  connection promises.

## 6. Plan

The most important behaviour, instances under concurrency and crashes, came
first; then the connection, the manager that rests on it, and the processes
around them; then the proofs of every safety property and refinement that a run
checks, first for one handler or without failures, then under the weakest hypotheses that
the findings leave. What is left is liveness, which stays with TLC, and `Manager` composed
with `Controller`s (section 5).
