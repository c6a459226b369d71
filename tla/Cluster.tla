------------------------------ MODULE Cluster -------------------------------
(***************************************************************************)
(* The processes of a cloud, how they start and how they end: clients      *)
(* (src/src/client.cpp), managers and controllers (main() and the handler  *)
(* loops of src/src/manager.cpp and controller.cpp), and the connections   *)
(* between them, which are made once and never again.  A restart is        *)
(* another process of the same name, so each process here lives once.      *)
(*                                                                         *)
(* At the end of a connection SocketStreambuf::peek returns a character    *)
(* that was never set.  The reader then sees an endless message, and its   *)
(* thread does nothing more (here: takes no step), or an empty one.  What  *)
(* the empty one does, and SIGPIPE, which a second write to a closed       *)
(* connection raises, is in the actions named ...Closed.  The character    *)
(* is assumed to be no digit: it never makes an answer "1".  A VM inherits *)
(* the connections of its controller too, and keeps them open: then the    *)
(* peer of an ended controller waits, which a thread here always may.      *)
(***************************************************************************)
EXTENDS Integers, Sequences, FiniteSets

CONSTANTS
  Clients,   \* client processes
  List,      \* names in controllers.list, in order
  Managers,  \* manager processes, one after the other
  Controllers, \* controller processes, <<name, number>>: one at a time per name
  MaxAsks,   \* bound on the requests of all clients
  None,      \* no manager, no answer yet
  No         \* no controller, in an answer that names none

VARIABLES
  client,     \* per client: "off", "prompt", "offered", "waiting", "stalled" or "ended"
  link,       \* per client: the manager it is connected to
  ask,        \* per client: its request, [op, name], and how far it is
  asks,       \* per client: number of requests so far
  told,       \* per client: the answer it printed last
  used,       \* per client: the manager has answered on its connection
  manager,    \* per manager: "off", "start", "up" or "ended"
  tried,      \* per manager: entries of controllers.list it has tried
  supervised, \* per manager: the controllers it is connected to, in order
  nextController,
  work,       \* per manager: the request of the handler with the mutex
  controller, \* per controller: "off", "up" or "ended"
  vm,         \* per controller: a VM that it started is alive
  calls,      \* requests on their way from managers to controllers
  answers,    \* answers on their way back
  done,       \* history: the controllers that carried out each request
  crashed     \* history: a process ended for a reason of its own

vars == <<client, link, ask, asks, told, used, manager, tried, supervised,
          nextController, work, controller, vm, calls, answers, done, crashed>>

clients  == <<client, link, ask, asks, told, used>>
managers == <<manager, tried, supervised, nextController, work>>
network  == <<calls, answers>>

Names == {List[k] : k \in DOMAIN List}

ASSUME ClusterAssumption ==
  /\ MaxAsks \in Nat /\ Controllers \subseteq Names \X Nat
  /\ None \notin Managers \cup Clients /\ No \notin Names \cup {None}
  /\ \A j, k \in DOMAIN List : List[j] = List[k] => j = k

\* Requests of the CLI: "templates" is also the first call of new, "new" its second,
\* "do" is run and kill.
Listings == {"templates", "instances"}
NoAsk == [op |-> "none", name |-> None, stage |-> "none"]
Idle  == [by |-> None, op |-> "none", name |-> None, stage |-> "none",
          tries |-> 0, at |-> 0, found |-> FALSE]

Init ==
  /\ client = [c \in Clients |-> "off"] /\ link = [c \in Clients |-> None]
  /\ ask = [c \in Clients |-> NoAsk] /\ asks = [c \in Clients |-> 0]
  /\ told = [c \in Clients |-> None] /\ used = [c \in Clients |-> FALSE]
  /\ manager = [m \in Managers |-> "off"] /\ tried = [m \in Managers |-> 0]
  /\ supervised = [m \in Managers |-> <<>>] /\ nextController = [m \in Managers |-> 1]
  /\ work = [m \in Managers |-> Idle]
  /\ controller = [p \in Controllers |-> "off"] /\ vm = [p \in Controllers |-> FALSE]
  /\ calls = {} /\ answers = {}
  /\ done = [r \in Clients \X (1 .. MaxAsks) |-> <<>>]
  /\ crashed = FALSE

Alive(state) == state \in {"start", "up"}

\* Who accepts connections: a VM inherits the listening socket of the
\* controller that forks it (Process::run closes nothing).
Listens(p)       == Alive(controller[p]) \/ vm[p]
ListensFor(n)    == {p \in Controllers : p[1] = n /\ Listens(p)}
ManagersThere    == {m \in Managers : Alive(manager[m])}

-----------------------------------------------------------------------------
(* Clients *)

\* ControllerProxy connects; a client that cannot gives up.
ClientStart(c) ==
  /\ client[c] = "off"
  /\ \E m \in ManagersThere :
       client' = [client EXCEPT ![c] = "prompt"] /\ link' = [link EXCEPT ![c] = m]
  /\ UNCHANGED <<ask, asks, told, used, managers, controller, vm, network, done, crashed>>

\* A client ends, and with it what it was told.  A request that the manager has
\* not read yet stays on the connection.
EndClient(c) ==
  /\ client' = [client EXCEPT ![c] = "ended"] /\ told' = [told EXCEPT ![c] = None]
  /\ ask' = IF ask[c].stage = "sent" THEN ask ELSE [ask EXCEPT ![c] = NoAsk]
  /\ UNCHANGED <<link, asks, used>>

Send(c, op, name) ==
  /\ client' = [client EXCEPT ![c] = "waiting"]
  /\ ask' = [ask EXCEPT ![c] = [op |-> op, name |-> name, stage |-> "sent"]]

\* Bound of the model: the requests made so far are fewer than MaxAsks.
AsksLeft == Cardinality({r \in DOMAIN done : r[2] <= asks[r[1]]}) < MaxAsks

\* A line of the terminal: the client starts a call and waits for its answer.
ClientAsk(c) ==
  /\ client[c] = "prompt" /\ asks[c] < MaxAsks /\ AsksLeft
  /\ Alive(manager[link[c]])
  /\ \/ \E op \in Listings : Send(c, op, None)
     \/ \E n \in Names : Send(c, "do", n)
  /\ asks' = [asks EXCEPT ![c] = @ + 1] /\ told' = [told EXCEPT ![c] = None]
  /\ UNCHANGED <<link, used, managers, controller, vm, network, done, crashed>>

\* new has found its template among those listed (templ.at).
ClientNew(c) ==
  /\ client[c] = "offered" /\ Alive(manager[link[c]])
  /\ Send(c, "new", None)
  /\ UNCHANGED <<link, asks, told, used, managers, controller, vm, network, done, crashed>>

\* exit, or the end of standard input.
ClientExit(c) ==
  /\ client[c] = "prompt" /\ EndClient(c)
  /\ UNCHANGED <<managers, controller, vm, network, done, crashed>>

\* The manager has ended.  A listing may be empty then; every other call reads
\* fields of an empty answer, or writes into SIGPIPE.
ClientClosed(c) ==
  /\ link[c] # None /\ manager[link[c]] = "ended"
  /\ client[c] \in {"prompt", "offered", "waiting", "stalled"}
  /\ \/ EndClient(c)
     \/ /\ client[c] \in {"waiting", "stalled"} /\ ask[c].op \in Listings
        /\ client' = [client EXCEPT ![c] = "prompt"]
        /\ UNCHANGED <<link, ask, asks, told, used>>
  /\ UNCHANGED <<managers, controller, vm, network, done, crashed>>

-----------------------------------------------------------------------------
(* The start of a manager *)

\* ServerSocket binds the control port, or main() ends at once.
ManagerStart(m) ==
  /\ manager[m] = "off" /\ ManagersThere = {}
  /\ manager' = [manager EXCEPT ![m] = "start"]
  /\ UNCHANGED <<clients, tried, supervised, nextController, work, controller, vm,
                 network, done, crashed>>

\* One line of controllers.list: a controller that nobody listens for is left
\* out for good.
ManagerConnect(m) ==
  /\ manager[m] = "start" /\ tried[m] < Len(List)
  /\ tried' = [tried EXCEPT ![m] = @ + 1]
  /\ LET there == ListensFor(List[tried'[m]]) IN
       \/ there = {} /\ UNCHANGED supervised
       \/ \E p \in there : supervised' = [supervised EXCEPT ![m] = Append(@, p)]
  /\ UNCHANGED <<clients, manager, nextController, work, controller, vm, network, done, crashed>>

\* main() comes to its accept loop.
ManagerReady(m) ==
  /\ manager[m] = "start" /\ tried[m] = Len(List)
  /\ manager' = [manager EXCEPT ![m] = "up"]
  /\ UNCHANGED <<clients, tried, supervised, nextController, work, controller, vm,
                 network, done, crashed>>

-----------------------------------------------------------------------------
(* A handler of the manager *)

N(m) == Len(supervised[m])

\* The handler with the mutex goes on with its request.
Proceed(m, stage, tries, at, found) ==
  work' = [work EXCEPT ![m] =
    [by |-> @.by, op |-> @.op, name |-> @.name, stage |-> stage,
     tries |-> tries, at |-> at, found |-> found]]
Goto(m, stage, at) == Proceed(m, stage, work[m].tries, at, work[m].found)

\* The mutex is free, and the handler of c has read its request.
CanTake(m, c) ==
  /\ manager[m] = "up" /\ work[m] = Idle
  /\ link[c] = m /\ ask[c].stage = "sent"

\* A slip: one controller too many is tried.
TakeOneMore(m, c) ==
  /\ CanTake(m, c)
  /\ ask' = [ask EXCEPT ![c] = [op |-> @.op, name |-> @.name, stage |-> "taken"]]
  /\ work' = [work EXCEPT ![m] =
       [by |-> c, op |-> ask[c].op, name |-> ask[c].name, stage |-> "pick",
        tries |-> N(m) + 1, at |-> 0, found |-> FALSE]]
  /\ UNCHANGED <<client, link, asks, told, used, manager, tried, supervised,
                 nextController, controller, vm, network, done, crashed>>

\* The handler of c has its request and the mutex.
Take(m, c) ==
  /\ CanTake(m, c)
  /\ ask' = [ask EXCEPT ![c] = [op |-> @.op, name |-> @.name, stage |-> "taken"]]
  /\ work' = [work EXCEPT ![m] =
       [by |-> c, op |-> ask[c].op, name |-> ask[c].name, stage |-> "pick",
        tries |-> N(m), at |-> 0, found |-> FALSE]]
  /\ UNCHANGED <<client, link, asks, told, used, manager, tried, supervised,
                 nextController, controller, vm, network, done, crashed>>

\* An answer to a client: the controller that it names, and whether it says "1", the
\* number of an instance, or that there is something.  ok is FALSE for "0", for the
\* number 0 and for a listing of nothing.
Answer(name, ok) == [from |-> name, ok |-> ok]

\* What the client of m does with the answer.  send() ends a listing of nothing with
\* two newlines on a new connection and with one on a used one: a client that reads
\* the one waits for the next character.  After templates new goes on, or does not
\* find its template, or the command was templates.
Hears(m, a) ==
  IF work[m].op \in Listings /\ ~a.ok /\ used[work[m].by] THEN {"stalled"}
  ELSE IF work[m].op = "templates" /\ a.ok THEN {"prompt", "offered"}
  ELSE {"prompt"}

Hear(m, a) ==
  LET c == work[m].by IN
  IF client[c] = "waiting"
    THEN /\ \E next \in Hears(m, a) : client' = [client EXCEPT ![c] = next]
         /\ told' = [told EXCEPT ![c] = IF work[m].op \in Listings THEN None ELSE a]
    ELSE UNCHANGED <<client, told>>

\* A slip: the reply is sent with the mutex held.
ReplyLocked(m, a) ==
  /\ Goto(m, "none", work[m].at) /\ used' = [used EXCEPT ![work[m].by] = TRUE] /\ Hear(m, a)
  /\ UNCHANGED <<link, ask, asks, manager, tried, supervised, nextController,
                 controller, vm, done, crashed>>

\* The answer is written, the mutex is free.
Reply(m, a) ==
  /\ work' = [work EXCEPT ![m] = Idle] /\ used' = [used EXCEPT ![work[m].by] = TRUE] /\ Hear(m, a)
  /\ UNCHANGED <<link, ask, asks, manager, tried, supervised, nextController,
                 controller, vm, done, crashed>>

\* A call on the proxy of the controller at position k.
Call(m, k, op) ==
  calls' = calls \cup {[from |-> m, to |-> supervised[m][k], op |-> op,
                        by |-> work[m].by, n |-> asks[work[m].by]]}

\* Whom the loop of the branch asks next: all controllers in order, or the
\* next in turn.
NextAt(m) == IF work[m].op = "new"
               THEN (nextController[m] % N(m)) + 1 ELSE N(m) - work[m].tries + 1

\* What the loop asks each controller for.
ListingFor(op) == IF op = "new" THEN "templates" ELSE op

\* The next controller is asked for its templates or its instances.
Probe(m) ==
  /\ work[m].stage = "pick" /\ work[m].op # "do" /\ work[m].tries > 0
  /\ Proceed(m, "probe", work[m].tries - 1, NextAt(m), work[m].found)
  /\ nextController' = IF work[m].op = "new"
                         THEN [nextController EXCEPT ![m] = NextAt(m)] ELSE nextController
  /\ Call(m, NextAt(m), ListingFor(work[m].op))
  /\ UNCHANGED <<clients, manager, tried, supervised, controller, vm, answers, done, crashed>>

\* The loop is over: the listing is what was found; no controller has the template of
\* new, and the request goes back to the client, with the number 0.
ProbesEnd(m) ==
  /\ work[m].stage = "pick" /\ work[m].op # "do" /\ work[m].tries = 0
  /\ Reply(m, Answer(No, work[m].op \in Listings /\ work[m].found))
  /\ UNCHANGED network

\* A slip: the controller is addressed by its place in the list.
IsNamedByPlace(m, k, name) == List[k] = name

\* controller->id == idParts.first
IsNamed(m, k, name) == supervised[m][k][1] = name

Find(m) ==
  /\ work[m].stage = "pick" /\ work[m].op = "do"
  /\ LET found == {k \in 1 .. N(m) : IsNamed(m, k, work[m].name)} IN
       \/ /\ found = {} /\ Reply(m, Answer(No, FALSE)) /\ UNCHANGED network
       \/ \E k \in found :
            /\ Call(m, k, "do")
            /\ Goto(m, "call", k)
            /\ UNCHANGED <<clients, manager, tried, supervised, nextController,
                           controller, vm, answers, done, crashed>>

\* The answers that controller k of the manager has sent and it has not read.
From(m, k) == {a \in answers : a.from = supervised[m][k] /\ a.to = m}

\* A listing grows by what the controller has.  For new the controller has the
\* template, and is asked to instantiate it, or the loop goes on to the next.
Probed(m) ==
  /\ work[m].stage = "probe"
  /\ \E a \in From(m, work[m].at) :
       /\ answers' = answers \ {a}
       /\ \/ /\ work[m].op = "new"
             /\ Call(m, work[m].at, "new") /\ Goto(m, "call", work[m].at)
          \/ /\ UNCHANGED calls
             /\ Proceed(m, "pick", work[m].tries, work[m].at, work[m].found \/ a.ok)
  /\ UNCHANGED <<clients, manager, tried, supervised, nextController, controller, vm,
                 done, crashed>>

\* The answer goes to the client.  That of new has the controller's name put before
\* its number, the 0 of a controller that could not create the instance included.
Called(m) ==
  /\ work[m].stage = "call"
  /\ \E a \in From(m, work[m].at) :
       /\ answers' = answers \ {a}
       /\ Reply(m, Answer(supervised[m][work[m].at][1], a.ok))
  /\ UNCHANGED calls

EndManager(m) ==
  /\ manager' = [manager EXCEPT ![m] = "ended"]
  /\ work' = [work EXCEPT ![m] = Idle]
  /\ answers' = {a \in answers : a.to # m}
  /\ UNCHANGED <<tried, supervised, nextController>>

\* A slip: the manager tries the next controller when one ends in a call.
ControllerClosedNext(m) ==
  /\ work[m].stage \in {"probe", "call"}
  /\ controller[supervised[m][work[m].at]] = "ended" /\ From(m, work[m].at) = {}
  /\ Goto(m, "pick", work[m].at)
  /\ UNCHANGED <<manager, tried, supervised, nextController>>
  /\ UNCHANGED <<clients, controller, vm, network, done, crashed>>

\* The controller has ended: an empty list of templates sends the loop on; an
\* empty answer to any other call, or SIGPIPE, ends the manager.
ControllerClosed(m) ==
  /\ work[m].stage \in {"probe", "call"}
  /\ controller[supervised[m][work[m].at]] = "ended" /\ From(m, work[m].at) = {}
  /\ \/ EndManager(m)
     \/ /\ work[m].stage = "probe" /\ Goto(m, "pick", work[m].at)
        /\ UNCHANGED <<manager, tried, supervised, nextController, answers>>
  /\ UNCHANGED <<clients, controller, vm, calls, done, crashed>>

\* The client has ended, and its handler has nothing left to read: the empty
\* message makes commands.at(0) throw, which nothing catches.
HandlerClosed(m, c) ==
  /\ manager[m] = "up" /\ link[c] = m /\ client[c] = "ended"
  /\ ask[c].stage # "sent" /\ work[m].by # c
  /\ EndManager(m)
  /\ UNCHANGED <<clients, controller, vm, calls, done, crashed>>

-----------------------------------------------------------------------------
(* Controllers *)

\* ServerSocket binds, or main() ends at once; then the constructor loads the
\* directory, while connections wait to be accepted.
ControllerStart(p) ==
  /\ controller[p] = "off" /\ ListensFor(p[1]) = {}
  /\ controller' = [controller EXCEPT ![p] = "up"]
  /\ UNCHANGED <<clients, managers, vm, network, done, crashed>>

\* One round of the handler loop.  There are templates in every controller, instances
\* or none; another request is carried out ("1", the number of an instance) or not
\* ("0", the request sent back with its number 0).  run may start a VM.
Execute(p, q) ==
  /\ controller[p] = "up" /\ q.to = p
  /\ calls' = calls \ {q}
  /\ \E ok \in IF q.op = "templates" THEN {TRUE} ELSE BOOLEAN :
       /\ answers' = IF manager[q.from] = "ended" THEN answers
                       ELSE answers \cup {[from |-> p, to |-> q.from, ok |-> ok]}
       /\ done' = IF q.op \notin Listings /\ ok
                    THEN [done EXCEPT ![<<q.by, q.n>>] = Append(@, p)] ELSE done
       /\ \/ UNCHANGED vm
          \/ q.op = "do" /\ ok /\ vm' = [vm EXCEPT ![p] = TRUE]
  /\ UNCHANGED <<clients, managers, controller, crashed>>

\* What a controller had written when it ended may still arrive.
EndController(p) ==
  /\ controller' = [controller EXCEPT ![p] = "ended"]
  /\ \E lost \in {{}, {a \in answers : a.from = p}} : answers' = answers \ lost

\* As HandlerClosed, for a manager that has ended.
ManagerClosed(p, m) ==
  /\ controller[p] = "up" /\ manager[m] = "ended"
  /\ \E k \in 1 .. N(m) : supervised[m][k] = p
  /\ \A q \in calls : q.from = m => q.to # p
  /\ EndController(p)
  /\ UNCHANGED <<clients, managers, vm, calls, done, crashed>>

\* While its controller lives nobody looks whether the VM does.
VmExit(p) ==
  /\ vm[p] /\ controller[p] = "ended" /\ vm' = [vm EXCEPT ![p] = FALSE]
  /\ UNCHANGED <<clients, managers, controller, network, done, crashed>>

\* A signal or an exception ends a process at any step; one such end is enough
\* (a bound of the model), the others follow.
Crash ==
  /\ ~crashed /\ crashed' = TRUE
  /\ \/ \E m \in ManagersThere : EndManager(m) /\ UNCHANGED <<clients, controller>>
     \/ \E p \in Controllers : Alive(controller[p]) /\ EndController(p) /\ UNCHANGED <<clients, managers>>
     \/ /\ \E c \in Clients : client[c] \in {"offered", "waiting", "stalled"} /\ EndClient(c)
        /\ UNCHANGED <<managers, controller, answers>>
  /\ UNCHANGED <<vm, calls, done>>

-----------------------------------------------------------------------------
\* What a process does without waiting for a user or an end.
ManagerRuns(m) ==
  \/ ManagerConnect(m) \/ ManagerReady(m)
  \/ \E c \in Clients : Take(m, c)
  \/ Probe(m) \/ ProbesEnd(m) \/ Probed(m) \/ Find(m) \/ Called(m)
ControllerRuns(p) == \E q \in calls : Execute(p, q)

Next ==
  \/ \E c \in Clients : ClientStart(c) \/ ClientAsk(c) \/ ClientNew(c) \/ ClientExit(c)
                        \/ ClientClosed(c)
  \/ \E m \in Managers : \/ ManagerStart(m) \/ ManagerRuns(m) \/ ControllerClosed(m)
                         \/ \E c \in Clients : HandlerClosed(m, c)
  \/ \E p \in Controllers : \/ ControllerStart(p) \/ ControllerRuns(p) \/ VmExit(p)
                            \/ \E m \in Managers : ManagerClosed(p, m)
  \/ Crash

Spec == Init /\ [][Next]_vars
-----------------------------------------------------------------------------
(* Properties *)

Ops == Listings \cup {"none", "new", "do"}

ClientTypeOK ==
  /\ client \in [Clients -> {"off", "prompt", "offered", "waiting", "stalled", "ended"}]
  /\ link \in [Clients -> Managers \cup {None}]
  /\ ask \in [Clients -> [op : Ops, name : Names \cup {None},
                          stage : {"none", "sent", "taken"}]]
  /\ asks \in [Clients -> 0 .. MaxAsks]
  /\ told \in [Clients -> {None} \cup [from : Names \cup {No}, ok : BOOLEAN]] /\ used \in [Clients -> BOOLEAN]
ManagerTypeOK ==
  /\ manager \in [Managers -> {"off", "start", "up", "ended"}]
  /\ tried \in [Managers -> 0 .. Len(List)] /\ supervised \in [Managers -> Seq(Controllers)]
  /\ nextController \in [Managers -> Nat \ {0}]
WorkTypeOK ==
  work \in [Managers -> [by : Clients \cup {None}, op : Ops, name : Names \cup {None},
                         stage : {"none", "pick", "probe", "call"},
                         tries : Nat, at : Nat, found : BOOLEAN]]
IndexOK(m) ==
  /\ N(m) <= tried[m] /\ work[m].tries <= N(m) /\ work[m].at <= N(m)
  /\ nextController[m] <= N(m) \/ nextController[m] = 1
  /\ work[m].stage \in {"probe", "call"} => work[m].at > 0
NetworkTypeOK ==
  /\ controller \in [Controllers -> {"off", "up", "ended"}] /\ vm \in [Controllers -> BOOLEAN]
  /\ calls \subseteq [from : Managers, to : Controllers, op : Ops \ {"none"},
                      by : Clients, n : 1 .. MaxAsks]
  /\ answers \subseteq [from : Controllers, to : Managers, ok : BOOLEAN]
  /\ done \in [Clients \X (1 .. MaxAsks) -> Seq(Controllers)]
  /\ crashed \in BOOLEAN

\* Every variable has its type: no loop of the manager tries more controllers
\* than it supervises, and no index leaves its list.
TypeOK ==
  /\ ClientTypeOK /\ ManagerTypeOK /\ WorkTypeOK /\ NetworkTypeOK
  /\ \A m \in Managers : IndexOK(m)

\* What a client reads is what was done.  After "OK", or the id of a new instance with
\* a number that is not 0, the controller of that name carried the request out, and
\* once; after "ERROR", or an id with the number 0, nobody did.  (The client prints
\* such an id, "s2/0" or "0", as a result like any other: that is find_echo.)  This holds
\* through ends and restarts of managers and controllers, and for a manager that
\* supervises only some, whose loop went on to others, or that lost one in a call.
TrueAnswers ==
  \A c \in Clients : told[c] # None =>
    /\ IF told[c].ok
         THEN \E p \in Controllers : done[<<c, asks[c]>>] = <<p>> /\ p[1] = told[c].from
         ELSE done[<<c, asks[c]>>] = <<>>
    /\ ask[c].op = "do" => told[c].from \in {ask[c].name, No}

\* No request is carried out twice, whether its client hears of it or not: an
\* end of a process in the middle of a call starts nothing again.
DoneOnce == \A r \in DOMAIN done : Len(done[r]) <= 1

SomeEnded ==
  \/ \E m \in Managers : manager[m] = "ended"
  \/ \E p \in Controllers : controller[p] = "ended"

\* Manager m can take a step, or a controller can that it waits for: it still
\* connects, or a handler may lock the mutex, or the one that holds it is between
\* two calls, or its call is answered, or a controller that is up has the call.
GoesOn(m) ==
  \/ manager[m] = "start"
  \/ \E c \in Clients : CanTake(m, c)
  \/ work[m].stage = "pick"
  \/ work[m].stage \in {"probe", "call"} /\ From(m, work[m].at) # {}
  \/ \E q \in calls : q.from = m /\ controller[q.to] = "up"

\* As long as no manager or controller ends, a client that waits does not wait for
\* nothing: its own manager goes on, with its request or with one that has the mutex
\* before it, however the requests of clients and their ends mix.  There is one way out
\* of this, that of find_wire_empty: a client stalls after a listing without instances,
\* or after any listing of a manager that found no controller, and after no other.
NobodyStuck ==
  ~SomeEnded => \A c \in Clients :
    /\ client[c] = "waiting" => GoesOn(link[c])
    /\ client[c] = "stalled" => ask[c].op = "instances" \/ N(link[c]) = 0

\* A client that exits ends no other process.
ExitEndsOnlyClient == ~crashed => ~SomeEnded
=============================================================================
