------------------------------ MODULE Manager -------------------------------
(***************************************************************************)
(* The manager, src/src/manager.cpp: one handler thread per client, one    *)
(* mutex that a handler holds from its first call to a controller to its   *)
(* last, and one proxy (a connection) per controller that all handlers     *)
(* share.  A proxy is the queue of calls on their way to the controller    *)
(* and the queue of answers on their way back; how a message crosses the   *)
(* connection is the subject of Wire.  Controllers are external here: of   *)
(* Controller, only what a call answers.                                   *)
(***************************************************************************)
EXTENDS Integers, Sequences, FiniteSets

CONSTANTS
  Handlers,    \* handler threads (clients)
  Nobody,      \* the mutex is free
  Name,        \* the controllers' names, by their order in controllers.list
  Templates,   \* names of templates
  Requests,    \* what clients may ask for
  VmIds,       \* ids of instances on one controller
  MaxNew       \* bound on the calls that create an instance, per controller

VARIABLES
  pc, request, tries, at, reply, \* per handler; "at" is the controller it calls
  mutex, nextController,
  calls, answers,  \* per controller: its proxy's connection
  offers, vms,     \* per controller: its templates and its instances' ids
  sent,            \* history: "instantiate" calls to each controller
  before           \* history: the cloud's instances when a request arrived

vars == <<pc, request, tries, at, reply, mutex, nextController, calls, answers,
          offers, vms, sent, before>>

proxies == <<calls, answers>>
history == <<sent, before>>

N == Len(Name)
Controllers == 0 .. N - 1
NameOf(k) == Name[k + 1]
NotMade == 0

NoRequest == [cmd |-> "none"]
Commands  == {"new", "run", "kill", "instances", "templates", "other"}

ASSUME ManagerAssumption ==
  /\ Nobody \notin Handlers /\ MaxNew \in Nat
  /\ N \in Nat \ {0} /\ \A j, k \in Controllers : NameOf(j) = NameOf(k) => j = k
  /\ \A r \in Requests :
       /\ r.cmd \in Commands
       /\ r.cmd \in {"run", "kill"} => r.vm = <<r.vm[1], r.vm[2]>>
  /\ NotMade \notin VmIds

\* Every instance of the cloud, as clients name it.
All == {<<NameOf(k), i>> : k \in Controllers, i \in VmIds}
Vms == {v \in All : \E k \in Controllers : v[1] = NameOf(k) /\ v[2] \in vms[k]}

\* The templates of a controller are fixed in its program; controllers of
\* different versions may differ.
Init ==
  /\ pc = [h \in Handlers |-> "read"]
  /\ request = [h \in Handlers |-> NoRequest]
  /\ tries = [h \in Handlers |-> 0] /\ at = [h \in Handlers |-> 0]
  /\ reply = [h \in Handlers |-> [all |-> {}]]
  /\ mutex = Nobody /\ nextController = 0
  /\ calls = [k \in Controllers |-> <<>>] /\ answers = [k \in Controllers |-> <<>>]
  /\ offers \in [Controllers -> SUBSET Templates]
  /\ vms = [k \in Controllers |-> {}]
  /\ sent = [k \in Controllers |-> 0] /\ before = [h \in Handlers |-> {}]

Goto(h, step) == pc' = [pc EXCEPT ![h] = step]

\* A method of ControllerProxy writes its request to controller k, and reads
\* the next answer that arrives from it.
Ask(h, k, op, arg) ==
  calls' = [calls EXCEPT ![k] = Append(@, [by |-> h, op |-> op, arg |-> arg])]
HasAnswer(h) == answers[at[h]] # <<>>
Got(h)       == Head(answers[at[h]]).value
TakeAnswer(h) == answers' = [answers EXCEPT ![at[h]] = Tail(@)]

Respond(h, a) ==
  /\ reply' = [reply EXCEPT ![h] = a]
  /\ tries' = [tries EXCEPT ![h] = 0] /\ at' = [at EXCEPT ![h] = 0]
  /\ Goto(h, "send")

\* A slip: an early return that does not unlock.
FinishLocked(h, a) == Respond(h, a) /\ UNCHANGED mutex

\* The response is written and the scope of the lock ends.
Finish(h, a) == Respond(h, a) /\ mutex' = Nobody

-----------------------------------------------------------------------------
\* The handler has read a request (MaxNew: a bound of the model).
Receive(h, r) ==
  /\ pc[h] = "read"
  /\ r.cmd = "new" => \A k \in Controllers : sent[k] < MaxNew
  /\ Goto(h, "lock") /\ request' = [request EXCEPT ![h] = r]
  /\ before' = [before EXCEPT ![h] = Vms]
  /\ UNCHANGED <<tries, at, reply, mutex, nextController, proxies, offers, vms, sent>>

\* The locals of the branch that the command takes, with n controllers to try.
Enter(h, n) ==
  /\ mutex' = h
  /\ tries' = [tries EXCEPT ![h] = n]
  /\ at' = [at EXCEPT ![h] = 0]
  /\ reply' = [reply EXCEPT ![h] = [all |-> {}]]
  /\ Goto(h, CASE request[h].cmd = "new" -> "search"
               [] request[h].cmd \in {"run", "kill"} -> "find"
               [] OTHER -> "list")
  /\ UNCHANGED <<request, nextController, proxies, offers, vms, history>>

\* The mutex is taken in the branches of the known commands.
Known(h) == pc[h] = "lock" /\ request[h].cmd # "other"

\* Slips: the mutex is not taken, and one controller too few is tried.
LockNot(h)        == Known(h) /\ Enter(h, N)
LockOneTryLess(h) == Known(h) /\ mutex = Nobody /\ Enter(h, N - 1)

Lock(h) == Known(h) /\ mutex = Nobody /\ Enter(h, N)

\* An unknown command is answered without the mutex.
Unknown(h) ==
  /\ pc[h] = "lock" /\ request[h].cmd = "other"
  /\ Respond(h, [ok |-> FALSE])
  /\ UNCHANGED <<request, mutex, nextController, proxies, offers, vms, history>>

-----------------------------------------------------------------------------
(* instantiate *)

\* Slips: the index grows past the end; the search begins at the first
\* controller every time.
AdvanceUnbounded(k) == k + 1
SearchFromFirst(h) ==
  /\ pc[h] = "search" /\ tries[h] > 0
  /\ tries' = [tries EXCEPT ![h] = @ - 1]
  /\ nextController' = N - tries[h]
  /\ at' = [at EXCEPT ![h] = nextController']
  /\ Ask(h, nextController', "templates", NotMade) /\ Goto(h, "templates")
  /\ UNCHANGED <<request, reply, mutex, answers, offers, vms, history>>

\* advanceModulo
Advance(k) == (k + 1) % N

\* The next controller in turn is asked for its templates.
Search(h) ==
  /\ pc[h] = "search" /\ tries[h] > 0
  /\ tries' = [tries EXCEPT ![h] = @ - 1]
  /\ nextController' = Advance(nextController)
  /\ at' = [at EXCEPT ![h] = nextController']
  /\ Ask(h, nextController', "templates", NotMade) /\ Goto(h, "templates")
  /\ UNCHANGED <<request, reply, mutex, answers, offers, vms, history>>

\* No controller has the template: the request is sent back.
SearchFails(h) ==
  /\ pc[h] = "search" /\ tries[h] = 0
  /\ Finish(h, [echo |-> request[h].templ])
  /\ UNCHANGED <<request, nextController, proxies, offers, vms, history>>

Offered(h) ==
  /\ pc[h] = "templates" /\ HasAnswer(h) /\ TakeAnswer(h)
  /\ IF request[h].templ \in Got(h)
       THEN /\ Ask(h, at[h], "new", NotMade) /\ Goto(h, "create")
            /\ sent' = [sent EXCEPT ![at[h]] = @ + 1]
       ELSE Goto(h, "search") /\ UNCHANGED <<calls, sent>>
  /\ UNCHANGED <<request, tries, at, reply, mutex, nextController, offers, vms, before>>

\* A controller that failed echoes the id of the proxy's request, "0".
Created(h) ==
  /\ pc[h] = "create" /\ HasAnswer(h) /\ TakeAnswer(h)
  /\ Finish(h, [vm |-> <<NameOf(at[h]), Got(h)>>])
  /\ UNCHANGED <<request, nextController, calls, offers, vms, history>>

-----------------------------------------------------------------------------
(* run and kill, which differ only in the call *)

Find(h) ==
  /\ pc[h] = "find"
  /\ \E k \in Controllers :
       /\ NameOf(k) = request[h].vm[1] /\ at' = [at EXCEPT ![h] = k]
       /\ Ask(h, k, request[h].cmd, request[h].vm[2])
  /\ Goto(h, "result")
  /\ UNCHANGED <<request, tries, reply, mutex, nextController, answers, offers, vms, history>>

FindFails(h) ==
  /\ pc[h] = "find" /\ \A k \in Controllers : NameOf(k) # request[h].vm[1]
  /\ Finish(h, [ok |-> FALSE])
  /\ UNCHANGED <<request, nextController, proxies, offers, vms, history>>

Result(h) ==
  /\ pc[h] = "result" /\ HasAnswer(h) /\ TakeAnswer(h)
  /\ Finish(h, [ok |-> Got(h)])
  /\ UNCHANGED <<request, nextController, calls, offers, vms, history>>

-----------------------------------------------------------------------------
(* getInstances and getTemplates: the same loop over all controllers *)

List(h) ==
  /\ pc[h] = "list" /\ at[h] < N
  /\ Ask(h, at[h], request[h].cmd, NotMade) /\ Goto(h, "listed")
  /\ UNCHANGED <<request, tries, at, reply, mutex, nextController, answers, offers, vms, history>>

\* makeFullId, and one record per line group; templates keep their names.
Listed(h) ==
  /\ pc[h] = "listed" /\ HasAnswer(h) /\ TakeAnswer(h)
  /\ reply' = [reply EXCEPT ![h].all = @ \cup
       IF request[h].cmd = "instances" THEN {<<NameOf(at[h]), i>> : i \in Got(h)} ELSE Got(h)]
  /\ at' = [at EXCEPT ![h] = @ + 1] /\ Goto(h, "list")
  /\ UNCHANGED <<request, tries, mutex, nextController, calls, offers, vms, history>>

ListEnds(h) ==
  /\ pc[h] = "list" /\ at[h] = N
  /\ Finish(h, reply[h])
  /\ UNCHANGED <<request, nextController, proxies, offers, vms, history>>

\* socket->send(), outside the lock; the client has its answer, the handler's
\* locals are gone.
Send(h) ==
  /\ pc[h] = "send" /\ Goto(h, "read")
  /\ request' = [request EXCEPT ![h] = NoRequest]
  /\ reply' = [reply EXCEPT ![h] = [all |-> {}]]
  /\ before' = [before EXCEPT ![h] = {}]
  /\ UNCHANGED <<tries, at, mutex, nextController, proxies, offers, vms, sent>>

-----------------------------------------------------------------------------
(* The controllers, as their handlers answer *)

\* What a controller may answer to a call, and its instances after that.
MayAnswer(k, c) ==
  CASE c.op = "templates" -> {<<offers[k], vms[k]>>}
    [] c.op = "instances" -> {<<vms[k], vms[k]>>}
    [] c.op = "new"       -> {<<i, vms[k] \cup {i}>> : i \in VmIds \ vms[k]}
                               \cup {<<NotMade, vms[k]>>}
    [] c.op = "run"       -> {<<b, vms[k]>> : b \in {FALSE, c.arg \in vms[k]}}
    [] c.op = "kill"      -> {<<c.arg \in vms[k], vms[k]>>}

Serve(k) ==
  /\ calls[k] # <<>>
  /\ \E r \in MayAnswer(k, Head(calls[k])) :
       /\ answers' = [answers EXCEPT ![k] =
                        Append(@, [by |-> Head(calls[k]).by, value |-> r[1]])]
       /\ vms' = [vms EXCEPT ![k] = r[2]]
  /\ calls' = [calls EXCEPT ![k] = Tail(@)]
  /\ UNCHANGED <<pc, request, tries, at, reply, mutex, nextController, offers, history>>

\* A client connected to the controller itself makes an instance.
Direct(k) ==
  /\ \E i \in VmIds \ vms[k] : vms' = [vms EXCEPT ![k] = @ \cup {i}]
  /\ UNCHANGED <<pc, request, tries, at, reply, mutex, nextController, proxies, offers, history>>

-----------------------------------------------------------------------------
Handle(h) ==
  \/ Lock(h) \/ Unknown(h) \/ Search(h) \/ SearchFails(h) \/ Offered(h) \/ Created(h)
  \/ Find(h) \/ FindFails(h) \/ Result(h)
  \/ List(h) \/ Listed(h) \/ ListEnds(h) \/ Send(h)

Next ==
  \/ \E h \in Handlers : Handle(h) \/ \E r \in Requests : Receive(h, r)
  \/ \E k \in Controllers : Serve(k) \/ Direct(k)

Spec == Init /\ [][Next]_vars

\* Threads that can go on do, and controllers answer; clients need not ask.
\* The mutex is not fair: one handler may take it again and again.
FairSpec ==
  /\ Spec
  /\ \A h \in Handlers : WF_vars(Handle(h))
  /\ \A k \in Controllers : WF_vars(Serve(k))
-----------------------------------------------------------------------------
(* Properties *)

Waiting == {"templates", "create", "result", "listed"}
Holding == Waiting \cup {"search", "find", "list"}

TypeOK ==
  /\ pc \in [Handlers -> {"read", "lock", "send"} \cup Holding]
  /\ request \in [Handlers -> Requests \cup {NoRequest}]
  /\ tries \in [Handlers -> 0..N] /\ at \in [Handlers -> 0..N]
  /\ mutex \in Handlers \cup {Nobody} /\ nextController \in Controllers
  /\ vms \in [Controllers -> SUBSET VmIds]
  /\ sent \in [Controllers -> Nat] /\ before \in [Handlers -> SUBSET All]

\* A handler never takes the answer to another handler's call, though all
\* handlers share one connection per controller: the mutex covers each call
\* from its request to its answer.
PairedCalls ==
  \A h \in Handlers : pc[h] \in Waiting /\ HasAnswer(h) => Head(answers[at[h]]).by = h

\* When the controllers have the same templates, instances are spread evenly:
\* no controller gets two more than another, whatever other requests, refused
\* templates and failures come in between (nextController moves under the lock).
Balanced ==
  (\A j, k \in Controllers : offers[j] = offers[k]) =>
    \A j, k \in Controllers : sent[j] <= sent[k] + 1

\* The mutex is never held for nothing: the handler that has it goes on by
\* itself, or its own call or the answer to it is on the connection it reads.
HolderGoesOn ==
  \A h \in Handlers : mutex = h =>
    \/ pc[h] \in Holding \ Waiting
    \/ /\ pc[h] \in Waiting
       /\ LET queue == calls[at[h]] \o answers[at[h]]
          IN  \E n \in DOMAIN queue : queue[n].by = h

\* A handler that holds the mutex gives it back, if the controllers answer.
LockReturned == \A h \in Handlers : mutex = h ~> mutex # h

\* The id that a client gets for a new instance names an instance.
ToldExists ==
  \A h \in Handlers : pc[h] = "send" /\ "vm" \in DOMAIN reply[h] => reply[h].vm \in Vms
=============================================================================
