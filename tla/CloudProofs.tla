---------------------------- MODULE CloudProofs -----------------------------
(***************************************************************************)
(* Proofs about the answers of a manager, for any number of handlers,      *)
(* controllers and requests: that it spreads new instances evenly, and     *)
(* that it implements Cloud.                                               *)
(***************************************************************************)
EXTENDS ManagerRefinement, ManagerProofs

Searching == {"search", "templates"}
Creating  == Searching \cup {"create"}
Listing   == {"list", "listed"}

\* The branch of a command, and the controller that it is at.
Branch(h) ==
  /\ pc[h] \in Creating => request[h].cmd = "new"
  /\ pc[h] \in {"find", "result"} => request[h].cmd \in {"run", "kill"}
  /\ pc[h] = "result" => NameOf(at[h]) = request[h].vm[1]
  /\ pc[h] = "create" => request[h].templ \in offers[at[h]]
  /\ pc[h] = "templates" => at[h] = nextController /\ tries[h] < N

OpOf(h) == CASE pc[h] = "templates" -> "templates"
             [] pc[h] = "create"    -> "new"
             [] OTHER               -> request[h].cmd

\* What a handler asks a controller is what its branch is about.
CallFits(h) ==
  pc[h] \in Waiting /\ calls[at[h]] # <<>> =>
    /\ Head(calls[at[h]]).op = OpOf(h)
    /\ pc[h] = "result" => Head(calls[at[h]]).arg = request[h].vm[2]

\* What an answer says still holds when it is read: the templates of a
\* controller never change, and its instances never go.
AnswerHolds(h) ==
  pc[h] \in {"templates", "listed"} /\ HasAnswer(h) =>
    IF OpOf(h) = "templates" THEN Got(h) = offers[at[h]]
    ELSE /\ Got(h) \subseteq vms[at[h]]
         /\ \A i \in VmIds : <<NameOf(at[h]), i>> \in before[h] => i \in Got(h)

\* Where nextController stood when h, which has asked N - tries[h] controllers,
\* began to search, and the n controllers in turn after b.
StartOf(h) == IF nextController >= N - tries[h] THEN nextController - (N - tries[h])
              ELSE nextController + tries[h]
After(b, n) == {k \in Controllers : (b < k /\ k <= b + n) \/ k <= b + n - N}

\* A search goes round: what it has passed does not have the template.
Passed(h) ==
  /\ pc[h] = "search" =>
       \A k \in After(StartOf(h), N - tries[h]) : request[h].templ \notin offers[k]
  /\ pc[h] = "templates" =>
       \A k \in After(StartOf(h), N - tries[h] - 1) : request[h].templ \notin offers[k]

\* A listing holds what the controllers before at[h] showed.
Shown(h) ==
  pc[h] \in Listing =>
    /\ reply[h] = [all |-> reply[h].all]
    /\ request[h].cmd = "templates" =>
         reply[h].all = UNION {offers[k] : k \in {j \in Controllers : j < at[h]}}
    /\ request[h].cmd = "instances" =>
         /\ reply[h].all \subseteq Vms
         /\ \A k \in Controllers, i \in VmIds :
              k < at[h] /\ <<NameOf(k), i>> \in before[h] => <<NameOf(k), i>> \in reply[h].all

CloudInv ==
  /\ Inv /\ reply = [h \in Handlers |-> reply[h]]
  /\ \A h \in Handlers :
       /\ Branch(h) /\ CallFits(h) /\ AnswerHolds(h) /\ Passed(h) /\ Shown(h)
       /\ before[h] \subseteq Vms

\* All rounds but the last are complete, and the last one stands at p.
Even(p) ==
  \E q \in Nat : \A k \in Controllers : sent[k] = IF 0 < k /\ k <= p THEN q + 1 ELSE q

SameOffers == \A j, k \in Controllers : offers[j] = offers[k]

\* With the same templates everywhere, nextController ends a search where the
\* last call went to, or where it began.
EvenInv ==
  SameOffers =>
    /\ (\A h \in Handlers : pc[h] \notin Searching) => Even(nextController)
    /\ \A h \in Handlers : pc[h] \in Searching => Even(StartOf(h))

-----------------------------------------------------------------------------
\* No answer of a controller takes an instance away.
LEMMA AnswerGrows ==
  ASSUME NEW k \in Controllers, NEW c, c.op \in Ops, NEW r \in MayAnswer(k, c)
  PROVE  vms[k] \subseteq r[2]
  <1>0. CASE c.op = "templates"
    BY <1>0 DEF MayAnswer
  <1>a. CASE c.op = "instances"
    BY <1>a DEF MayAnswer
  <1>1. CASE c.op = "kill"
    BY <1>1 DEF MayAnswer
  <1>2. CASE c.op = "new"
    BY <1>2 DEF MayAnswer
  <1>3. CASE c.op = "run"
    <2>1. MayAnswer(k, c) = {<<b, vms[k]>> : b \in {FALSE, c.arg \in vms[k]}}
      BY <1>3, Zenon DEF MayAnswer
    <2>2. PICK b : r = <<b, vms[k]>>
      BY <2>1, Zenon
    <2>3. QED
      BY <2>2
  <1>4. QED
    BY <1>0, <1>a, <1>1, <1>2, <1>3 DEF Ops

\* Templates never change, and an instance never goes.
LEMMA Grow ==
  ASSUME Inv, [Next]_vars
  PROVE  offers' = offers /\ \A k \in Controllers : vms[k] \subseteq vms'[k]
  <1> USE DEF Respond, Finish, history, proxies
  <1>0. vms \in [Controllers -> SUBSET VmIds]
    BY DEF Inv, TypeOK
  <1>1. ASSUME NEW k \in Controllers, Serve(k)
        PROVE  offers' = offers /\ \A j \in Controllers : vms[j] \subseteq vms'[j]
    <2>1. Head(calls[k]).op \in Ops
      BY <1>1, HeadCall DEF Serve
    <2>2. PICK r \in MayAnswer(k, Head(calls[k])) : vms' = [vms EXCEPT ![k] = r[2]]
      BY <1>1 DEF Serve
    <2>3. vms[k] \subseteq r[2]
      BY <2>1, AnswerGrows
    <2>4. QED
      BY <1>0, <1>1, <2>2, <2>3 DEF Serve
  <1>2. ASSUME NEW k \in Controllers, Direct(k)
        PROVE  offers' = offers /\ \A j \in Controllers : vms[j] \subseteq vms'[j]
    BY <1>0, <1>2 DEF Direct
  <1>3. ASSUME \/ UNCHANGED vars
               \/ \E h \in Handlers : Handle(h) \/ \E r \in Requests : Receive(h, r)
        PROVE  UNCHANGED <<offers, vms>>
    BY <1>3 DEF Handle, Receive, Lock, Enter, Unknown, Search, SearchFails, Offered,
                Created, Find, FindFails, Result, List, Listed, ListEnds, Send, vars
  <1>4. QED
    BY <1>1, <1>2, <1>3 DEF Next

\* Nothing that handler g has to do with changes, but that instances are made.
Still(g) ==
  /\ pc'[g] = pc[g] /\ request'[g] = request[g] /\ tries'[g] = tries[g]
  /\ at'[g] = at[g] /\ reply'[g] = reply[g] /\ before'[g] = before[g]
  /\ UNCHANGED <<calls, answers, nextController, sent>>

\* While g holds the mutex it is the only one that acts on what it has to do
\* with, and the controller that it waits for.
LEMMA Steps ==
  ASSUME Inv, [Next]_vars, NEW g \in Handlers, pc'[g] \in Holding
  PROVE  \/ Lock(g) \/ Search(g) \/ Offered(g) \/ Find(g) \/ List(g) \/ Listed(g)
         \/ pc[g] \in Waiting /\ Serve(at[g])
         \/ pc[g] \in Holding /\ Still(g)
  <1> USE DEF Goto, Respond, Finish, history, proxies
  <1>0. /\ pc \in [Handlers -> {"read", "lock", "send"} \cup Holding]
        /\ request \in [Handlers -> Requests \cup {NoRequest}]
        /\ tries \in [Handlers -> 0..N] /\ at \in [Handlers -> 0..N]
        /\ before \in [Handlers -> SUBSET All]
    BY DEF Inv, TypeOK
  <1>1. ASSUME NEW h \in Handlers, h # g, Handle(h) \/ \E r \in Requests : Receive(h, r)
        PROVE  pc[g] \in Holding /\ Still(g)
    <2>1. pc'[g] = pc[g]
      BY <1>0, <1>1 DEF Handle, Receive, Lock, Enter, Unknown, Search, SearchFails, Offered,
                        Created, Find, FindFails, Result, List, Listed, ListEnds, Send
    <2>2. mutex = g /\ pc[h] \notin Holding
      BY <1>1, <2>1 DEF Inv, MutexInv
    <2>3. Unknown(h) \/ Send(h) \/ \E r \in Requests : Receive(h, r)
      BY <1>1, <2>2, ManagerAssumption
         DEF Handle, Lock, Known, Search, SearchFails, Offered, Created, Find, FindFails,
             Result, List, Listed, ListEnds, Holding, Waiting
    <2>4. CASE Unknown(h)
      BY <1>0, <1>1, <2>1, <2>2, <2>4 DEF Unknown, Still
    <2>5. CASE Send(h)
      BY <1>0, <1>1, <2>1, <2>2, <2>5 DEF Send, Still
    <2>6. CASE \E r \in Requests : Receive(h, r)
      BY <1>0, <1>1, <2>1, <2>2, <2>6 DEF Receive, Still
    <2>7. QED
      BY <2>3, <2>4, <2>5, <2>6
  <1>2. ASSUME Handle(g) \/ \E r \in Requests : Receive(g, r)
        PROVE  Lock(g) \/ Search(g) \/ Offered(g) \/ Find(g) \/ List(g) \/ Listed(g)
    <2>1. ~(\E r \in Requests : Receive(g, r)) /\ ~Unknown(g) /\ ~Send(g)
      BY <1>0 DEF Receive, Unknown, Send, Holding, Waiting
    <2>2. ~SearchFails(g) /\ ~Created(g) /\ ~FindFails(g) /\ ~Result(g) /\ ~ListEnds(g)
      BY <1>0 DEF SearchFails, Created, FindFails, Result, ListEnds, Holding, Waiting
    <2>3. QED
      BY <1>2, <2>1, <2>2 DEF Handle
  <1>3. ASSUME NEW k \in Controllers, Serve(k) PROVE pc[g] \in Waiting /\ Serve(at[g])
    <2>1. pc[g] \in Holding
      BY <1>3 DEF Serve
    <2>2. mutex = g
      BY <2>1 DEF Inv, MutexInv
    <2>3. PICK h \in Handlers : mutex = h /\ pc[h] \in Waiting /\ at[h] = k
      BY <1>3, HeadCall DEF Serve
    <2>4. QED
      BY <1>3, <2>2, <2>3
  <1>4. ASSUME NEW k \in Controllers, Direct(k) PROVE pc[g] \in Holding /\ Still(g)
    BY <1>4 DEF Direct, Still
  <1>5. CASE UNCHANGED vars
    BY <1>5 DEF vars, Still
  <1>6. QED
    BY <1>1, <1>2, <1>3, <1>4, <1>5 DEF Next

\* What a controller answers to a handler that waits for it.
LEMMA AnswerArrives ==
  ASSUME Inv, NEW g \in Handlers, pc[g] \in Waiting, Serve(at[g])
  PROVE  /\ calls[at[g]] # <<>> /\ calls'[at[g]] = <<>> /\ ~HasAnswer(g) /\ HasAnswer(g)'
         /\ UNCHANGED <<pc, request, tries, at, reply, mutex, nextController, offers, history>>
         /\ \E r \in MayAnswer(at[g], Head(calls[at[g]])) :
              Got(g)' = r[1] /\ vms' = [vms EXCEPT ![at[g]] = r[2]]
  <1>1. at[g] \in Controllers /\ DOMAIN answers = Controllers /\ DOMAIN calls = Controllers
    BY OneAnswer DEF Inv, FlightInv
  <1>2. answers[at[g]] = <<>> /\ Tail(calls[at[g]]) = <<>> /\ calls[at[g]] # <<>>
    BY <1>1, HeadCall DEF Serve
  <1>3. PICK r \in MayAnswer(at[g], Head(calls[at[g]])) :
          /\ answers' = [answers EXCEPT ![at[g]] =
                           Append(@, [by |-> Head(calls[at[g]]).by, value |-> r[1]])]
          /\ vms' = [vms EXCEPT ![at[g]] = r[2]]
    BY DEF Serve
  <1>4. answers'[at[g]] = <<[by |-> Head(calls[at[g]]).by, value |-> r[1]]>>
    BY <1>1, <1>2, <1>3, OneElement
  <1>5. at' = at /\ calls'[at[g]] = <<>>
    BY <1>1, <1>2 DEF Serve
  <1>6. Got(g)' = r[1] /\ HasAnswer(g)' /\ ~HasAnswer(g)
    BY <1>2, <1>4, <1>5, OneElement DEF Got, HasAnswer
  <1>7. QED
    BY <1>2, <1>3, <1>5, <1>6 DEF Serve

-----------------------------------------------------------------------------
\* A handler whose steps are only its own keeps to its branch.
LEMMA BranchStep ==
  ASSUME CloudInv, [Next]_vars, NEW g \in Handlers
  PROVE  Branch(g)'
  <1> USE DEF Goto, Branch, Creating, Searching, Listing
  <1>0. /\ pc \in [Handlers -> {"read", "lock", "send"} \cup Holding]
        /\ tries \in [Handlers -> 0..N] /\ at \in [Handlers -> 0..N]
        /\ Branch(g) /\ Inv /\ offers' = offers
    BY Grow DEF CloudInv, Inv, TypeOK
  <1>1. CASE Lock(g)
    BY <1>0, <1>1 DEF Lock, Enter
  <1>2. CASE Search(g)
    BY <1>0, <1>2, ManagerAssumption DEF Search
  <1>3. CASE Offered(g)
    <2>1. pc[g] \in Waiting /\ HasAnswer(g)
      BY <1>3 DEF Offered, Waiting
    <2>2. request[g].cmd = "new" /\ pc'[g] \in {"create", "search"} /\ UNCHANGED <<request, at>>
      BY <1>0, <1>3 DEF Offered
    <2>3. pc'[g] = "create" => request[g].templ \in Got(g)
      BY <1>0, <1>3 DEF Offered
    <2>4. Got(g) = offers[at[g]]
      BY <1>3, <2>1 DEF CloudInv, AnswerHolds, OpOf, Offered
    <2>5. QED
      BY <1>0, <2>2, <2>3, <2>4
  <1>4. CASE Find(g)
    BY <1>0, <1>4 DEF Find
  <1>5. CASE List(g)
    BY <1>0, <1>5 DEF List
  <1>6. CASE Listed(g)
    BY <1>0, <1>6 DEF Listed
  <1>7. CASE pc[g] \in Waiting /\ Serve(at[g])
    BY <1>0, <1>7, AnswerArrives
  <1>8. CASE Still(g)
    BY <1>0, <1>8 DEF Still
  <1>9. CASE pc'[g] \notin Holding
    BY <1>9 DEF Holding, Waiting
  <1>10. QED
    BY <1>0, <1>1, <1>2, <1>3, <1>4, <1>5, <1>6, <1>7, <1>8, <1>9, Steps

\* A call that goes out is the only one to its controller.
LEMMA AskHead ==
  ASSUME Inv, NEW h \in Handlers, NEW k \in Controllers, NEW op, NEW arg,
         calls[k] = <<>>, Ask(h, k, op, arg)
  PROVE  Head(calls'[k]).op = op /\ Head(calls'[k]).arg = arg
  <1> DEFINE c == [by |-> h, op |-> op, arg |-> arg]
  <1>1. calls' = [calls EXCEPT ![k] = Append(@, c)] /\ k \in DOMAIN calls
    BY DEF Ask, Inv, FlightInv
  <1>2. calls'[k] = <<c>>
    BY <1>1, OneElement
  <1>3. Head(calls'[k]) = c
    BY <1>2, OneElement
  <1>4. QED
    BY <1>3

\* A handler's call carries what its branch asks.
LEMMA CallStep ==
  ASSUME CloudInv, [Next]_vars, NEW g \in Handlers
  PROVE  CallFits(g)'
  <1> USE DEF Goto, Waiting
  <1>0. /\ pc \in [Handlers -> {"read", "lock", "send"} \cup Holding]
        /\ tries \in [Handlers -> 0..N] /\ at \in [Handlers -> 0..N]
        /\ CallFits(g) /\ Branch(g) /\ Inv /\ nextController \in Controllers
        /\ \A h \in Handlers : pc[h] \in Listing => request[h].cmd \in {"instances", "templates"}
    BY DEF CloudInv, Inv, TypeOK, MutexInv, Listing
  <1>1. CASE Lock(g)
    BY <1>0, <1>1 DEF Lock, Enter, CallFits
  <1>2. CASE Search(g)
    <2>1. nextController' \in Controllers /\ at'[g] = nextController' /\ pc'[g] = "templates"
      BY <1>0, <1>2, AdvanceType DEF Search
    <2>2. calls[nextController'] = <<>>
      BY <1>0, <1>2, <2>1, AllQuiet DEF Search, Quiet, Holding
    <2>3. Head(calls'[nextController']).op = "templates"
      BY <1>0, <1>2, <2>1, <2>2, AskHead DEF Search
    <2>4. QED
      BY <2>1, <2>3 DEF CallFits, OpOf
  <1>3. CASE Offered(g)
    <2>1. at[g] \in Controllers /\ calls[at[g]] = <<>>
      BY <1>0, <1>3, OneAnswer DEF Offered, Answered
    <2>2. CASE request[g].templ \in Got(g)
      <3>1. Ask(g, at[g], "new", NotMade) /\ pc'[g] = "create" /\ at' = at
        BY <1>0, <1>3, <2>2 DEF Offered
      <3>2. Head(calls'[at[g]]).op = "new"
        BY <1>0, <2>1, <3>1, AskHead
      <3>3. QED
        BY <3>1, <3>2 DEF CallFits, OpOf
    <2>3. CASE request[g].templ \notin Got(g)
      BY <1>0, <1>3, <2>3 DEF Offered, CallFits
    <2>4. QED
      BY <2>2, <2>3
  <1>4. CASE Find(g)
    <2>1. PICK k \in Controllers : /\ at' = [at EXCEPT ![g] = k]
                                   /\ Ask(g, k, request[g].cmd, request[g].vm[2])
      BY <1>4 DEF Find
    <2>2. at'[g] = k /\ pc'[g] = "result" /\ request' = request
      BY <1>0, <1>4, <2>1 DEF Find
    <2>3. calls[k] = <<>>
      BY <1>0, <1>4, AllQuiet DEF Find, Quiet, Holding
    <2>4. Head(calls'[k]).op = request[g].cmd /\ Head(calls'[k]).arg = request[g].vm[2]
      BY <1>0, <2>1, <2>3, AskHead
    <2>5. QED
      BY <2>2, <2>4 DEF CallFits, OpOf
  <1>5. CASE List(g)
    <2>1. at[g] \in Controllers /\ at' = at /\ pc'[g] = "listed" /\ request' = request
      BY <1>0, <1>5, ManagerAssumption DEF List, Controllers
    <2>2. calls[at[g]] = <<>>
      BY <1>0, <1>5, <2>1, AllQuiet DEF List, Quiet, Holding
    <2>3. Head(calls'[at[g]]).op = request[g].cmd
      BY <1>0, <1>5, <2>1, <2>2, AskHead DEF List
    <2>4. QED
      BY <2>1, <2>3 DEF CallFits, OpOf
  <1>6. CASE Listed(g)
    BY <1>0, <1>6 DEF Listed, CallFits
  <1>7. CASE pc[g] \in Waiting /\ Serve(at[g])
    BY <1>0, <1>7, AnswerArrives DEF CallFits
  <1>8. CASE Still(g)
    BY <1>0, <1>8 DEF Still, CallFits, OpOf
  <1>9. CASE pc'[g] \notin Holding
    BY <1>9 DEF Holding, CallFits
  <1>10. QED
    BY <1>0, <1>1, <1>2, <1>3, <1>4, <1>5, <1>6, <1>7, <1>8, <1>9, Steps

-----------------------------------------------------------------------------
\* Which ids of a controller the cloud knows.
LEMMA InVms ==
  ASSUME Inv, NEW k \in Controllers, NEW i
  PROVE  <<NameOf(k), i>> \in Vms <=> i \in vms[k]
  <1>1. vms[k] \subseteq VmIds
    BY DEF Inv, TypeOK
  <1>2. ASSUME i \in vms[k] PROVE <<NameOf(k), i>> \in Vms
    BY <1>1, <1>2 DEF Vms, All
  <1>3. ASSUME <<NameOf(k), i>> \in Vms PROVE i \in vms[k]
    <2>1. PICK j \in Controllers : NameOf(k) = NameOf(j) /\ i \in vms[j]
      BY <1>3 DEF Vms
    <2>2. QED
      BY <2>1, ManagerAssumption
  <1>4. QED
    BY <1>2, <1>3

\* No instance goes.
LEMMA VmsGrow ==
  ASSUME Inv, [Next]_vars
  PROVE  Vms \subseteq Vms'
  BY Grow DEF Vms

\* What a controller answers is so, and stays so.
LEMMA AnswerStep ==
  ASSUME CloudInv, [Next]_vars, NEW g \in Handlers
  PROVE  AnswerHolds(g)'
  <1> USE DEF Goto, Waiting
  <1>0. /\ pc \in [Handlers -> {"read", "lock", "send"} \cup Holding]
        /\ at \in [Handlers -> 0..N] /\ nextController \in Controllers
        /\ AnswerHolds(g) /\ CallFits(g) /\ Inv /\ before[g] \subseteq Vms
        /\ pc[g] \in Listing => request[g].cmd \in {"instances", "templates"}
    BY DEF CloudInv, Inv, TypeOK, MutexInv, Listing
  <1>1. CASE Lock(g)
    BY <1>0, <1>1 DEF Lock, Enter, AnswerHolds
  <1>2. CASE Search(g)
    <2>1. nextController' \in Controllers /\ at'[g] = nextController'
      BY <1>0, <1>2, AdvanceType DEF Search
    <2>2. ~HasAnswer(g)'
      BY <1>0, <1>2, <2>1, AllQuiet DEF Search, Quiet, Holding, HasAnswer
    <2>3. QED
      BY <2>2 DEF AnswerHolds
  <1>3. CASE Offered(g)
    BY <1>0, <1>3 DEF Offered, AnswerHolds
  <1>4. CASE Find(g)
    BY <1>0, <1>4 DEF Find, AnswerHolds
  <1>5. CASE List(g)
    <2>1. at[g] \in Controllers /\ UNCHANGED <<at, answers>>
      BY <1>0, <1>5, ManagerAssumption DEF List, Controllers
    <2>2. ~HasAnswer(g)'
      BY <1>0, <1>5, <2>1, AllQuiet DEF List, Quiet, Holding, HasAnswer
    <2>3. QED
      BY <2>2 DEF AnswerHolds
  <1>6. CASE Listed(g)
    BY <1>0, <1>6 DEF Listed, AnswerHolds
  <1>7. CASE pc[g] \in Waiting /\ Serve(at[g])
    <2>1. /\ calls[at[g]] # <<>>
          /\ UNCHANGED <<pc, request, at, offers, before>>
      BY <1>0, <1>7, AnswerArrives DEF history
    <2>2. PICK r \in MayAnswer(at[g], Head(calls[at[g]])) :
            Got(g)' = r[1] /\ vms' = [vms EXCEPT ![at[g]] = r[2]]
      BY <1>0, <1>7, AnswerArrives
    <2>3. Head(calls[at[g]]).op = OpOf(g) /\ at[g] \in Controllers
      BY <1>0, <1>7, <2>1, OneAnswer DEF CallFits
    <2>4. SUFFICES ASSUME pc[g] \in {"templates", "listed"} PROVE AnswerHolds(g)'
      BY <2>1 DEF AnswerHolds
    <2>5. OpOf(g)' = OpOf(g) /\ OpOf(g) \in {"templates", "instances"}
      BY <1>0, <2>1, <2>4 DEF OpOf, Listing
    <2>6. CASE OpOf(g) = "templates"
      <3>0. MayAnswer(at[g], Head(calls[at[g]])) = {<<offers[at[g]], vms[at[g]]>>}
        BY <2>3, <2>6, Zenon DEF MayAnswer
      <3>1. Got(g)' = offers[at[g]]
        BY <2>2, <3>0
      <3>2. QED
        BY <2>1, <2>5, <2>6, <3>1 DEF AnswerHolds
    <2>7. CASE OpOf(g) = "instances"
      <3>0. MayAnswer(at[g], Head(calls[at[g]])) = {<<vms[at[g]], vms[at[g]]>>}
        BY <2>3, <2>7 DEF MayAnswer
      <3>1. Got(g)' = vms[at[g]]
        BY <2>2, <3>0
      <3>2. \A i : <<NameOf(at[g]), i>> \in before[g] => i \in vms[at[g]]
        BY <1>0, <2>3, InVms
      <3>3. vms[at[g]] \subseteq vms'[at[g]]
        BY <1>0, <2>3, Grow
      <3>4. QED
        BY <2>1, <2>5, <2>7, <3>1, <3>2, <3>3 DEF AnswerHolds
    <2>8. QED
      BY <2>5, <2>6, <2>7
  <1>8. CASE pc[g] \in Holding /\ Still(g)
    <2>1. SUFFICES ASSUME pc[g] \in {"templates", "listed"}, HasAnswer(g)
                   PROVE  AnswerHolds(g)'
      BY <1>8 DEF Still, AnswerHolds, HasAnswer
    <2>2. at[g] \in Controllers
      BY <1>0, <2>1, OneAnswer
    <2>3. vms[at[g]] \subseteq vms'[at[g]] /\ offers' = offers
      BY <1>0, <2>2, Grow
    <2>4. Got(g)' = Got(g) /\ OpOf(g)' = OpOf(g) /\ at'[g] = at[g] /\ before'[g] = before[g]
      BY <1>8 DEF Still, Got, OpOf
    <2>5. QED
      BY <1>0, <2>1, <2>3, <2>4 DEF AnswerHolds
  <1>9. CASE pc'[g] \notin Holding
    BY <1>9 DEF Holding, AnswerHolds
  <1>10. QED
    BY <1>0, <1>1, <1>2, <1>3, <1>4, <1>5, <1>6, <1>7, <1>8, <1>9, Steps

-----------------------------------------------------------------------------
\* The next controller in turn.
LEMMA AdvanceIs ==
  ASSUME NEW k \in Controllers
  PROVE  Advance(k) = IF k + 1 = N THEN 0 ELSE k + 1
  <1>1. N \in Nat \ {0} /\ k \in 0 .. N - 1
    BY ManagerAssumption DEF Controllers
  <1>2. CASE k + 1 = N
    BY <1>1, <1>2 DEF Advance
  <1>3. CASE k + 1 < N
    BY <1>1, <1>3 DEF Advance
  <1>4. QED
    BY <1>1, <1>2, <1>3

\* A search that has asked n controllers stands n after its start.
LEMMA StartIs ==
  ASSUME Inv, NEW h \in Handlers
  PROVE  /\ StartOf(h) \in Controllers /\ N - tries[h] \in 0 .. N
         /\ nextController \in {StartOf(h) + (N - tries[h]), StartOf(h) + (N - tries[h]) - N}
  <1>1. tries[h] \in 0 .. N /\ nextController \in 0 .. N - 1 /\ N \in Nat \ {0}
    BY ManagerAssumption DEF Inv, TypeOK, Controllers
  <1>2. CASE nextController >= N - tries[h]
    <2>1. StartOf(h) = nextController - (N - tries[h])
      BY <1>2 DEF StartOf
    <2>2. QED
      BY <1>1, <1>2, <2>1 DEF Controllers
  <1>3. CASE nextController < N - tries[h]
    <2>1. StartOf(h) = nextController + tries[h]
      BY <1>1, <1>3 DEF StartOf
    <2>2. QED
      BY <1>1, <1>3, <2>1 DEF Controllers
  <1>4. QED
    BY <1>1, <1>2, <1>3

\* To ask one more controller does not move the start.
LEMMA StartStays ==
  ASSUME Inv, NEW h \in Handlers, Search(h)
  PROVE  StartOf(h)' = StartOf(h) /\ tries'[h] = tries[h] - 1 /\ tries[h] \in 1 .. N
  <1>1. /\ nextController' = IF nextController + 1 = N THEN 0 ELSE nextController + 1
        /\ nextController \in Controllers
    BY AdvanceIs DEF Search, Inv, TypeOK
  <1>2. tries[h] \in 1 .. N /\ tries'[h] = tries[h] - 1
    BY DEF Search, Inv, TypeOK
  <1>3. N \in Nat \ {0}
    BY ManagerAssumption
  <1>4. QED
    BY <1>1, <1>2, <1>3 DEF StartOf, Controllers

\* The last of the n + 1 controllers after b is n + 1 after b.
LEMMA AfterOneMore ==
  ASSUME NEW b \in Controllers, NEW n \in 1 .. N, NEW k \in After(b, n),
         NEW p \in Controllers, p \in {b + n, b + n - N}
  PROVE  k = p \/ k \in After(b, n - 1)
  BY ManagerAssumption DEF After, Controllers

\* A search has passed the controllers after its start.
LEMMA PassedStep ==
  ASSUME CloudInv, [Next]_vars, NEW g \in Handlers
  PROVE  Passed(g)'
  <1> USE DEF Goto
  <1>0. /\ pc \in [Handlers -> {"read", "lock", "send"} \cup Holding]
        /\ tries \in [Handlers -> 0..N] /\ nextController \in Controllers
        /\ Branch(g) /\ Passed(g) /\ Inv /\ offers' = offers /\ N \in Nat \ {0}
    BY Grow, ManagerAssumption DEF CloudInv, Inv, TypeOK
  <1>1. CASE Lock(g)
    <2>1. tries'[g] = N /\ nextController' = nextController /\ pc'[g] # "templates"
      BY <1>0, <1>1 DEF Lock, Enter
    <2>2. After(StartOf(g)', N - tries'[g]) = {}
      BY <1>0, <2>1 DEF StartOf, After, Controllers
    <2>3. QED
      BY <2>1, <2>2 DEF Passed
  <1>2. CASE Search(g)
    <2>1. StartOf(g)' = StartOf(g) /\ N - tries'[g] - 1 = N - tries[g]
      BY <1>0, <1>2, StartStays
    <2>2. pc[g] = "search" /\ pc'[g] = "templates" /\ request' = request
      BY <1>0, <1>2 DEF Search
    <2>3. QED
      BY <1>0, <2>1, <2>2 DEF Passed, After
  <1>3. CASE Offered(g)
    <2>1. Got(g) = offers[at[g]] /\ at[g] = nextController /\ tries[g] < N
      BY <1>0, <1>3 DEF CloudInv, AnswerHolds, OpOf, Offered, Branch
    <2>2. SUFFICES ASSUME request[g].templ \notin Got(g) PROVE Passed(g)'
      BY <1>0, <1>3 DEF Offered, Passed
    <2>3. pc[g] = "templates" /\ pc'[g] = "search"
      BY <1>0, <1>3, <2>2 DEF Offered
    <2>4. UNCHANGED <<request, tries, nextController>>
      BY <1>3 DEF Offered
    <2>5. \A k \in After(StartOf(g), N - tries[g]) : request[g].templ \notin offers[k]
      <3>1. SUFFICES ASSUME NEW k \in After(StartOf(g), N - tries[g])
                     PROVE  request[g].templ \notin offers[k]
        OBVIOUS
      <3>2. k = nextController \/ k \in After(StartOf(g), N - tries[g] - 1)
        BY <1>0, <2>1, StartIs, AfterOneMore
      <3>3. QED
        BY <1>0, <2>1, <2>2, <2>3, <3>2 DEF Passed
    <2>6. QED
      BY <1>0, <2>3, <2>4, <2>5 DEF Passed, StartOf, After
  <1>4. CASE Find(g)
    BY <1>0, <1>4 DEF Find, Passed
  <1>5. CASE List(g)
    BY <1>0, <1>5 DEF List, Passed
  <1>6. CASE Listed(g)
    BY <1>0, <1>6 DEF Listed, Passed
  <1>7. CASE pc[g] \in Waiting /\ Serve(at[g])
    BY <1>0, <1>7, AnswerArrives DEF Passed, StartOf, After
  <1>8. CASE Still(g)
    BY <1>0, <1>8 DEF Still, Passed, StartOf, After
  <1>9. CASE pc'[g] \notin Holding
    BY <1>9 DEF Holding, Waiting, Passed
  <1>10. QED
    BY <1>0, <1>1, <1>2, <1>3, <1>4, <1>5, <1>6, <1>7, <1>8, <1>9, Steps

-----------------------------------------------------------------------------
\* A listing and what a handler has seen of the cloud.
LEMMA ShownStep ==
  ASSUME CloudInv, [Next]_vars, NEW g \in Handlers
  PROVE  Shown(g)'
  <1> USE DEF Goto, Listing
  <1>0. /\ pc \in [Handlers -> {"read", "lock", "send"} \cup Holding]
        /\ request \in [Handlers -> Requests \cup {NoRequest}]
        /\ tries \in [Handlers -> 0..N] /\ at \in [Handlers -> 0..N]
        /\ reply = [h \in Handlers |-> reply[h]]
        /\ Shown(g) /\ Inv /\ offers' = offers /\ Vms \subseteq Vms'
    BY Grow, VmsGrow DEF CloudInv, Inv, TypeOK
  <1>1. CASE Lock(g)
    <2>1. at'[g] = 0 /\ reply'[g] = [all |-> {}]
      BY <1>0, <1>1 DEF Lock, Enter
    <2>2. {j \in Controllers : j < 0} = {}
      BY ManagerAssumption DEF Controllers
    <2>3. UNION {offers'[k] : k \in {j \in Controllers : j < 0}} = {}
      BY <2>2
    <2>4. \A k \in Controllers : ~(k < 0)
      BY ManagerAssumption DEF Controllers
    <2>5. QED
      BY <2>1, <2>3, <2>4 DEF Shown
  <1>2. CASE Search(g)
    BY <1>0, <1>2 DEF Search, Shown
  <1>3. CASE Offered(g)
    BY <1>0, <1>3 DEF Offered, Shown
  <1>4. CASE Find(g)
    BY <1>0, <1>4 DEF Find, Shown
  <1>5. CASE List(g)
    <2>1. pc[g] = "list" /\ UNCHANGED <<request, at, reply, before>>
      BY <1>0, <1>5 DEF List, history
    <2>2. QED
      BY <1>0, <2>1 DEF Shown
  <1>6. CASE Listed(g)
    <2>1. /\ pc[g] = "listed" /\ HasAnswer(g) /\ at[g] \in Controllers
          /\ request[g].cmd \in {"instances", "templates"}
          /\ UNCHANGED <<request, before, vms>>
      BY <1>0, <1>6, OneAnswer DEF Listed, Waiting, Inv, MutexInv, history
    <2>2. at'[g] = at[g] + 1 /\ at[g] \in Nat
      BY <1>0, <1>6, <2>1, ManagerAssumption DEF Listed, Controllers
    <2>3. reply[g] = [all |-> reply[g].all]
      BY <1>0, <2>1 DEF Shown
    <2> DEFINE more == IF request[g].cmd = "instances"
                       THEN {<<NameOf(at[g]), i>> : i \in Got(g)} ELSE Got(g)
    <2>4. reply'[g] = [reply[g] EXCEPT !.all = @ \cup more]
      BY <1>0, <1>6 DEF Listed
    <2>5. reply'[g] = [all |-> reply[g].all \cup more]
      BY <2>3, <2>4
    <2>6. CASE request[g].cmd = "templates"
      <3>1. Got(g) = offers[at[g]]
        BY <2>1, <2>6 DEF CloudInv, AnswerHolds, OpOf
      <3>2. reply[g].all = UNION {offers[k] : k \in {j \in Controllers : j < at[g]}}
        BY <1>0, <2>1, <2>6 DEF Shown
      <3>3. {j \in Controllers : j < at[g] + 1} = {j \in Controllers : j < at[g]} \cup {at[g]}
        BY <2>1, <2>2, ManagerAssumption DEF Controllers
      <3>4. reply[g].all \cup more
              = UNION {offers[k] : k \in {j \in Controllers : j < at[g] + 1}}
        BY <2>6, <3>1, <3>2, <3>3
      <3>5. QED
        BY <1>0, <2>1, <2>2, <2>5, <2>6, <3>4 DEF Shown
    <2>7. CASE request[g].cmd = "instances"
      <3>1. /\ Got(g) \subseteq vms[at[g]]
            /\ \A i \in VmIds : <<NameOf(at[g]), i>> \in before[g] => i \in Got(g)
        BY <2>1, <2>7 DEF CloudInv, AnswerHolds, OpOf
      <3>2. more \subseteq Vms
        BY <1>0, <2>1, <2>7, <3>1, InVms
      <3>3. /\ reply[g].all \subseteq Vms
            /\ \A k \in Controllers, i \in VmIds :
                 k < at[g] /\ <<NameOf(k), i>> \in before[g] => <<NameOf(k), i>> \in reply[g].all
        BY <1>0, <2>1, <2>7 DEF Shown
      <3>4. ASSUME NEW k \in Controllers, NEW i \in VmIds,
                   k < at[g] + 1, <<NameOf(k), i>> \in before[g]
            PROVE  <<NameOf(k), i>> \in reply[g].all \cup more
        <4>1. k < at[g] \/ k = at[g]
          BY <2>2, <3>4, ManagerAssumption DEF Controllers
        <4>2. QED
          BY <2>7, <3>1, <3>3, <3>4, <4>1
      <3>5. reply[g].all \cup more \subseteq Vms'
        BY <1>0, <3>2, <3>3
      <3>6. QED
        BY <1>0, <2>1, <2>2, <2>5, <2>7, <3>4, <3>5 DEF Shown
    <2>8. QED
      BY <2>1, <2>6, <2>7
  <1>7. CASE pc[g] \in Waiting /\ Serve(at[g])
    <2>1. UNCHANGED <<pc, request, at, reply, before>>
      BY <1>0, <1>7, AnswerArrives DEF history
    <2>2. QED
      BY <1>0, <2>1 DEF Shown
  <1>8. CASE Still(g)
    BY <1>0, <1>8 DEF Still, Shown
  <1>9. CASE pc'[g] \notin Holding
    BY <1>9 DEF Holding, Waiting, Shown
  <1>10. QED
    BY <1>0, <1>1, <1>2, <1>3, <1>4, <1>5, <1>6, <1>7, <1>8, <1>9, Steps

\* Instances that a client may rely on are there.
LEMMA BeforeStep ==
  ASSUME CloudInv, [Next]_vars, NEW g \in Handlers
  PROVE  before'[g] \subseteq Vms'
  <1>0. before \in [Handlers -> SUBSET All] /\ before[g] \subseteq Vms /\ Vms \subseteq Vms'
    BY VmsGrow DEF CloudInv, Inv, TypeOK
  <1>1. before'[g] \in {before[g], Vms, {}}
    <2>1. ASSUME NEW h \in Handlers, NEW r \in Requests, Receive(h, r)
          PROVE  before'[g] \in {before[g], Vms, {}}
      BY <1>0, <2>1 DEF Receive
    <2>2. ASSUME NEW h \in Handlers, Send(h) PROVE before'[g] \in {before[g], Vms, {}}
      BY <1>0, <2>2 DEF Send
    <2>3. ASSUME NEW h \in Handlers, Handle(h), ~Send(h) PROVE before' = before
      BY <2>3 DEF Handle, Lock, Enter, Unknown, Search, SearchFails, Offered,
                  Created, Find, FindFails, Result, List, Listed, ListEnds, history
    <2>4. ASSUME UNCHANGED vars \/ \E k \in Controllers : Serve(k) \/ Direct(k)
          PROVE  before' = before
      BY <2>4 DEF Serve, Direct, history, vars
    <2>5. QED
      BY <2>1, <2>2, <2>3, <2>4 DEF Next
  <1>2. QED
    BY <1>0, <1>1

\* Every handler has a reply.
LEMMA ReplyStep ==
  ASSUME reply = [h \in Handlers |-> reply[h]], [Next]_vars
  PROVE  reply' = [h \in Handlers |-> reply'[h]]
  <1> USE DEF Respond, Finish
  <1>1. ASSUME NEW g \in Handlers, NEW v, reply' = [reply EXCEPT ![g] = v]
        PROVE  reply' = [h \in Handlers |-> reply'[h]]
    BY <1>1
  <1>2. ASSUME NEW h \in Handlers, Handle(h)
        PROVE  reply' = reply \/ \E v : reply' = [reply EXCEPT ![h] = v]
    BY <1>2 DEF Handle, Lock, Enter, Unknown, Search, SearchFails, Offered, Created,
                Find, FindFails, Result, List, Listed, ListEnds, Send
  <1>3. ASSUME NEW h \in Handlers, NEW r \in Requests, Receive(h, r) PROVE reply' = reply
    BY <1>3 DEF Receive
  <1>4. ASSUME UNCHANGED vars \/ \E k \in Controllers : Serve(k) \/ Direct(k)
        PROVE  reply' = reply
    BY <1>4 DEF Serve, Direct, vars
  <1>5. QED
    BY <1>1, <1>2, <1>3, <1>4 DEF Next

\* The invariant holds when the manager has started, and is inductive.
LEMMA CloudInit == Init => CloudInv
  <1> SUFFICES ASSUME Init PROVE CloudInv
    OBVIOUS
  <1>1. \A h \in Handlers : pc[h] = "read" /\ before[h] = {}
    BY DEF Init
  <1>2. reply = [h \in Handlers |-> reply[h]]
    BY DEF Init
  <1>3. QED
    BY <1>1, <1>2, InvInit
       DEF CloudInv, Branch, CallFits, AnswerHolds, Passed, Shown, Creating, Searching,
           Waiting, Listing

\* Every step keeps the invariant.
LEMMA CloudStep == CloudInv /\ [Next]_vars => CloudInv'
  <1> SUFFICES ASSUME CloudInv, [Next]_vars PROVE CloudInv'
    OBVIOUS
  <1>1. Inv'
    BY TypeStep, MutexStep, FlightStep DEF CloudInv, Inv
  <1>2. reply' = [h \in Handlers |-> reply'[h]]
    BY ReplyStep DEF CloudInv
  <1>3. ASSUME NEW h \in Handlers
        PROVE  /\ Branch(h)' /\ CallFits(h)' /\ AnswerHolds(h)' /\ Passed(h)' /\ Shown(h)'
               /\ before'[h] \subseteq Vms'
    BY BranchStep, CallStep, AnswerStep, PassedStep, ShownStep, BeforeStep
  <1>4. QED
    BY <1>1, <1>2, <1>3 DEF CloudInv

\* So the invariant always holds.
LEMMA CloudInvariant == Spec => []CloudInv
  BY CloudInit, CloudStep, PTL DEF Spec

-----------------------------------------------------------------------------
(* Balance *)

\* One more call, to the next controller, and the counts stand there.
LEMMA EvenNext ==
  ASSUME sent \in [Controllers -> Nat], NEW b \in Controllers, Even(b),
         NEW p \in Controllers, p = IF b + 1 = N THEN 0 ELSE b + 1,
         sent' = [sent EXCEPT ![p] = @ + 1]
  PROVE  Even(p)'
  <1>0. N \in Nat \ {0} /\ b \in 0 .. N - 1 /\ \A k \in Controllers : k \in 0 .. N - 1
    BY ManagerAssumption DEF Controllers
  <1>1. PICK q \in Nat : \A k \in Controllers : sent[k] = IF 0 < k /\ k <= b THEN q + 1 ELSE q
    BY DEF Even
  <1>2. CASE b + 1 = N
    <2>1. p = 0
      BY <1>2
    <2>2. \A k \in Controllers : sent'[k] = q + 1
      BY <1>0, <1>1, <1>2, <2>1
    <2>3. \A k \in Controllers : sent'[k] = IF 0 < k /\ k <= p THEN (q + 1) + 1 ELSE q + 1
      BY <1>0, <2>1, <2>2
    <2>4. q + 1 \in Nat
      OBVIOUS
    <2>5. QED
      BY <2>3, <2>4 DEF Even
  <1>3. CASE b + 1 # N
    <2>1. p = b + 1
      BY <1>3
    <2>2. \A k \in Controllers : sent'[k] = IF 0 < k /\ k <= p THEN q + 1 ELSE q
      BY <1>0, <1>1, <2>1
    <2>3. QED
      BY <2>2 DEF Even
  <1>4. QED
    BY <1>2, <1>3

\* Only a search and the call that ends it move nextController and the counts.
LEMMA CountsStay ==
  ASSUME [Next]_vars, \A h \in Handlers : ~Search(h) /\ ~Offered(h)
  PROVE  UNCHANGED <<nextController, sent>>
  <1> USE DEF Respond, Finish, history, proxies
  <1>1. ASSUME NEW h \in Handlers, Handle(h) PROVE UNCHANGED <<nextController, sent>>
    BY <1>1 DEF Handle, Lock, Enter, Unknown, SearchFails,
                Created, Find, FindFails, Result, List, Listed, ListEnds, Send
  <1>2. ASSUME NEW h \in Handlers, NEW r \in Requests, Receive(h, r)
        PROVE  UNCHANGED <<nextController, sent>>
    BY <1>2 DEF Receive
  <1>3. ASSUME UNCHANGED vars \/ \E k \in Controllers : Serve(k) \/ Direct(k)
        PROVE  UNCHANGED <<nextController, sent>>
    BY <1>3 DEF Serve, Direct, vars
  <1>4. QED
    BY <1>1, <1>2, <1>3 DEF Next

\* When all controllers offer the same, a search that finds the template finds
\* it at the first controller.
LEMMA FoundAtOnce ==
  ASSUME CloudInv, SameOffers, NEW h \in Handlers, Offered(h), request[h].templ \in Got(h)
  PROVE  /\ at[h] = nextController
         /\ nextController = IF StartOf(h) + 1 = N THEN 0 ELSE StartOf(h) + 1
  <1>1. /\ Got(h) = offers[at[h]] /\ at[h] = nextController
        /\ tries[h] < N /\ pc[h] = "templates"
    BY DEF CloudInv, AnswerHolds, OpOf, Offered, Branch
  <1>2. /\ tries[h] \in 0 .. N /\ nextController \in Controllers /\ N \in Nat \ {0}
        /\ StartOf(h) \in Controllers
        /\ nextController \in {StartOf(h) + (N - tries[h]), StartOf(h) + (N - tries[h]) - N}
    BY StartIs, ManagerAssumption DEF CloudInv, Inv, TypeOK
  <1>3. \A k \in Controllers : request[h].templ \in offers[k]
    BY <1>1, <1>2 DEF SameOffers
  <1>4. After(StartOf(h), N - tries[h] - 1) = {}
    BY <1>1, <1>3 DEF CloudInv, Passed, After
  <1>5. CASE tries[h] = N - 1
    BY <1>1, <1>2, <1>5 DEF Controllers
  <1>6. CASE tries[h] < N - 1
    <2>1. (IF StartOf(h) + 1 = N THEN 0 ELSE StartOf(h) + 1) \in After(StartOf(h), N - tries[h] - 1)
      BY <1>2, <1>6 DEF Controllers, After
    <2>2. QED
      BY <1>4, <2>1
  <1>7. QED
    BY <1>1, <1>2, <1>5, <1>6

\* A search under way has not moved the counts.
LEMMA EvenSearch ==
  ASSUME CloudInv, SameOffers, EvenInv, [Next]_vars, NEW g \in Handlers, pc'[g] \in Searching
  PROVE  Even(StartOf(g))'
  <1>0. /\ pc \in [Handlers -> {"read", "lock", "send"} \cup Holding]
        /\ tries \in [Handlers -> 0..N] /\ nextController \in Controllers
        /\ Inv /\ N \in Nat \ {0}
    BY ManagerAssumption DEF CloudInv, Inv, TypeOK
  <1>1. CASE Lock(g)
    <2>1. \A h \in Handlers : pc[h] \notin Searching
      BY <1>0, <1>1, ManagerAssumption DEF Lock, Inv, MutexInv, Searching, Holding, Waiting
    <2>2. tries'[g] = N /\ UNCHANGED <<nextController, sent>>
      BY <1>0, <1>1 DEF Lock, Enter, history
    <2>3. StartOf(g)' = nextController
      BY <1>0, <2>2 DEF StartOf, Controllers
    <2>4. QED
      BY <2>1, <2>2, <2>3 DEF EvenInv, Even
  <1>2. CASE Search(g)
    <2>1. StartOf(g)' = StartOf(g) /\ pc[g] \in Searching /\ sent' = sent
      BY <1>0, <1>2, StartStays DEF Search, Searching, history
    <2>2. QED
      BY <2>1 DEF EvenInv, Even
  <1>3. CASE Offered(g)
    <2>1. pc[g] \in Searching /\ UNCHANGED <<tries, nextController, sent>>
      BY <1>0, <1>3 DEF Offered, Searching, Goto
    <2>2. QED
      BY <2>1 DEF EvenInv, Even, StartOf
  <1>4. CASE Find(g) \/ List(g) \/ Listed(g)
    BY <1>0, <1>4 DEF Find, List, Listed, Goto, Searching
  <1>5. CASE pc[g] \in Waiting /\ Serve(at[g])
    <2>1. UNCHANGED <<pc, tries, nextController, sent>>
      BY <1>0, <1>5, AnswerArrives DEF history
    <2>2. QED
      BY <2>1 DEF EvenInv, Even, StartOf
  <1>6. CASE Still(g)
    <2>1. StartOf(g)' = StartOf(g) /\ pc[g] \in Searching /\ sent' = sent
      BY <1>6 DEF Still, StartOf
    <2>2. QED
      BY <2>1 DEF EvenInv, Even
  <1>7. QED
    BY <1>0, <1>1, <1>2, <1>3, <1>4, <1>5, <1>6, Steps DEF Searching, Holding, Waiting

\* A handler that searches goes on, calls a controller, or finds no template.
LEMMA OnlySearchFails ==
  ASSUME Inv, [Next]_vars, NEW h \in Handlers, pc[h] \in Searching, pc'[h] \notin Searching,
         ~Offered(h)
  PROVE  SearchFails(h)
  <1>0. pc \in [Handlers -> {"read", "lock", "send"} \cup Holding]
    BY DEF Inv, TypeOK
  <1>1. Handle(h)
    <2>1. ASSUME NEW g \in Handlers, g # h, Handle(g) \/ \E r \in Requests : Receive(g, r)
          PROVE  pc'[h] = pc[h]
      BY <1>0, <2>1
         DEF Handle, Receive, Lock, Enter, Unknown, Search, SearchFails, Offered, Created,
             Find, FindFails, Result, List, Listed, ListEnds, Send, Goto, Respond, Finish
    <2>2. ASSUME NEW r \in Requests, Receive(h, r) PROVE FALSE
      BY <2>2 DEF Receive, Searching
    <2>3. ASSUME NEW k \in Controllers, Serve(k) \/ Direct(k) PROVE pc'[h] = pc[h]
      BY <2>3 DEF Serve, Direct
    <2>4. ASSUME UNCHANGED vars PROVE pc'[h] = pc[h]
      BY <2>4 DEF vars
    <2>5. QED
      BY <2>1, <2>2, <2>3, <2>4 DEF Next
  <1>2. pc[h] \in {"search", "templates"} /\ ~Search(h)
    BY <1>0 DEF Searching, Search, Goto
  <1>3. QED
    BY <1>1, <1>2
       DEF Handle, Lock, Known, Unknown, Created, Find, FindFails, Result, List, Listed,
           ListEnds, Send

\* Between searches the counts stand at nextController.
LEMMA EvenRest ==
  ASSUME CloudInv, SameOffers, EvenInv, [Next]_vars, \A h \in Handlers : pc'[h] \notin Searching
  PROVE  Even(nextController)'
  <1>0. /\ pc \in [Handlers -> {"read", "lock", "send"} \cup Holding]
        /\ tries \in [Handlers -> 0..N] /\ nextController \in Controllers
        /\ sent \in [Controllers -> Nat] /\ Inv /\ N \in Nat \ {0}
    BY ManagerAssumption DEF CloudInv, Inv, TypeOK
  <1>1. ASSUME NEW h \in Handlers, Offered(h) PROVE Even(nextController)'
    <2>1. /\ request[h].templ \in Got(h) /\ pc[h] \in Searching
          /\ sent' = [sent EXCEPT ![at[h]] = @ + 1] /\ nextController' = nextController
      BY <1>0, <1>1 DEF Offered, Goto, Searching
    <2>2. /\ at[h] = nextController
          /\ nextController = IF StartOf(h) + 1 = N THEN 0 ELSE StartOf(h) + 1
      BY <1>1, <2>1, FoundAtOnce
    <2>3. StartOf(h) \in Controllers /\ Even(StartOf(h))
      BY <1>0, <2>1, StartIs DEF EvenInv
    <2>4. sent' = [sent EXCEPT ![nextController] = @ + 1]
      BY <2>1, <2>2
    <2>5. QED
      BY <1>0, <2>1, <2>2, <2>3, <2>4, EvenNext
  <1>2. ASSUME \A h \in Handlers : ~Offered(h) PROVE Even(nextController)'
    <2>1. \A h \in Handlers : ~Search(h)
      BY <1>0 DEF Search, Goto, Searching
    <2>2. UNCHANGED <<nextController, sent>>
      BY <1>2, <2>1, CountsStay
    <2>3. Even(nextController)
      <3>1. SUFFICES ASSUME NEW h \in Handlers, pc[h] \in Searching PROVE Even(nextController)
        BY DEF EvenInv
      <3>2. SearchFails(h)
        BY <1>0, <1>2, <2>1, <3>1, OnlySearchFails
      <3>3. StartOf(h) = nextController
        BY <1>0, <3>2 DEF SearchFails, StartOf, Controllers
      <3>4. QED
        BY <3>1, <3>3 DEF EvenInv
    <2>4. QED
      BY <2>2, <2>3 DEF Even
  <1>3. QED
    BY <1>1, <1>2

\* The invariant is inductive together with CloudInv.
LEMMA EvenStep == CloudInv /\ EvenInv /\ [Next]_vars => EvenInv'
  <1> SUFFICES ASSUME CloudInv, EvenInv, [Next]_vars, SameOffers'
               PROVE  /\ (\A h \in Handlers : pc'[h] \notin Searching) => Even(nextController)'
                      /\ \A h \in Handlers : pc'[h] \in Searching => Even(StartOf(h))'
    BY DEF EvenInv
  <1>1. SameOffers
    BY Grow DEF CloudInv, SameOffers
  <1>2. QED
    BY <1>1, EvenRest, EvenSearch

\* The counts are even when the manager has started.
LEMMA EvenInit == Init => EvenInv
  <1> SUFFICES ASSUME Init PROVE EvenInv
    OBVIOUS
  <1>1. nextController = 0 /\ \A k \in Controllers : sent[k] = 0
    BY DEF Init
  <1>2. \A h \in Handlers : pc[h] \notin Searching
    BY DEF Init, Searching
  <1>3. \A k \in Controllers : sent[k] = IF 0 < k /\ k <= nextController THEN 0 + 1 ELSE 0
    BY <1>1, ManagerAssumption DEF Controllers
  <1>4. Even(nextController)
    BY <1>3 DEF Even
  <1>5. QED
    BY <1>2, <1>4 DEF EvenInv

\* BalancedCorrect: with the same templates on all controllers, no controller
\* is ever sent two instances more than another, for any number of handlers and
\* controllers, whatever requests, refusals and failures come in between.
THEOREM BalancedCorrect == Spec => []Balanced
  <1>1. EvenInv => Balanced
    <2> SUFFICES ASSUME EvenInv, SameOffers, NEW j \in Controllers, NEW k \in Controllers
                 PROVE  sent[j] <= sent[k] + 1
      BY DEF Balanced, SameOffers
    <2>1. PICK p : Even(p)
      BY DEF EvenInv
    <2>2. PICK q \in Nat : sent[j] \in {q, q + 1} /\ sent[k] \in {q, q + 1}
      BY <2>1 DEF Even
    <2>3. QED
      BY <2>2
  <1>2. QED
    BY <1>1, EvenInit, EvenStep, CloudInvariant, PTL DEF Spec

-----------------------------------------------------------------------------
(* Refinement *)

Bars(h) == TurnOf(h)' = TurnOf(h) /\ AnswerOf(h)' = AnswerOf(h)

\* The cloud's functions, in which one step changes at most one client.
LEMMA OneTurn ==
  ASSUME NEW h \in Handlers, \A g \in Handlers : g # h => Bars(g)
  PROVE  /\ [g \in Handlers |-> TurnOf(g)']
              = [[g \in Handlers |-> TurnOf(g)] EXCEPT ![h] = TurnOf(h)']
         /\ [g \in Handlers |-> AnswerOf(g)']
              = [[g \in Handlers |-> AnswerOf(g)] EXCEPT ![h] = AnswerOf(h)']
  BY DEF Bars

\* A controller's templates by its name.
LEMMA Offers ==
  ASSUME NEW k \in Controllers
  PROVE  OffersOf(NameOf(k)) = offers[k]
  <1>1. (CHOOSE j \in Controllers : NameOf(j) = NameOf(k)) = k
    BY ManagerAssumption
  <1>2. QED
    BY <1>1 DEF OffersOf

\* Nothing changes for clients.
LEMMA Stutter ==
  ASSUME \A h \in Handlers : Bars(h), UNCHANGED <<request, before, offers>>, Vms' = Vms
  PROVE  UNCHANGED TheCloud!cloud
  BY DEF Bars, TheCloud!cloud, OffersOf

\* A client is answered, by one of the cloud's actions.
LEMMA Answering ==
  ASSUME NEW h \in Handlers, \A g \in Handlers : g # h => Bars(g),
         TurnOf(h) = "asked", TurnOf(h)' = "answered",
         UNCHANGED <<request, before, offers>>,
         \/ TheCloud!Create(h) \/ TheCloud!Fail(h) \/ TheCloud!Refuse(h) \/ TheCloud!Obey(h)
         \/ TheCloud!List(h) \/ TheCloud!ListTemplates(h) \/ TheCloud!Unknown(h)
  PROVE  TheCloud!Next
  <1>1. [g \in Handlers |-> TurnOf(g)]'
          = [[g \in Handlers |-> TurnOf(g)] EXCEPT ![h] = "answered"]
    BY OneTurn
  <1>2. [n \in {NameOf(k) : k \in Controllers} |-> OffersOf(n)]'
          = [n \in {NameOf(k) : k \in Controllers} |-> OffersOf(n)]
    BY DEF OffersOf
  <1>3. TheCloud!Answer(h)
    BY <1>1, <1>2 DEF TheCloud!Answer
  <1>4. QED
    BY <1>3 DEF TheCloud!Next

\* A handler's step changes nothing for other clients.
LEMMA OthersStay ==
  ASSUME CloudInv, NEW h \in Handlers, NEW g \in Handlers, g # h,
         Handle(h) \/ \E r \in Requests : Receive(h, r)
  PROVE  Bars(g)
  <1> USE DEF Goto, Respond, Finish, history, proxies
  <1>0. /\ pc \in [Handlers -> {"read", "lock", "send"} \cup Holding]
        /\ at \in [Handlers -> 0..N] /\ reply = [i \in Handlers |-> reply[i]] /\ Inv
    BY DEF CloudInv, Inv, TypeOK
  <1>1. pc'[g] = pc[g] /\ at'[g] = at[g] /\ reply'[g] = reply[g]
    <2>1. CASE \E r \in Requests : Receive(h, r)
      BY <1>0, <2>1 DEF Receive
    <2>2. CASE Lock(h) \/ Unknown(h) \/ Search(h) \/ SearchFails(h) \/ Offered(h)
      BY <1>0, <2>2 DEF Lock, Enter, Unknown, Search, SearchFails, Offered
    <2>3. CASE Created(h) \/ Find(h) \/ FindFails(h) \/ Result(h)
      BY <1>0, <2>3 DEF Created, Find, FindFails, Result
    <2>4. CASE List(h) \/ Listed(h) \/ ListEnds(h) \/ Send(h)
      BY <1>0, <2>4 DEF List, Listed, ListEnds, Send
    <2>5. QED
      BY <2>1, <2>2, <2>3, <2>4 DEF Handle
  <1>2. CASE pc[g] \in {"create", "result"}
    <2>1. mutex = g /\ pc[h] \notin Holding
      BY <1>0, <1>2 DEF Inv, MutexInv, Holding, Waiting
    <2>2. Unknown(h) \/ Send(h) \/ \E r \in Requests : Receive(h, r)
      BY <2>1, ManagerAssumption
         DEF Handle, Lock, Known, Search, SearchFails, Offered, Created, Find, FindFails,
             Result, List, Listed, ListEnds, Holding, Waiting
    <2>3. answers' = answers
      BY <2>2 DEF Unknown, Send, Receive
    <2>4. HasAnswer(g)' = HasAnswer(g) /\ Got(g)' = Got(g) /\ NameOf(at[g])' = NameOf(at[g])
      BY <1>1, <2>3 DEF HasAnswer, Got, NameOf
    <2>5. Served(g)' = Served(g)
      BY <1>1, <2>4 DEF Served
    <2>6. QED
      BY <1>1, <1>2, <2>4, <2>5 DEF Bars, TurnOf, AnswerOf
  <1>3. CASE pc[g] \notin {"create", "result"}
    BY <1>1, <1>3 DEF Bars, TurnOf, AnswerOf, Served
  <1>4. QED
    BY <1>2, <1>3

\* The handler is before the answer, and stays there.
LEMMA StillAsked ==
  ASSUME NEW h \in Handlers, pc[h] \notin {"read", "send"}, pc'[h] \notin {"read", "send"},
         pc[h] \in {"create", "result"} => ~HasAnswer(h),
         pc'[h] \in {"create", "result"} => ~HasAnswer(h)'
  PROVE  Bars(h)
  <1>1. ~Served(h) /\ ~Served(h)'
    BY DEF Served
  <1>2. AnswerOf(h) = NoAnswer /\ AnswerOf(h)' = NoAnswer
    BY <1>1 DEF AnswerOf
  <1>3. TurnOf(h) = "asked" /\ TurnOf(h)' = "asked"
    BY <1>1 DEF TurnOf
  <1>4. QED
    BY <1>2, <1>3 DEF Bars

\* The handler has its answer, and keeps it.
LEMMA StillAnswered ==
  ASSUME NEW h \in Handlers, Served(h), pc[h] \in {"create", "result"}, pc'[h] = "send",
         AnswerOf(h) = reply'[h]
  PROVE  Bars(h)
  <1>1. Served(h)' /\ AnswerOf(h)' = reply'[h]
    BY DEF Served, AnswerOf
  <1>2. TurnOf(h) = "answered" /\ TurnOf(h)' = "answered"
    BY <1>1 DEF TurnOf
  <1>3. QED
    BY <1>1, <1>2 DEF Bars

\* The handler had no answer, and now has one.
LEMMA NowAnswered ==
  ASSUME NEW h \in Handlers, pc[h] \notin {"read", "send", "create", "result"}, pc'[h] = "send"
  PROVE  TurnOf(h) = "asked" /\ TurnOf(h)' = "answered" /\ AnswerOf(h)' = reply'[h]
  <1>1. ~Served(h) /\ Served(h)'
    BY DEF Served
  <1>2. AnswerOf(h)' = reply'[h]
    BY <1>1 DEF AnswerOf
  <1>3. TurnOf(h) = "asked" /\ TurnOf(h)' = "answered"
    BY <1>1 DEF TurnOf
  <1>4. QED
    BY <1>2, <1>3

\* Steps of a handler that clients do not see.
LEMMA HiddenStep ==
  ASSUME CloudInv, NEW h \in Handlers,
         \/ Lock(h) \/ Search(h) \/ Offered(h) \/ Find(h) \/ List(h) \/ Listed(h)
         \/ Created(h) \/ Result(h)
  PROVE  UNCHANGED TheCloud!cloud
  <1> USE DEF Goto, Respond, Finish, history, proxies
  <1>0. /\ pc \in [Handlers -> {"read", "lock", "send"} \cup Holding]
        /\ at \in [Handlers -> 0..N] /\ reply = [i \in Handlers |-> reply[i]]
        /\ Inv /\ \A g \in Handlers : g # h => Bars(g)
    BY OthersStay DEF CloudInv, Inv, TypeOK, Handle
  <1>1. UNCHANGED <<request, before, offers, vms>>
    BY DEF Lock, Enter, Search, Offered, Find, List, Listed, Created, Result
  <1>2. Vms' = Vms
    BY <1>1 DEF Vms
  <1>3. CASE Lock(h) \/ Listed(h)
    <2>1. pc[h] \in {"lock", "listed"} /\ pc'[h] \in {"search", "find", "list"}
      BY <1>0, <1>3 DEF Lock, Known, Enter, Listed
    <2>2. Bars(h)
      BY <2>1, StillAsked
    <2>3. QED
      BY <1>0, <1>1, <1>2, <2>2, Stutter
  <1>4. CASE Search(h) \/ List(h)
    <2>1. pc[h] \in {"search", "list"} /\ pc'[h] \in {"templates", "listed"}
      BY <1>0, <1>4 DEF Search, List
    <2>2. Bars(h)
      BY <2>1, StillAsked
    <2>3. QED
      BY <1>0, <1>1, <1>2, <2>2, Stutter
  <1>5. CASE Offered(h)
    <2>1. pc[h] = "templates" /\ pc'[h] \in {"create", "search"} /\ at' = at
      BY <1>0, <1>5 DEF Offered
    <2>2. at[h] \in Controllers /\ ~HasAnswer(h)'
      BY <1>0, <1>5, <2>1, OneAnswer, TakeFlight DEF Offered, Waiting, HasAnswer
    <2>3. Bars(h)
      BY <2>1, <2>2, StillAsked
    <2>4. QED
      BY <1>0, <1>1, <1>2, <2>3, Stutter
  <1>6. CASE Find(h)
    <2>1. pc[h] = "find" /\ pc'[h] = "result" /\ at'[h] \in Controllers /\ answers' = answers
      BY <1>0, <1>6 DEF Find
    <2>2. answers[at'[h]] = <<>>
      BY <1>0, <2>1, AllQuiet DEF Quiet, Holding, Waiting
    <2>3. ~HasAnswer(h)'
      BY <2>1, <2>2 DEF HasAnswer
    <2>4. Bars(h)
      BY <2>1, <2>3, StillAsked
    <2>5. QED
      BY <1>0, <1>1, <1>2, <2>4, Stutter
  <1>7. CASE Created(h)
    <2>1. pc[h] = "create" /\ pc'[h] = "send" /\ HasAnswer(h)
      BY <1>0, <1>7 DEF Created
    <2>2. reply'[h] = [vm |-> <<NameOf(at[h]), Got(h)>>]
      BY <1>0, <1>7 DEF Created
    <2>3. Served(h) /\ AnswerOf(h) = reply'[h]
      BY <2>1, <2>2 DEF Served, AnswerOf
    <2>4. Bars(h)
      BY <2>1, <2>3, StillAnswered
    <2>5. QED
      BY <1>0, <1>1, <1>2, <2>4, Stutter
  <1>8. CASE Result(h)
    <2>1. pc[h] = "result" /\ pc'[h] = "send" /\ HasAnswer(h)
      BY <1>0, <1>8 DEF Result
    <2>2. reply'[h] = [ok |-> Got(h)]
      BY <1>0, <1>8 DEF Result
    <2>3. Served(h) /\ AnswerOf(h) = reply'[h]
      BY <2>1, <2>2 DEF Served, AnswerOf
    <2>4. Bars(h)
      BY <2>1, <2>3, StillAnswered
    <2>5. QED
      BY <1>0, <1>1, <1>2, <2>4, Stutter
  <1>9. QED
    BY <1>3, <1>4, <1>5, <1>6, <1>7, <1>8

\* The cloud's templates, by the names of their controllers.
LEMMA Named ==
  /\ TheCloud!Names = {NameOf(k) : k \in Controllers}
  /\ \A k \in Controllers :
       [n \in {NameOf(j) : j \in Controllers} |-> OffersOf(n)][NameOf(k)] = offers[k]
  BY Offers DEF TheCloud!Names

\* A request arrives.
LEMMA ReceiveStep ==
  ASSUME CloudInv, NEW h \in Handlers, NEW r \in Requests, Receive(h, r)
  PROVE  TheCloud!Next
  <1> USE DEF Goto, proxies
  <1>0. /\ pc \in [Handlers -> {"read", "lock", "send"} \cup Holding]
        /\ \A g \in Handlers : g # h => Bars(g)
    BY OthersStay DEF CloudInv, Inv, TypeOK
  <1>1. /\ pc[h] = "read" /\ pc'[h] = "lock" /\ UNCHANGED <<offers, vms>>
        /\ request' = [request EXCEPT ![h] = r] /\ before' = [before EXCEPT ![h] = Vms]
    BY <1>0 DEF Receive
  <1>2. ~Served(h) /\ ~Served(h)'
    BY <1>1 DEF Served
  <1>3. AnswerOf(h) = NoAnswer /\ AnswerOf(h)' = NoAnswer
    BY <1>2 DEF AnswerOf
  <1>4. TurnOf(h) = "idle" /\ TurnOf(h)' = "asked"
    BY <1>1, <1>2 DEF TurnOf
  <1>5. [g \in Handlers |-> TurnOf(g)]'
          = [[g \in Handlers |-> TurnOf(g)] EXCEPT ![h] = "asked"]
    BY <1>0, <1>4, OneTurn
  <1>6. [g \in Handlers |-> AnswerOf(g)]' = [g \in Handlers |-> AnswerOf(g)]
    BY <1>0, <1>3 DEF Bars
  <1>7. Vms' = Vms /\ UNCHANGED [n \in {NameOf(k) : k \in Controllers} |-> OffersOf(n)]
    BY <1>1 DEF Vms, OffersOf
  <1>8. TheCloud!Ask(h)
    BY <1>1, <1>4, <1>5, <1>6, <1>7 DEF TheCloud!Ask
  <1>9. QED
    BY <1>8 DEF TheCloud!Next

\* The answer is sent.
LEMMA SendStep ==
  ASSUME CloudInv, NEW h \in Handlers, Send(h)
  PROVE  TheCloud!Next
  <1> USE DEF Goto, proxies
  <1>0. /\ pc \in [Handlers -> {"read", "lock", "send"} \cup Holding]
        /\ \A g \in Handlers : g # h => Bars(g)
    BY OthersStay DEF CloudInv, Inv, TypeOK, Handle
  <1>1. /\ pc[h] = "send" /\ pc'[h] = "read" /\ UNCHANGED <<offers, vms>>
        /\ request' = [request EXCEPT ![h] = NoRequest] /\ before' = [before EXCEPT ![h] = {}]
    BY <1>0 DEF Send
  <1>2. Served(h) /\ ~Served(h)'
    BY <1>1 DEF Served
  <1>3. AnswerOf(h)' = NoAnswer
    BY <1>2 DEF AnswerOf
  <1>4. TurnOf(h) = "answered" /\ TurnOf(h)' = "idle"
    BY <1>1, <1>2 DEF TurnOf
  <1>5. [g \in Handlers |-> TurnOf(g)]'
          = [[g \in Handlers |-> TurnOf(g)] EXCEPT ![h] = "idle"]
    BY <1>0, <1>4, OneTurn
  <1>6. [g \in Handlers |-> AnswerOf(g)]'
          = [[g \in Handlers |-> AnswerOf(g)] EXCEPT ![h] = NoAnswer]
    BY <1>0, <1>3, OneTurn
  <1>7. Vms' = Vms /\ UNCHANGED [n \in {NameOf(k) : k \in Controllers} |-> OffersOf(n)]
    BY <1>1 DEF Vms, OffersOf
  <1>8. TheCloud!Return(h)
    BY <1>1, <1>4, <1>5, <1>6, <1>7 DEF TheCloud!Return
  <1>9. QED
    BY <1>8 DEF TheCloud!Next

\* What the manager answers without a call: to a command it does not know, to a
\* search that found no template, to an id of no controller, and to a listing.
LEMMA DecideStep ==
  ASSUME CloudInv, NEW h \in Handlers,
         Unknown(h) \/ SearchFails(h) \/ FindFails(h) \/ ListEnds(h)
  PROVE  TheCloud!Next
  <1> USE DEF Goto, Respond, Finish, history, proxies
  <1>0. /\ pc \in [Handlers -> {"read", "lock", "send"} \cup Holding]
        /\ reply = [i \in Handlers |-> reply[i]] /\ Inv
        /\ \A g \in Handlers : g # h => Bars(g)
    BY OthersStay DEF CloudInv, Inv, TypeOK, Handle
  <1>1. UNCHANGED <<request, before, offers, vms>>
    BY DEF Unknown, SearchFails, FindFails, ListEnds
  <1>2. Vms' = Vms
    BY <1>1 DEF Vms
  <1>3. pc[h] \notin {"read", "send", "create", "result"} /\ pc'[h] = "send"
    BY <1>0 DEF Unknown, SearchFails, FindFails, ListEnds
  <1>4. /\ TurnOf(h) = "asked" /\ TurnOf(h)' = "answered" /\ AnswerOf(h)' = reply'[h]
        /\ [g \in Handlers |-> AnswerOf(g)]'
             = [[g \in Handlers |-> AnswerOf(g)] EXCEPT ![h] = reply'[h]]
    BY <1>0, <1>3, NowAnswered, OneTurn
  <1>5. CASE Unknown(h)
    <2>1. reply'[h] = [ok |-> FALSE] /\ request[h].cmd = "other"
      BY <1>0, <1>5 DEF Unknown
    <2>2. TheCloud!Unknown(h)
      BY <1>2, <1>4, <2>1 DEF TheCloud!Unknown
    <2>3. QED
      BY <1>0, <1>1, <1>4, <2>2, Answering
  <1>6. CASE SearchFails(h)
    <2>1. /\ reply'[h] = [echo |-> request[h].templ]
          /\ pc[h] = "search" /\ tries[h] = 0
      BY <1>0, <1>6 DEF SearchFails
    <2>2. request[h].cmd = "new"
      BY <2>1 DEF CloudInv, Branch, Creating, Searching
    <2>3. \A k \in Controllers : request[h].templ \notin offers[k]
      <3>1. \A k \in After(StartOf(h), N) : request[h].templ \notin offers[k]
        BY <2>1, ManagerAssumption DEF CloudInv, Passed, After
      <3>2. \A k \in Controllers : k \in After(StartOf(h), N)
        BY <1>0, StartIs, ManagerAssumption DEF After, Controllers
      <3>3. QED
        BY <3>1, <3>2
    <2>4. TheCloud!Refuse(h)
      BY <1>2, <1>4, <2>1, <2>2, <2>3, Named DEF TheCloud!Refuse
    <2>5. QED
      BY <1>0, <1>1, <1>4, <2>4, Answering
  <1>7. CASE FindFails(h)
    <2>1. /\ reply'[h] = [ok |-> FALSE] /\ request[h].cmd \in {"run", "kill"}
          /\ \A k \in Controllers : NameOf(k) # request[h].vm[1]
      BY <1>0, <1>7 DEF FindFails, Inv, MutexInv
    <2>2. request[h].vm \notin Vms
      BY <2>1 DEF Vms
    <2>3. TheCloud!Obey(h)
      BY <1>2, <1>4, <2>1, <2>2 DEF TheCloud!Obey
    <2>4. QED
      BY <1>0, <1>1, <1>4, <2>3, Answering
  <1>8. CASE ListEnds(h)
    <2>1. /\ reply'[h] = reply[h] /\ pc[h] = "list" /\ at[h] = N
          /\ request[h].cmd \in {"instances", "templates"}
          /\ \A k \in Controllers : k < N
      BY <1>0, <1>8, ManagerAssumption DEF ListEnds, Inv, MutexInv, Controllers
    <2>2. reply[h] = [all |-> reply[h].all] /\ before[h] \subseteq Vms
      BY <2>1 DEF CloudInv, Shown, Listing
    <2>3. CASE request[h].cmd = "templates"
      <3>1. reply[h].all = UNION {offers[k] : k \in {j \in Controllers : j < N}}
        BY <2>1, <2>3 DEF CloudInv, Shown, Listing
      <3>2. reply[h].all = UNION {offers[k] : k \in Controllers}
        BY <2>1, <3>1
      <3> DEFINE F == [n \in {NameOf(j) : j \in Controllers} |-> OffersOf(n)]
      <3>a. TheCloud!Names = {NameOf(k) : k \in Controllers}
        BY Named
      <3>b. \A k \in Controllers : F[NameOf(k)] = offers[k]
        BY Named
      <3> HIDE DEF F
      <3>c. {F[n] : n \in TheCloud!Names} = {offers[k] : k \in Controllers}
        BY <3>a, <3>b
      <3>3. UNION {F[n] : n \in TheCloud!Names} = reply[h].all
        BY <3>2, <3>c
      <3>4. TheCloud!ListTemplates(h)
        BY <1>2, <1>4, <2>1, <2>2, <2>3, <3>3 DEF TheCloud!ListTemplates, F
      <3>5. QED
        BY <1>0, <1>1, <1>4, <3>4, Answering
    <2>4. CASE request[h].cmd = "instances"
      <3>1. /\ reply[h].all \subseteq Vms
            /\ \A k \in Controllers, i \in VmIds :
                 <<NameOf(k), i>> \in before[h] => <<NameOf(k), i>> \in reply[h].all
        BY <2>1, <2>4 DEF CloudInv, Shown, Listing
      <3>2. before[h] \subseteq reply[h].all
        BY <2>2, <3>1 DEF Vms, All
      <3>a. [g \in Handlers |-> AnswerOf(g)]'
              = [[g \in Handlers |-> AnswerOf(g)] EXCEPT ![h] = [all |-> reply[h].all]]
        BY <1>4, <2>1, <2>2
      <3>3. TheCloud!List(h)
        BY <1>2, <2>4, <3>a, <3>1, <3>2 DEF TheCloud!List
      <3>4. QED
        BY <1>0, <1>1, <1>4, <3>3, Answering
    <2>5. QED
      BY <2>1, <2>3, <2>4
  <1>9. QED
    BY <1>5, <1>6, <1>7, <1>8

\* An instance more on a controller is one more in the cloud.
LEMMA OneMore ==
  ASSUME Inv, NEW k \in Controllers, NEW i \in VmIds, vms' = [vms EXCEPT ![k] = @ \cup {i}]
  PROVE  Vms' = Vms \cup {<<NameOf(k), i>>}
  <1>0. vms \in [Controllers -> SUBSET VmIds]
    BY DEF Inv, TypeOK
  <1>1. <<NameOf(k), i>> \in All
    BY DEF All
  <1>2. \A v \in All :
          (\E j \in Controllers : v[1] = NameOf(j) /\ v[2] \in vms'[j])
            <=> (\E j \in Controllers : v[1] = NameOf(j) /\ v[2] \in vms[j]) \/ v = <<NameOf(k), i>>
    BY <1>0, <1>1 DEF All
  <1>3. QED
    BY <1>1, <1>2 DEF Vms

\* A controller's answer: it shows that an instance was made, or what a client
\* is told of the one it named.
LEMMA ServeStep ==
  ASSUME CloudInv, NEW g \in Handlers, pc[g] \in Waiting, Serve(at[g])
  PROVE  TheCloud!Next \/ UNCHANGED TheCloud!cloud
  <1> DEFINE k == at[g]
  <1>0. /\ Inv /\ at[g] \in Controllers /\ vms \in [Controllers -> SUBSET VmIds] /\ mutex = g
        /\ request \in [Handlers -> Requests \cup {NoRequest}]
    BY OneAnswer DEF CloudInv, Inv, TypeOK
  <1>1. /\ calls[at[g]] # <<>> /\ ~HasAnswer(g) /\ HasAnswer(g)'
        /\ UNCHANGED <<pc, request, at, reply, offers, before>>
    BY <1>0, AnswerArrives DEF history
  <1>2. PICK r \in MayAnswer(at[g], Head(calls[at[g]])) :
          Got(g)' = r[1] /\ vms' = [vms EXCEPT ![at[g]] = r[2]]
    BY <1>0, AnswerArrives
  <1>3. Head(calls[at[g]]).op = OpOf(g)
    BY <1>1 DEF CloudInv, CallFits
  <1>4. ASSUME NEW h \in Handlers, h # g PROVE Bars(h)
    <2>1. pc[h] \notin {"create", "result"}
      BY <1>0, <1>4 DEF Inv, MutexInv, Holding, Waiting
    <2>2. QED
      BY <1>1, <2>1 DEF Bars, TurnOf, AnswerOf, Served
  <1>5. CASE pc[g] \in {"templates", "listed"}
    <2>1. OpOf(g) \in {"templates", "instances"}
      BY <1>0, <1>5 DEF OpOf, Inv, MutexInv
    <2>2. MayAnswer(at[g], Head(calls[at[g]]))
            \in {{<<offers[at[g]], vms[at[g]]>>}, {<<vms[at[g]], vms[at[g]]>>}}
      BY <1>3, <2>1 DEF MayAnswer
    <2>3. vms' = vms
      BY <1>0, <1>2, <2>2
    <2>4. Bars(g)
      BY <1>1, <1>5, StillAsked
    <2>5. Vms' = Vms
      BY <2>3 DEF Vms
    <2>6. QED
      BY <1>1, <1>4, <2>4, <2>5, Stutter
  <1>6. ASSUME pc[g] \in {"create", "result"}
        PROVE  TurnOf(g) = "asked" /\ TurnOf(g)' = "answered"
    BY <1>1, <1>6 DEF TurnOf, Served
  <1>7. CASE pc[g] = "create"
    <2>1. /\ request[g].cmd = "new" /\ request[g].templ \in offers[at[g]] /\ OpOf(g) = "new"
      BY <1>7 DEF CloudInv, Branch, Creating, OpOf
    <2>2. Served(g)' /\ pc'[g] = "create" /\ NameOf(at[g])' = NameOf(at[g])
      BY <1>1, <1>7 DEF Served, NameOf
    <2>3. AnswerOf(g)' = [vm |-> <<NameOf(at[g]), r[1]>>]
      BY <1>2, <2>2 DEF AnswerOf
    <2>4. [h \in Handlers |-> AnswerOf(h)]'
            = [[h \in Handlers |-> AnswerOf(h)] EXCEPT ![g] = [vm |-> <<NameOf(at[g]), r[1]>>]]
      BY <1>4, <2>3, OneTurn
    <2>5. NameOf(at[g]) \in TheCloud!Names
      BY <1>0, Named
    <2>6. request[g].templ
            \in [n \in {NameOf(j) : j \in Controllers} |-> OffersOf(n)][NameOf(at[g])]
      BY <1>0, <2>1, Named
    <2>7. MayAnswer(at[g], Head(calls[at[g]]))
            = {<<i, vms[at[g]] \cup {i}>> : i \in VmIds \ vms[at[g]]} \cup {<<NotMade, vms[at[g]]>>}
      BY <1>3, <2>1 DEF MayAnswer
    <2>8. CASE r = <<NotMade, vms[at[g]]>>
      <3>1. vms' = vms /\ r[1] = NotMade
        BY <1>0, <1>2, <2>8
      <3>2. Vms' = Vms
        BY <3>1 DEF Vms
      <3>3. TheCloud!Fail(g)
        BY <2>1, <2>4, <2>5, <2>6, <3>1, <3>2 DEF TheCloud!Fail
      <3>4. QED
        BY <1>1, <1>4, <1>6, <1>7, <3>3, Answering
    <2>9. CASE \E i \in VmIds \ vms[at[g]] : r = <<i, vms[at[g]] \cup {i}>>
      <3>1. PICK i \in VmIds \ vms[at[g]] : r = <<i, vms[at[g]] \cup {i}>>
        BY <2>9
      <3>2. vms' = [vms EXCEPT ![at[g]] = @ \cup {i}] /\ r[1] = i
        BY <1>0, <1>2, <3>1
      <3>3. Vms' = Vms \cup {<<NameOf(at[g]), i>>} /\ <<NameOf(at[g]), i>> \notin Vms
        BY <1>0, <3>1, <3>2, OneMore, InVms
      <3>4. TheCloud!Create(g)
        BY <2>1, <2>4, <2>5, <2>6, <3>1, <3>2, <3>3 DEF TheCloud!Create
      <3>5. QED
        BY <1>1, <1>4, <1>6, <1>7, <3>4, Answering
    <2>10. QED
      BY <1>2, <2>7, <2>8, <2>9
  <1>8. CASE pc[g] = "result"
    <2>1. /\ request[g].cmd \in {"run", "kill"} /\ OpOf(g) = request[g].cmd
          /\ NameOf(at[g]) = request[g].vm[1] /\ Head(calls[at[g]]).arg = request[g].vm[2]
      BY <1>1, <1>8 DEF CloudInv, Branch, CallFits, OpOf
    <2>2. Served(g)' /\ pc'[g] = "result"
      BY <1>1, <1>8 DEF Served
    <2>3. AnswerOf(g)' = [ok |-> r[1]]
      BY <1>2, <2>2 DEF AnswerOf
    <2>4. [h \in Handlers |-> AnswerOf(h)]'
            = [[h \in Handlers |-> AnswerOf(h)] EXCEPT ![g] = [ok |-> r[1]]]
      BY <1>4, <2>3, OneTurn
    <2>5. request[g].vm = <<NameOf(at[g]), request[g].vm[2]>>
      BY <1>0, <2>1, ManagerAssumption DEF NoRequest
    <2>6. request[g].vm \in Vms <=> request[g].vm[2] \in vms[at[g]]
      BY <1>0, <2>5, InVms
    <2>7. CASE request[g].cmd = "run"
      <3>1. MayAnswer(at[g], Head(calls[at[g]]))
              = {<<b, vms[at[g]]>> : b \in {FALSE, request[g].vm[2] \in vms[at[g]]}}
        BY <1>3, <2>1, <2>7, Zenon DEF MayAnswer
      <3>2. PICK b \in {FALSE, request[g].vm[2] \in vms[at[g]]} : r = <<b, vms[at[g]]>>
        BY <1>2, <3>1, Zenon
      <3>3. r[1] = b /\ vms' = vms
        BY <1>0, <1>2, <3>2
      <3>4. Vms' = Vms
        BY <3>3 DEF Vms
      <3>a. ASSUME request[g].vm[2] \notin vms[at[g]] PROVE b = FALSE
        <4>1. (request[g].vm[2] \in vms[at[g]]) = FALSE
          BY <3>a
        <4>2. QED
          BY <3>2, <4>1, Zenon
      <3>b. ASSUME request[g].vm[2] \in vms[at[g]] PROVE b \in BOOLEAN
        <4>1. (request[g].vm[2] \in vms[at[g]]) = TRUE
          BY <3>b
        <4>2. QED
          BY <3>2, <4>1
      <3>5. r[1] \in BOOLEAN /\ (r[1] => request[g].vm \in Vms)
        BY <2>6, <3>3, <3>a, <3>b
      <3>6. TheCloud!Obey(g)
        BY <2>1, <2>4, <2>7, <3>4, <3>5 DEF TheCloud!Obey
      <3>7. QED
        BY <1>1, <1>4, <1>6, <1>8, <3>6, Answering
    <2>8. CASE request[g].cmd = "kill"
      <3>1. MayAnswer(at[g], Head(calls[at[g]]))
              = {<<request[g].vm[2] \in vms[at[g]], vms[at[g]]>>}
        BY <1>3, <2>1, <2>8, Zenon DEF MayAnswer
      <3>2. r = <<request[g].vm[2] \in vms[at[g]], vms[at[g]]>>
        BY <1>2, <3>1, Zenon
      <3>3. r[1] = (request[g].vm[2] \in vms[at[g]]) /\ vms' = vms
        BY <1>0, <1>2, <3>2
      <3>4. Vms' = Vms
        BY <3>3 DEF Vms
      <3>a. ASSUME request[g].vm[2] \notin vms[at[g]] PROVE r[1] = FALSE
        <4>1. (request[g].vm[2] \in vms[at[g]]) = FALSE
          BY <3>a
        <4>2. QED
          BY <3>3, <4>1
      <3>b. ASSUME request[g].vm[2] \in vms[at[g]] PROVE r[1] = TRUE
        <4>1. (request[g].vm[2] \in vms[at[g]]) = TRUE
          BY <3>b
        <4>2. QED
          BY <3>3, <4>1
      <3>5. r[1] \in BOOLEAN /\ (r[1] <=> request[g].vm \in Vms)
        BY <2>6, <3>a, <3>b
      <3>6. TheCloud!Obey(g)
        BY <2>1, <2>4, <2>8, <3>4, <3>5 DEF TheCloud!Obey
      <3>7. QED
        BY <1>1, <1>4, <1>6, <1>8, <3>6, Answering
    <2>9. QED
      BY <2>1, <2>7, <2>8
  <1>9. QED
    BY <1>5, <1>7, <1>8 DEF Waiting

\* A client makes an instance on a controller without the manager.
LEMMA DirectStep ==
  ASSUME CloudInv, NEW k \in Controllers, Direct(k)
  PROVE  TheCloud!Next
  <1>0. Inv
    BY DEF CloudInv
  <1>1. PICK i \in VmIds \ vms[k] : vms' = [vms EXCEPT ![k] = @ \cup {i}]
    BY DEF Direct
  <1>2. Vms' = Vms \cup {<<NameOf(k), i>>}
    BY <1>0, <1>1, OneMore
  <1>3. UNCHANGED <<pc, request, at, reply, answers, offers, before>>
    BY DEF Direct, proxies, history
  <1>4. \A h \in Handlers : Bars(h)
    BY <1>3 DEF Bars, TurnOf, AnswerOf, Served, HasAnswer, Got
  <1>5. /\ UNCHANGED [h \in Handlers |-> TurnOf(h)] /\ UNCHANGED [h \in Handlers |-> AnswerOf(h)]
        /\ UNCHANGED [n \in {NameOf(j) : j \in Controllers} |-> OffersOf(n)]
    BY <1>3, <1>4 DEF Bars, OffersOf
  <1>6. NameOf(k) \in TheCloud!Names
    BY Named
  <1>7. TheCloud!Direct
    BY <1>2, <1>3, <1>5, <1>6 DEF TheCloud!Direct
  <1>8. QED
    BY <1>7 DEF TheCloud!Next

\* Every step is one of the cloud, or one that clients do not see.
LEMMA RefineStep == CloudInv /\ [Next]_vars => [TheCloud!Next]_(TheCloud!cloud)
  <1> SUFFICES ASSUME CloudInv, [Next]_vars PROVE TheCloud!Next \/ UNCHANGED TheCloud!cloud
    OBVIOUS
  <1>1. ASSUME NEW h \in Handlers, Handle(h)
        PROVE  TheCloud!Next \/ UNCHANGED TheCloud!cloud
    BY <1>1, HiddenStep, DecideStep, SendStep DEF Handle
  <1>2. ASSUME NEW h \in Handlers, NEW r \in Requests, Receive(h, r) PROVE TheCloud!Next
    BY <1>2, ReceiveStep
  <1>3. ASSUME NEW k \in Controllers, Serve(k)
        PROVE  TheCloud!Next \/ UNCHANGED TheCloud!cloud
    <2>1. PICK g \in Handlers : pc[g] \in Waiting /\ at[g] = k
      BY <1>3, HeadCall DEF Serve, CloudInv
    <2>2. QED
      BY <1>3, <2>1, ServeStep
  <1>4. ASSUME NEW k \in Controllers, Direct(k) PROVE TheCloud!Next
    BY <1>4, DirectStep
  <1>5. CASE UNCHANGED vars
    BY <1>5 DEF vars, TheCloud!cloud, TurnOf, AnswerOf, Served, HasAnswer, Got, Vms, OffersOf
  <1>6. QED
    BY <1>1, <1>2, <1>3, <1>4, <1>5 DEF Next

\* The cloud starts without instances and without requests.
LEMMA RefineInit == Init => TheCloud!Init
  <1> SUFFICES ASSUME Init PROVE TheCloud!Init
    OBVIOUS
  <1>1. \A h \in Handlers : pc[h] = "read"
    BY DEF Init
  <1>2. \A h \in Handlers : TurnOf(h) = "idle" /\ AnswerOf(h) = NoAnswer
    BY <1>1 DEF TurnOf, AnswerOf, Served
  <1>3. Vms = {}
    BY DEF Init, Vms
  <1>4. QED
    BY <1>2, <1>3 DEF TheCloud!Init

\* CloudCorrect: a manager with any number of handlers and controllers serves
\* each request as if the cloud had done it in one step between the request and
\* its answer: an instance is made at most once and under a new name, only a
\* template that no controller has is refused, run and kill reach the instance
\* that was named, and a listing misses nothing that existed before it.
THEOREM CloudCorrect == Spec => ImplementsCloud
  BY RefineInit, RefineStep, CloudInvariant, PTL DEF Spec, ImplementsCloud, TheCloud!Spec

-----------------------------------------------------------------------------
(* New instances *)

\* What find_echo finds goes wrong: a controller has answered that it created
\* nothing.
AllMade == \A h \in Handlers : pc[h] = "create" /\ HasAnswer(h) => Got(h) # NotMade

\* The answer to a creation is the id of an instance, or that there is none; and
\* what the client will read is an instance.
MadeHolds(h) == pc[h] = "create" /\ HasAnswer(h) => Got(h) \in {NotMade} \cup vms[at[h]]
Told(h)      == pc[h] = "send" /\ "vm" \in DOMAIN reply[h] => reply[h].vm \in Vms

\* A controller answers with an id that it has, and keeps it.
LEMMA MadeStep ==
  ASSUME CloudInv, [Next]_vars, NEW g \in Handlers, MadeHolds(g)
  PROVE  MadeHolds(g)'
  <1> USE DEF Goto, Waiting
  <1>0. /\ pc \in [Handlers -> {"read", "lock", "send"} \cup Holding] /\ Inv /\ CallFits(g)
        /\ vms \in [Controllers -> SUBSET VmIds]
    BY DEF CloudInv, Inv, TypeOK
  <1>1. CASE Lock(g) \/ Search(g) \/ Find(g) \/ List(g) \/ Listed(g)
    BY <1>0, <1>1 DEF Lock, Enter, Search, Find, List, Listed, MadeHolds
  <1>2. CASE Offered(g)
    <2>1. at' = at /\ at[g] \in Controllers /\ answers'[at[g]] = <<>>
      BY <1>0, <1>2, OneAnswer, TakeFlight DEF Offered
    <2>2. QED
      BY <2>1 DEF MadeHolds, HasAnswer
  <1>3. CASE pc[g] \in Waiting /\ Serve(at[g]) /\ pc[g] = "create"
    <2>1. PICK r \in MayAnswer(at[g], Head(calls[at[g]])) :
            Got(g)' = r[1] /\ vms' = [vms EXCEPT ![at[g]] = r[2]]
      BY <1>0, <1>3, AnswerArrives
    <2>2. Head(calls[at[g]]).op = "new" /\ at[g] \in Controllers /\ at' = at
      BY <1>0, <1>3, AnswerArrives, OneAnswer DEF CallFits, OpOf
    <2>3. MayAnswer(at[g], Head(calls[at[g]]))
            = {<<i, vms[at[g]] \cup {i}>> : i \in VmIds \ vms[at[g]]} \cup {<<NotMade, vms[at[g]]>>}
      BY <2>2 DEF MayAnswer
    <2>4. r[1] \in {NotMade} \cup r[2]
      BY <2>1, <2>3
    <2>5. vms'[at[g]] = r[2]
      BY <1>0, <2>1, <2>2
    <2>6. QED
      BY <2>1, <2>2, <2>4, <2>5 DEF MadeHolds
  <1>4. CASE pc[g] \in Waiting /\ Serve(at[g]) /\ pc[g] # "create"
    BY <1>0, <1>4, AnswerArrives DEF MadeHolds
  <1>5. CASE Still(g)
    <2>1. SUFFICES ASSUME pc[g] = "create", HasAnswer(g) PROVE MadeHolds(g)'
      BY <1>5 DEF Still, MadeHolds, HasAnswer
    <2>2. at[g] \in Controllers
      BY <1>0, <2>1, OneAnswer
    <2>3. vms[at[g]] \subseteq vms'[at[g]]
      BY <1>0, <2>2, Grow
    <2>4. QED
      BY <1>5, <2>1, <2>3 DEF Still, MadeHolds, Got
  <1>6. CASE pc'[g] \notin Holding
    BY <1>6 DEF Holding, MadeHolds
  <1>7. QED
    BY <1>0, <1>1, <1>2, <1>3, <1>4, <1>5, <1>6, Steps

\* The reply of a handler that did not step remains true.
LEMMA TellStays ==
  ASSUME Inv, [Next]_vars, NEW g \in Handlers, Told(g), pc'[g] = pc[g], reply'[g] = reply[g]
  PROVE  Told(g)'
  BY VmsGrow DEF Told

\* The handler of a creation tells of an instance, if there is one; the others
\* tell of none.
LEMMA TellStep ==
  ASSUME CloudInv, [Next]_vars, AllMade, NEW g \in Handlers, MadeHolds(g), Told(g)
  PROVE  Told(g)'
  <1> USE DEF Goto, Respond, Finish
  <1>0. /\ pc \in [Handlers -> {"read", "lock", "send"} \cup Holding] /\ Inv
        /\ reply = [h \in Handlers |-> reply[h]]
    BY DEF CloudInv, Inv, TypeOK
  <1>1. ASSUME NEW h \in Handlers, h # g, Handle(h) \/ \E r \in Requests : Receive(h, r)
        PROVE  pc'[g] = pc[g] /\ reply'[g] = reply[g]
    BY <1>0, <1>1 DEF Handle, Receive, Lock, Enter, Unknown, Search, SearchFails, Offered,
                      Created, Find, FindFails, Result, List, Listed, ListEnds, Send
  <1>2. CASE Created(g)
    <2>1. reply'[g] = [vm |-> <<NameOf(at[g]), Got(g)>>] /\ vms' = vms
      BY <1>0, <1>2 DEF Created
    <2>2. at[g] \in Controllers
      BY <1>0, <1>2, OneAnswer DEF Created, Waiting
    <2>3. Got(g) \in vms[at[g]]
      BY <1>2 DEF Created, AllMade, MadeHolds
    <2>4. <<NameOf(at[g]), Got(g)>> \in Vms
      BY <1>0, <2>2, <2>3, InVms
    <2>5. Vms' = Vms
      BY <2>1 DEF Vms
    <2>6. QED
      BY <2>1, <2>4, <2>5 DEF Told
  <1>3. CASE SearchFails(g) \/ FindFails(g) \/ Result(g) \/ Unknown(g)
    <2>1. "vm" \notin DOMAIN reply'[g]
      BY <1>0, <1>3 DEF SearchFails, FindFails, Result, Unknown
    <2>2. QED
      BY <2>1 DEF Told
  <1>4. CASE ListEnds(g)
    <2>1. reply[g] = [all |-> reply[g].all]
      BY <1>4 DEF CloudInv, Shown, Listing, ListEnds
    <2>2. "vm" \notin DOMAIN reply[g]
      BY <2>1
    <2>3. reply'[g] = reply[g]
      BY <1>0, <1>4 DEF ListEnds
    <2>4. QED
      BY <2>2, <2>3 DEF Told
  <1>5. CASE Lock(g) \/ Search(g) \/ Offered(g) \/ Find(g) \/ List(g) \/ Listed(g) \/ Send(g)
             \/ \E r \in Requests : Receive(g, r)
    <2>1. pc'[g] # "send"
      BY <1>0, <1>5 DEF Lock, Enter, Search, Offered, Find, List, Listed, Send, Receive
    <2>2. QED
      BY <2>1 DEF Told
  <1>6. ASSUME NEW k \in Controllers, Serve(k) \/ Direct(k)
        PROVE  pc'[g] = pc[g] /\ reply'[g] = reply[g]
    BY <1>6 DEF Serve, Direct
  <1>7. CASE UNCHANGED vars
    BY <1>0, <1>7, TellStays DEF vars
  <1>8. ASSUME NEW h \in Handlers, h # g, Handle(h) \/ \E r \in Requests : Receive(h, r)
        PROVE  Told(g)'
    BY <1>0, <1>1, <1>8, TellStays
  <1>9. ASSUME NEW k \in Controllers, Serve(k) \/ Direct(k)
        PROVE  Told(g)'
    BY <1>0, <1>6, <1>9, TellStays
  <1>10. QED
    BY <1>2, <1>3, <1>4, <1>5, <1>7, <1>8, <1>9 DEF Next, Handle

\* AllMadeTold: find_echo is the only way to tell a client of an instance that
\* there is not.  For any number of handlers, controllers and clients that use a
\* controller without the manager, as long as no controller fails to create, the
\* id that is told names an instance.
THEOREM AllMadeTold == Spec /\ []AllMade => []ToldExists
  <1> DEFINE MadeInv == CloudInv /\ \A h \in Handlers : MadeHolds(h) /\ Told(h)
  <1>1. Init => MadeInv
    BY CloudInit DEF Init, MadeHolds, Told
  <1>2. MadeInv /\ AllMade /\ [Next]_vars => MadeInv'
    BY CloudStep, MadeStep, TellStep
  <1>3. MadeInv => ToldExists
    BY DEF Told, ToldExists
  <1> HIDE DEF MadeInv
  <1>4. QED
    BY <1>1, <1>2, <1>3, PTL DEF Spec
=============================================================================
