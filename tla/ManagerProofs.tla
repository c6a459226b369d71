--------------------------- MODULE ManagerProofs ----------------------------
(***************************************************************************)
(* Proofs about Manager, for any number of handlers, controllers and       *)
(* requests: its types, and that a handler only takes answers to its own   *)
(* calls.                                                                  *)
(***************************************************************************)
EXTENDS Manager, TLAPS

Ops == {"templates", "instances", "new", "run", "kill"}

\* The handler in a branch that talks to controllers is the one with the mutex,
\* and the branch is that of its command.
MutexInv ==
  /\ \A h \in Handlers : pc[h] \in Holding <=> mutex = h
  /\ \A h \in Handlers :
       /\ pc[h] = "lock" => request[h].cmd \in Commands
       /\ pc[h] = "find" => request[h].cmd \in {"run", "kill"}
       /\ pc[h] \in {"list", "listed"} => request[h].cmd \in {"instances", "templates"}

\* Nothing is on the way to or from controller k.
Quiet(k) == calls[k] = <<>> /\ answers[k] = <<>>

\* A call of h to controller k, or its answer, is on the way, and nothing else.
Asked(k, h)    == /\ answers[k] = <<>>
                  /\ \E c : calls[k] = <<c>> /\ c.by = h /\ c.op \in Ops
Answered(k, h) == calls[k] = <<>> /\ \E a : answers[k] = <<a>> /\ a.by = h

\* Only the handler with the mutex has a call in progress, and only one.
FlightInv ==
  /\ DOMAIN calls = Controllers /\ DOMAIN answers = Controllers
  /\ \A h \in Handlers : pc[h] \in Waiting => at[h] \in Controllers
  /\ \A k \in Controllers :
       \/ Quiet(k)
       \/ \E h \in Handlers : /\ mutex = h /\ pc[h] \in Waiting /\ at[h] = k
                              /\ Asked(k, h) \/ Answered(k, h)

Inv == TypeOK /\ MutexInv /\ FlightInv

\* A queue with one element: facts about sequences that the steps use.
LEMMA OneElement ==
  ASSUME NEW c
  PROVE  /\ Append(<<>>, c) = <<c>> /\ <<c>> # <<>>
         /\ Head(<<c>>) = c /\ Tail(<<c>>) = <<>>
  OBVIOUS

\* The invariant holds when the manager has started.
LEMMA InvInit == Init => Inv
  BY ManagerAssumption
  DEF Init, Inv, TypeOK, MutexInv, FlightInv, Quiet, Controllers, NoRequest,
      Waiting, Holding, Vms, All

-----------------------------------------------------------------------------
\* A handler that holds the mutex and waits for nothing finds all proxies quiet.
LEMMA AllQuiet ==
  ASSUME Inv, NEW h \in Handlers, pc[h] \in Holding, pc[h] \notin Waiting
  PROVE  mutex = h /\ \A k \in Controllers : Quiet(k)
  BY DEF Inv, MutexInv, FlightInv

\* A handler that waits has the only call; its answer is the only one, and its own.
LEMMA OneAnswer ==
  ASSUME Inv, NEW h \in Handlers, pc[h] \in Waiting
  PROVE  /\ mutex = h /\ at[h] \in Controllers
         /\ \A k \in Controllers : k # at[h] => Quiet(k)
         /\ HasAnswer(h) => Answered(at[h], h)
  <1>1. mutex = h /\ at[h] \in Controllers
    BY DEF Inv, MutexInv, FlightInv, Holding
  <1>2. \A k \in Controllers : k # at[h] => Quiet(k)
    BY <1>1 DEF Inv, FlightInv
  <1>3. HasAnswer(h) => Answered(at[h], h)
    BY <1>1 DEF Inv, FlightInv, HasAnswer, Quiet, Asked
  <1>4. QED
    BY <1>1, <1>2, <1>3

\* A call goes out while all proxies are quiet.
LEMMA AskFlight ==
  ASSUME NEW h \in Handlers, NEW k \in Controllers, NEW op \in Ops, NEW arg,
         DOMAIN calls = Controllers, DOMAIN answers = Controllers,
         DOMAIN answers' = Controllers, \A j \in Controllers : answers'[j] = <<>>,
         \A j \in Controllers : calls[j] = <<>>,
         Ask(h, k, op, arg), mutex' = h, pc'[h] \in Waiting, at'[h] = k,
         \A g \in Handlers : g # h => pc'[g] \notin Waiting
  PROVE  FlightInv'
  <1> DEFINE c == [by |-> h, op |-> op, arg |-> arg]
  <1>1. calls' = [calls EXCEPT ![k] = Append(@, c)]
    BY DEF Ask
  <1>2. calls'[k] = <<c>>
    BY <1>1, OneElement
  <1>3. \A j \in Controllers : j # k => calls'[j] = <<>>
    BY <1>1
  <1>4. c.by = h /\ c.op \in Ops
    OBVIOUS
  <1>5. Asked(k, h)'
    BY <1>2, <1>4 DEF Asked
  <1>6. DOMAIN calls' = Controllers
    BY <1>1
  <1>7. QED
    BY <1>3, <1>5, <1>6 DEF FlightInv, Quiet

\* A handler takes its answer, and no call goes out.
LEMMA TakeFlight ==
  ASSUME Inv, NEW h \in Handlers, pc[h] \in Waiting, HasAnswer(h), TakeAnswer(h)
  PROVE  /\ DOMAIN answers' = Controllers
         /\ \A k \in Controllers : answers'[k] = <<>> /\ calls[k] = <<>>
  <1>1. /\ at[h] \in Controllers /\ Answered(at[h], h)
        /\ \A k \in Controllers : k # at[h] => Quiet(k)
    BY OneAnswer
  <1>2. PICK a : answers[at[h]] = <<a>>
    BY <1>1 DEF Answered
  <1>3. Tail(answers[at[h]]) = <<>>
    BY <1>2, OneElement
  <1>4. DOMAIN answers = Controllers
    BY DEF Inv, FlightInv
  <1>5. QED
    BY <1>1, <1>3, <1>4 DEF TakeAnswer, Quiet, Answered

\* While no handler waits, quiet proxies are all that FlightInv asks for.
LEMMA QuietFlight ==
  ASSUME DOMAIN calls' = Controllers, DOMAIN answers' = Controllers,
         \A k \in Controllers : Quiet(k)',
         \A h \in Handlers : pc'[h] \notin Waiting
  PROVE  FlightInv'
  BY DEF FlightInv

-----------------------------------------------------------------------------
\* An index that advances stays in the list.
LEMMA AdvanceType ==
  ASSUME NEW k \in Controllers
  PROVE  Advance(k) \in Controllers
  BY ManagerAssumption DEF Advance, Controllers

\* What a controller makes of its instances are instances.
LEMMA ServeType ==
  ASSUME NEW k \in Controllers, vms \in [Controllers -> SUBSET VmIds],
         NEW c, c.op \in Ops, NEW r \in MayAnswer(k, c)
  PROVE  r[2] \in SUBSET VmIds
  <1>1. vms[k] \in SUBSET VmIds
    OBVIOUS
  <1>2. CASE c.op = "templates"
    BY <1>1, <1>2 DEF MayAnswer
  <1>3. CASE c.op = "instances"
    BY <1>1, <1>3 DEF MayAnswer
  <1>4. CASE c.op = "new"
    BY <1>1, <1>4 DEF MayAnswer
  <1>5. CASE c.op = "run"
    <2>1. MayAnswer(k, c) = {<<b, vms[k]>> : b \in {FALSE, c.arg \in vms[k]}}
      BY <1>5, Zenon DEF MayAnswer
    <2>2. PICK b : r = <<b, vms[k]>>
      BY <2>1, Zenon
    <2>3. QED
      BY <1>1, <2>2
  <1>6. CASE c.op = "kill"
    BY <1>1, <1>6 DEF MayAnswer
  <1>7. QED
    BY <1>2, <1>3, <1>4, <1>5, <1>6 DEF Ops

\* A call that a controller has not answered yet is one that Asked describes.
LEMMA HeadCall ==
  ASSUME Inv, NEW k \in Controllers, calls[k] # <<>>
  PROVE  /\ \E h \in Handlers : /\ mutex = h /\ pc[h] \in Waiting /\ at[h] = k
                                /\ Head(calls[k]).by = h
         /\ answers[k] = <<>> /\ Tail(calls[k]) = <<>> /\ Head(calls[k]).op \in Ops
  <1>1. PICK h \in Handlers : mutex = h /\ pc[h] \in Waiting /\ at[h] = k /\ Asked(k, h)
    BY DEF Inv, FlightInv, Quiet, Answered
  <1>2. PICK c : calls[k] = <<c>> /\ c.by = h /\ c.op \in Ops
    BY <1>1 DEF Asked
  <1>3. Head(calls[k]) = c /\ Tail(calls[k]) = <<>>
    BY <1>2, OneElement
  <1>4. QED
    BY <1>1, <1>2, <1>3 DEF Asked

\* Every step keeps the types.
LEMMA TypeStep == Inv /\ [Next]_vars => TypeOK'
  <1> SUFFICES ASSUME Inv, [Next]_vars PROVE TypeOK'
    OBVIOUS
  <1> USE ManagerAssumption
  <1> USE DEF Inv, TypeOK, Holding, Waiting, Goto, Respond, Finish, history, proxies
  <1>1. ASSUME NEW h \in Handlers, NEW r \in Requests, Receive(h, r) PROVE TypeOK'
    <2>1. Vms \in SUBSET All
      BY DEF Vms
    <2>2. QED
      BY <1>1, <2>1 DEF Receive
  <1>2. ASSUME NEW h \in Handlers, Lock(h) PROVE TypeOK'
    BY <1>2 DEF Lock, Known, Enter
  <1>3. ASSUME NEW h \in Handlers, Unknown(h) PROVE TypeOK'
    BY <1>3 DEF Unknown
  <1>4. ASSUME NEW h \in Handlers, Search(h) PROVE TypeOK'
    <2>1. nextController' \in Controllers
      BY <1>4, AdvanceType DEF Search
    <2>2. tries'[h] \in 0 .. N
      BY <1>4 DEF Search
    <2>3. at'[h] \in 0 .. N /\ \A g \in Handlers : g # h => at'[g] = at[g]
      BY <1>4, <2>1 DEF Search, Controllers
    <2>4. tries' \in [Handlers -> 0 .. N] /\ at' \in [Handlers -> 0 .. N]
      BY <1>4, <2>2, <2>3 DEF Search
    <2>5. pc' \in [Handlers -> {"read", "lock", "send"} \cup Holding]
      BY <1>4 DEF Search
    <2>6. QED
      BY <1>4, <2>1, <2>4, <2>5 DEF Search
  <1>5. ASSUME NEW h \in Handlers, SearchFails(h) PROVE TypeOK'
    BY <1>5 DEF SearchFails
  <1>6. ASSUME NEW h \in Handlers, Offered(h) PROVE TypeOK'
    <2>1. at[h] \in Controllers
      BY <1>6, OneAnswer DEF Offered
    <2>2. sent' \in [Controllers -> Nat]
      BY <1>6, <2>1 DEF Offered
    <2>3. QED
      BY <1>6, <2>2 DEF Offered
  <1>7. ASSUME NEW h \in Handlers, Created(h) PROVE TypeOK'
    BY <1>7 DEF Created
  <1>8. ASSUME NEW h \in Handlers, Find(h) PROVE TypeOK'
    BY <1>8 DEF Find, Controllers
  <1>9. ASSUME NEW h \in Handlers, FindFails(h) PROVE TypeOK'
    BY <1>9 DEF FindFails
  <1>10. ASSUME NEW h \in Handlers, Result(h) PROVE TypeOK'
    BY <1>10 DEF Result
  <1>11. ASSUME NEW h \in Handlers, List(h) PROVE TypeOK'
    BY <1>11 DEF List
  <1>12. ASSUME NEW h \in Handlers, Listed(h) PROVE TypeOK'
    <2>1. at[h] \in Controllers
      BY <1>12, OneAnswer DEF Listed
    <2>2. at'[h] \in 0 .. N
      BY <1>12, <2>1 DEF Listed, Controllers
    <2>3. QED
      BY <1>12, <2>2 DEF Listed
  <1>13. ASSUME NEW h \in Handlers, ListEnds(h) PROVE TypeOK'
    BY <1>13 DEF ListEnds
  <1>14. ASSUME NEW h \in Handlers, Send(h) PROVE TypeOK'
    BY <1>14 DEF Send
  <1>15. ASSUME NEW k \in Controllers, Serve(k) PROVE TypeOK'
    <2>1. Head(calls[k]).op \in Ops
      BY <1>15, HeadCall DEF Serve
    <2>2. PICK r \in MayAnswer(k, Head(calls[k])) : vms' = [vms EXCEPT ![k] = r[2]]
      BY <1>15 DEF Serve
    <2>3. vms' \in [Controllers -> SUBSET VmIds]
      BY <2>1, <2>2, ServeType
    <2>4. QED
      BY <1>15, <2>3 DEF Serve
  <1>16. ASSUME NEW k \in Controllers, Direct(k) PROVE TypeOK'
    BY <1>16 DEF Direct
  <1>17. ASSUME UNCHANGED vars PROVE TypeOK'
    BY <1>17 DEF vars
  <1>18. QED
    BY <1>1, <1>2, <1>3, <1>4, <1>5, <1>6, <1>7, <1>8, <1>9, <1>10, <1>11, <1>12,
       <1>13, <1>14, <1>15, <1>16, <1>17 DEF Next, Handle

-----------------------------------------------------------------------------
\* Every step keeps the mutex with the handler whose branch it is.
LEMMA MutexStep == Inv /\ [Next]_vars => MutexInv'
  <1> SUFFICES ASSUME Inv, [Next]_vars PROVE MutexInv'
    OBVIOUS
  <1> USE ManagerAssumption
  <1> USE DEF Inv, TypeOK, MutexInv, Holding, Waiting, Goto, Respond, Finish, history, proxies
  <1>1. ASSUME NEW h \in Handlers, NEW r \in Requests, Receive(h, r) PROVE MutexInv'
    BY <1>1 DEF Receive
  <1>2. ASSUME NEW h \in Handlers, Lock(h) PROVE MutexInv'
    <2>1. /\ pc[h] = "lock" /\ mutex = Nobody /\ mutex' = h /\ UNCHANGED request
          /\ request[h].cmd \in Commands \ {"other"}
      BY <1>2 DEF Lock, Known, Enter
    <2>2. pc' = [pc EXCEPT ![h] =
                   CASE request[h].cmd = "new" -> "search"
                     [] request[h].cmd \in {"run", "kill"} -> "find"
                     [] OTHER -> "list"]
      BY <1>2 DEF Lock, Enter
    <2>3. CASE request[h].cmd = "new"
      <3>1. pc' = [pc EXCEPT ![h] = "search"]
        BY <2>2, <2>3
      <3>2. QED
        BY <2>1, <3>1
    <2>4. CASE request[h].cmd \in {"run", "kill"}
      <3>1. pc' = [pc EXCEPT ![h] = "find"]
        BY <2>2, <2>4
      <3>2. QED
        BY <2>1, <2>4, <3>1
    <2>5. CASE request[h].cmd \in {"instances", "templates"}
      <3>1. pc' = [pc EXCEPT ![h] = "list"]
        BY <2>2, <2>5
      <3>2. QED
        BY <2>1, <2>5, <3>1
    <2>6. QED
      BY <2>1, <2>3, <2>4, <2>5 DEF Commands
  <1>3. ASSUME NEW h \in Handlers, Unknown(h) PROVE MutexInv'
    BY <1>3 DEF Unknown
  <1>4. ASSUME NEW h \in Handlers, Search(h) PROVE MutexInv'
    BY <1>4 DEF Search
  <1>5. ASSUME NEW h \in Handlers, SearchFails(h) PROVE MutexInv'
    BY <1>5 DEF SearchFails
  <1>6. ASSUME NEW h \in Handlers, Offered(h) PROVE MutexInv'
    BY <1>6 DEF Offered
  <1>7. ASSUME NEW h \in Handlers, Created(h) PROVE MutexInv'
    BY <1>7 DEF Created
  <1>8. ASSUME NEW h \in Handlers, Find(h) PROVE MutexInv'
    BY <1>8 DEF Find
  <1>9. ASSUME NEW h \in Handlers, FindFails(h) PROVE MutexInv'
    BY <1>9 DEF FindFails
  <1>10. ASSUME NEW h \in Handlers, Result(h) PROVE MutexInv'
    BY <1>10 DEF Result
  <1>11. ASSUME NEW h \in Handlers, List(h) PROVE MutexInv'
    BY <1>11 DEF List
  <1>12. ASSUME NEW h \in Handlers, Listed(h) PROVE MutexInv'
    <2>1. pc' = [pc EXCEPT ![h] = "list"] /\ UNCHANGED <<mutex, request>>
      BY <1>12 DEF Listed
    <2>2. QED
      BY <1>12, <2>1 DEF Listed
  <1>13. ASSUME NEW h \in Handlers, ListEnds(h) PROVE MutexInv'
    BY <1>13 DEF ListEnds
  <1>14. ASSUME NEW h \in Handlers, Send(h) PROVE MutexInv'
    BY <1>14 DEF Send
  <1>15. ASSUME NEW k \in Controllers, Serve(k) PROVE MutexInv'
    BY <1>15 DEF Serve
  <1>16. ASSUME NEW k \in Controllers, Direct(k) PROVE MutexInv'
    BY <1>16 DEF Direct
  <1>17. ASSUME UNCHANGED vars PROVE MutexInv'
    BY <1>17 DEF vars
  <1>18. QED
    BY <1>1, <1>2, <1>3, <1>4, <1>5, <1>6, <1>7, <1>8, <1>9, <1>10, <1>11, <1>12,
       <1>13, <1>14, <1>15, <1>16, <1>17 DEF Next, Handle

-----------------------------------------------------------------------------
\* Every step keeps to one call at a time, that of the handler with the mutex.
LEMMA FlightStep == Inv /\ [Next]_vars => FlightInv'
  <1> SUFFICES ASSUME Inv, [Next]_vars PROVE FlightInv'
    OBVIOUS
  <1> USE DEF Goto, Respond, Finish, history, proxies
  <1>a. /\ DOMAIN calls = Controllers /\ DOMAIN answers = Controllers
        /\ pc \in [Handlers -> {"read", "lock", "send"} \cup Holding]
        /\ at \in [Handlers -> 0 .. N] /\ nextController \in Controllers
    BY DEF Inv, FlightInv, TypeOK
  \* The handler neither waits nor begins to, and touches no proxy.
  <1>b. ASSUME NEW h \in Handlers, pc[h] \notin Waiting, pc'[h] \notin Waiting,
               \A g \in Handlers : g # h => pc'[g] = pc[g] /\ at'[g] = at[g],
               mutex' = mutex \/ mutex \in {h, Nobody}, UNCHANGED proxies
        PROVE  FlightInv'
    BY <1>b, ManagerAssumption DEF Inv, FlightInv, Quiet, Asked, Answered
  \* The handler holds the mutex and asks controller k.
  <1>c. ASSUME NEW h \in Handlers, NEW k \in Controllers, NEW op \in Ops,
               pc[h] \in Holding, pc[h] \notin Waiting,
               Ask(h, k, op, NotMade) \/ Ask(h, k, op, request[h].vm[2]),
               pc'[h] \in Waiting, at'[h] = k, UNCHANGED <<mutex, answers>>,
               \A g \in Handlers : g # h => pc'[g] = pc[g]
        PROVE  FlightInv'
    <2>1. mutex = h /\ \A j \in Controllers : Quiet(j)
      BY <1>c, AllQuiet
    <2>2. \A g \in Handlers : g # h => pc[g] \notin Holding
      BY <2>1 DEF Inv, MutexInv
    <2>3. QED
      BY <1>a, <1>c, <2>1, <2>2, AskFlight DEF Quiet, Holding
  \* The handler takes its answer and waits no more.
  <1>d. ASSUME NEW h \in Handlers, pc[h] \in Waiting, HasAnswer(h), TakeAnswer(h),
               pc'[h] \notin Waiting, UNCHANGED calls,
               \A g \in Handlers : g # h => pc'[g] = pc[g]
        PROVE  FlightInv'
    <2>1. DOMAIN answers' = Controllers /\ \A k \in Controllers : Quiet(k)'
      BY <1>d, TakeFlight DEF Quiet
    <2>2. \A g \in Handlers : g # h => pc[g] \notin Waiting
      BY <1>d, OneAnswer DEF Inv, MutexInv, Holding
    <2>3. QED
      BY <1>a, <1>d, <2>1, <2>2, QuietFlight
  <1>1. ASSUME NEW h \in Handlers, NEW r \in Requests, Receive(h, r) PROVE FlightInv'
    BY <1>1, <1>a, <1>b DEF Receive, Waiting
  <1>2. ASSUME NEW h \in Handlers, Lock(h) PROVE FlightInv'
    BY <1>2, <1>a, <1>b DEF Lock, Known, Enter, Waiting
  <1>3. ASSUME NEW h \in Handlers, Unknown(h) PROVE FlightInv'
    BY <1>3, <1>a, <1>b DEF Unknown, Waiting
  <1>4. ASSUME NEW h \in Handlers, Search(h) PROVE FlightInv'
    <2>1. nextController' \in Controllers
      BY <1>4, <1>a, AdvanceType DEF Search
    <2>2. at'[h] = nextController' /\ pc' = [pc EXCEPT ![h] = "templates"]
      BY <1>4, <1>a DEF Search
    <2>3. QED
      BY <1>4, <1>a, <2>1, <2>2, <1>c DEF Search, Waiting, Holding, Ops
  <1>5. ASSUME NEW h \in Handlers, SearchFails(h) PROVE FlightInv'
    <2>1. mutex = h
      BY <1>5, AllQuiet DEF SearchFails, Holding, Waiting
    <2>2. QED
      BY <1>5, <1>a, <1>b, <2>1 DEF SearchFails, Waiting
  <1>6. ASSUME NEW h \in Handlers, Offered(h) PROVE FlightInv'
    <2>1. pc[h] \in Waiting /\ HasAnswer(h) /\ TakeAnswer(h)
      BY <1>6 DEF Offered, Waiting
    <2>2. CASE request[h].templ \in Got(h)
      <3>1. /\ mutex = h /\ at[h] \in Controllers
            /\ \A g \in Handlers : g # h => pc[g] \notin Waiting
        BY <2>1, OneAnswer DEF Inv, MutexInv, Holding
      <3>2. /\ DOMAIN answers' = Controllers
            /\ \A k \in Controllers : answers'[k] = <<>> /\ calls[k] = <<>>
        BY <2>1, TakeFlight
      <3>3. /\ Ask(h, at[h], "new", NotMade) /\ UNCHANGED <<mutex, at>>
            /\ pc' = [pc EXCEPT ![h] = "create"]
        BY <1>6, <2>2 DEF Offered
      <3>4. QED
        BY <1>a, <3>1, <3>2, <3>3, AskFlight DEF Waiting, Ops
    <2>3. CASE request[h].templ \notin Got(h)
      BY <1>6, <1>a, <1>d, <2>1, <2>3 DEF Offered, Waiting
    <2>4. QED
      BY <2>2, <2>3
  <1>7. ASSUME NEW h \in Handlers, Created(h) PROVE FlightInv'
    BY <1>7, <1>a, <1>d DEF Created, Waiting
  <1>8. ASSUME NEW h \in Handlers, Find(h) PROVE FlightInv'
    <2>1. PICK k \in Controllers : /\ at' = [at EXCEPT ![h] = k]
                                   /\ Ask(h, k, request[h].cmd, request[h].vm[2])
      BY <1>8 DEF Find
    <2>2. request[h].cmd \in Ops
      BY <1>8 DEF Find, Inv, MutexInv, Ops
    <2>3. QED
      BY <1>8, <1>a, <1>c, <2>1, <2>2 DEF Find, Waiting, Holding
  <1>9. ASSUME NEW h \in Handlers, FindFails(h) PROVE FlightInv'
    <2>1. mutex = h
      BY <1>9, AllQuiet DEF FindFails, Holding, Waiting
    <2>2. QED
      BY <1>9, <1>a, <1>b, <2>1 DEF FindFails, Waiting
  <1>10. ASSUME NEW h \in Handlers, Result(h) PROVE FlightInv'
    BY <1>10, <1>a, <1>d DEF Result, Waiting
  <1>11. ASSUME NEW h \in Handlers, List(h) PROVE FlightInv'
    <2>1. request[h].cmd \in Ops /\ at[h] \in Controllers
      BY <1>11, <1>a, ManagerAssumption DEF List, Inv, MutexInv, Ops, Controllers
    <2>2. QED
      BY <1>11, <1>a, <1>c, <2>1 DEF List, Waiting, Holding
  <1>12. ASSUME NEW h \in Handlers, Listed(h) PROVE FlightInv'
    BY <1>12, <1>a, <1>d DEF Listed, Waiting
  <1>13. ASSUME NEW h \in Handlers, ListEnds(h) PROVE FlightInv'
    <2>1. mutex = h
      BY <1>13, AllQuiet DEF ListEnds, Holding, Waiting
    <2>2. QED
      BY <1>13, <1>a, <1>b, <2>1 DEF ListEnds, Waiting
  <1>14. ASSUME NEW h \in Handlers, Send(h) PROVE FlightInv'
    BY <1>14, <1>a, <1>b DEF Send, Waiting
  <1>15. ASSUME NEW k \in Controllers, Serve(k) PROVE FlightInv'
    <2>1. PICK h \in Handlers : /\ mutex = h /\ pc[h] \in Waiting /\ at[h] = k
                                /\ Head(calls[k]).by = h
      BY <1>15, HeadCall DEF Serve
    <2>2. answers[k] = <<>> /\ Tail(calls[k]) = <<>>
      BY <1>15, HeadCall DEF Serve
    <2>3. PICK v : answers' = [answers EXCEPT ![k] = Append(@, [by |-> h, value |-> v])]
      BY <1>15, <2>1 DEF Serve
    <2>4. answers'[k] = <<[by |-> h, value |-> v]>> /\ calls'[k] = <<>>
      BY <1>15, <1>a, <2>2, <2>3, OneElement DEF Serve
    <2>5. Answered(k, h)'
      BY <2>4 DEF Answered
    <2>6. /\ DOMAIN calls' = Controllers /\ DOMAIN answers' = Controllers
          /\ UNCHANGED <<pc, at, mutex>>
      BY <1>15, <1>a, <2>3 DEF Serve
    <2>7. \A j \in Controllers : j # k => Quiet(j)'
      BY <1>15, <1>a, <2>1, <2>3, OneAnswer DEF Serve, Quiet
    <2>8. QED
      BY <2>1, <2>5, <2>6, <2>7 DEF Inv, FlightInv
  <1>16. ASSUME NEW k \in Controllers, Direct(k) PROVE FlightInv'
    BY <1>16 DEF Direct, Inv, FlightInv, Quiet, Asked, Answered
  <1>17. ASSUME UNCHANGED vars PROVE FlightInv'
    BY <1>17 DEF vars, Inv, FlightInv, Quiet, Asked, Answered
  <1>18. QED
    BY <1>1, <1>2, <1>3, <1>4, <1>5, <1>6, <1>7, <1>8, <1>9, <1>10, <1>11, <1>12,
       <1>13, <1>14, <1>15, <1>16, <1>17 DEF Next, Handle

\* The three parts together are inductive.
LEMMA Invariant == Spec => []Inv
  <1>1. Inv /\ [Next]_vars => Inv'
    BY TypeStep, MutexStep, FlightStep DEF Inv
  <1>2. QED
    BY InvInit, <1>1, PTL DEF Spec

\* TypeCorrect: every reachable state has the types of TypeOK; nextController
\* and every index of a handler stay inside the list of controllers.
THEOREM TypeCorrect == Spec => []TypeOK
  <1>1. Inv => TypeOK
    BY DEF Inv
  <1>2. QED
    BY Invariant, <1>1, PTL

\* PairedCallsCorrect: for any number of handlers and controllers, a handler
\* never finds another handler's answer on a connection that they share.
THEOREM PairedCallsCorrect == Spec => []PairedCalls
  <1>1. Inv => PairedCalls
    <2> SUFFICES ASSUME Inv, NEW h \in Handlers, pc[h] \in Waiting, HasAnswer(h)
                 PROVE  Head(answers[at[h]]).by = h
      BY DEF PairedCalls
    <2>1. PICK a : answers[at[h]] = <<a>> /\ a.by = h
      BY OneAnswer DEF Answered
    <2>2. QED
      BY <2>1, OneElement
  <1>2. QED
    BY Invariant, <1>1, PTL


-----------------------------------------------------------------------------
(* The handler with the mutex goes on *)

\* Who waits has something on the connection that it reads.
Awaited == \A h \in Handlers : pc[h] \in Waiting => ~Quiet(at[h])

\* A step of one handler keeps this for the others, of which none waits.
LEMMA OneWaits ==
  ASSUME Inv, NEW h \in Handlers, pc[h] \in Holding,
         \A g \in Handlers : g # h => pc'[g] = pc[g],
         pc'[h] \in Waiting => ~Quiet(at[h])'
  PROVE  Awaited'
  <1>1. \A g \in Handlers : g # h => pc[g] \notin Waiting
    BY DEF Inv, MutexInv, Holding
  <1>2. QED
    BY <1>1 DEF Awaited

\* A handler asks, so that a call is on the connection that it will read.
LEMMA AskAwaited ==
  ASSUME NEW h, NEW k \in Controllers, NEW op, NEW arg, DOMAIN calls = Controllers,
         calls[k] = <<>>, Ask(h, k, op, arg), at'[h] = k
  PROVE  ~Quiet(at[h])'
  <1> DEFINE c == [by |-> h, op |-> op, arg |-> arg]
  <1>1. calls' = [calls EXCEPT ![k] = Append(@, c)]
    BY DEF Ask
  <1>2. calls'[k] = <<c>>
    BY <1>1, OneElement
  <1>3. QED
    BY <1>2, OneElement DEF Quiet

\* Every step leaves each waiting handler a call or an answer.
LEMMA AwaitedStep == Inv /\ Awaited /\ [Next]_vars => Awaited'
  <1> SUFFICES ASSUME Inv, Awaited, [Next]_vars PROVE Awaited'
    OBVIOUS
  <1> USE DEF Goto, Respond, Finish, history, proxies
  <1>a. /\ DOMAIN calls = Controllers /\ DOMAIN answers = Controllers
        /\ pc \in [Handlers -> {"read", "lock", "send"} \cup Holding]
        /\ at \in [Handlers -> 0 .. N] /\ nextController \in Controllers
    BY DEF Inv, FlightInv, TypeOK
  \* The handler does not begin to wait, and no proxy that is read changes.
  <1>b. ASSUME NEW h \in Handlers, pc'[h] \notin Waiting, UNCHANGED proxies,
               \A g \in Handlers : g # h => pc'[g] = pc[g] /\ at'[g] = at[g]
        PROVE  Awaited'
    BY <1>b DEF Awaited, Quiet
  \* The handler with the mutex asks controller k.
  <1>c. ASSUME NEW h \in Handlers, NEW k \in Controllers, NEW op, NEW arg,
               pc[h] \in Holding, pc[h] \notin Waiting, Ask(h, k, op, arg), at'[h] = k,
               \A g \in Handlers : g # h => pc'[g] = pc[g]
        PROVE  Awaited'
    BY <1>a, <1>c, AllQuiet, AskAwaited, OneWaits DEF Quiet
  \* The handler takes its answer and waits no more.
  <1>d. ASSUME NEW h \in Handlers, pc[h] \in Waiting, pc'[h] \notin Waiting,
               \A g \in Handlers : g # h => pc'[g] = pc[g]
        PROVE  Awaited'
    BY <1>d, OneWaits DEF Holding
  <1>1. ASSUME NEW h \in Handlers, NEW r \in Requests, Receive(h, r) PROVE Awaited'
    BY <1>1, <1>a, <1>b DEF Receive, Waiting
  <1>2. ASSUME NEW h \in Handlers, Lock(h) PROVE Awaited'
    BY <1>2, <1>a, <1>b DEF Lock, Known, Enter, Waiting
  <1>3. ASSUME NEW h \in Handlers, Unknown(h) \/ SearchFails(h) \/ FindFails(h)
                                   \/ ListEnds(h) \/ Send(h)
        PROVE  Awaited'
    BY <1>3, <1>a, <1>b DEF Unknown, SearchFails, FindFails, ListEnds, Send, Waiting
  <1>4. ASSUME NEW h \in Handlers, Search(h) PROVE Awaited'
    <2>1. nextController' \in Controllers
      BY <1>4, <1>a, AdvanceType DEF Search
    <2>2. at'[h] = nextController' /\ pc' = [pc EXCEPT ![h] = "templates"]
      BY <1>4, <1>a DEF Search
    <2>3. QED
      BY <1>4, <1>a, <1>c, <2>1, <2>2 DEF Search, Waiting, Holding
  <1>5. ASSUME NEW h \in Handlers, Find(h) PROVE Awaited'
    <2>1. PICK k \in Controllers : /\ at' = [at EXCEPT ![h] = k]
                                   /\ Ask(h, k, request[h].cmd, request[h].vm[2])
      BY <1>5 DEF Find
    <2>2. QED
      BY <1>5, <1>a, <1>c, <2>1 DEF Find, Waiting, Holding
  <1>6. ASSUME NEW h \in Handlers, List(h) PROVE Awaited'
    <2>1. at[h] \in Controllers
      BY <1>6, <1>a, ManagerAssumption DEF List, Controllers
    <2>2. QED
      BY <1>6, <1>a, <1>c, <2>1 DEF List, Waiting, Holding
  <1>7. ASSUME NEW h \in Handlers, Offered(h) PROVE Awaited'
    <2>1. pc[h] \in Waiting /\ HasAnswer(h) /\ TakeAnswer(h) /\ UNCHANGED at
      BY <1>7 DEF Offered, Waiting
    <2>2. CASE request[h].templ \in Got(h)
      <3>1. at[h] \in Controllers /\ calls[at[h]] = <<>>
        BY <2>1, OneAnswer, TakeFlight
      <3>2. Ask(h, at[h], "new", NotMade) /\ pc' = [pc EXCEPT ![h] = "create"]
        BY <1>7, <2>2 DEF Offered
      <3>3. ~Quiet(at[h])'
        BY <1>a, <2>1, <3>1, <3>2, AskAwaited
      <3>4. QED
        BY <1>a, <2>1, <3>2, <3>3, OneWaits DEF Holding
    <2>3. CASE request[h].templ \notin Got(h)
      BY <1>7, <1>a, <1>d, <2>1, <2>3 DEF Offered, Waiting
    <2>4. QED
      BY <2>2, <2>3
  <1>8. ASSUME NEW h \in Handlers, Created(h) \/ Result(h) PROVE Awaited'
    BY <1>8, <1>a, <1>d DEF Created, Result, Waiting
  <1>9. ASSUME NEW h \in Handlers, Listed(h) PROVE Awaited'
    BY <1>9, <1>a, <1>d DEF Listed, Waiting
  <1>10. ASSUME NEW k \in Controllers, Serve(k) PROVE Awaited'
    <2>1. PICK b, v : answers' = [answers EXCEPT ![k] = Append(@, [by |-> b, value |-> v])]
      BY <1>10 DEF Serve
    <2>2. answers[k] = <<>>
      BY <1>10, HeadCall DEF Serve
    <2>3. answers'[k] = <<[by |-> b, value |-> v]>> /\ \A j \in Controllers : j # k => answers'[j] = answers[j]
      BY <1>a, <2>1, <2>2, OneElement
    <2>4. answers'[k] # <<>>
      BY <2>3, OneElement
    <2>5. UNCHANGED <<pc, at>> /\ \A j \in Controllers : j # k => calls'[j] = calls[j]
      BY <1>10, <1>a DEF Serve
    <2>6. \A h \in Handlers : pc[h] \in Waiting => at[h] \in Controllers
      BY DEF Inv, FlightInv
    <2>7. QED
      BY <2>3, <2>4, <2>5, <2>6 DEF Awaited, Quiet
  <1>11. ASSUME NEW k \in Controllers, Direct(k) PROVE Awaited'
    BY <1>11 DEF Direct, Awaited, Quiet
  <1>12. ASSUME UNCHANGED vars PROVE Awaited'
    BY <1>12 DEF vars, Awaited, Quiet
  <1>13. QED
    BY <1>1, <1>2, <1>3, <1>4, <1>5, <1>6, <1>7, <1>8, <1>9, <1>10, <1>11, <1>12
    DEF Next, Handle

\* What is on the connection that a handler reads is its own.
LEMMA OwnInQueue ==
  ASSUME Inv, Awaited, NEW h \in Handlers, mutex = h, pc[h] \in Waiting
  PROVE  \E n \in DOMAIN (calls[at[h]] \o answers[at[h]]) :
           (calls[at[h]] \o answers[at[h]])[n].by = h
  <1>1. Asked(at[h], h) \/ Answered(at[h], h)
    BY DEF Inv, MutexInv, FlightInv, Awaited
  <1>2. PICK c : calls[at[h]] \o answers[at[h]] = <<c>> /\ c.by = h
    <2>1. CASE Asked(at[h], h)
      <3>1. PICK c : calls[at[h]] = <<c>> /\ c.by = h
        BY <2>1 DEF Asked
      <3>2. <<c>> \o <<>> = <<c>>
        OBVIOUS
      <3>3. QED
        BY <2>1, <3>1, <3>2 DEF Asked
    <2>2. CASE Answered(at[h], h)
      <3>1. PICK a : answers[at[h]] = <<a>> /\ a.by = h
        BY <2>2 DEF Answered
      <3>2. <<>> \o <<a>> = <<a>>
        OBVIOUS
      <3>3. QED
        BY <2>2, <3>1, <3>2 DEF Answered
    <2>3. QED
      BY <1>1, <2>1, <2>2
  <1>3. 1 \in DOMAIN <<c>> /\ <<c>>[1] = c
    OBVIOUS
  <1>4. QED
    BY <1>2, <1>3

\* HolderGoesOnCorrect: for any number of handlers and controllers, the mutex
\* is never held for nothing: every branch of the handler gives it back, or has
\* asked the controller whose answer it reads.
THEOREM HolderGoesOnCorrect == Spec => []HolderGoesOn
  <1>1. Init => Inv /\ Awaited
    BY InvInit DEF Init, Awaited, Waiting
  <1>2. Inv /\ [Next]_vars => Inv'
    BY TypeStep, MutexStep, FlightStep DEF Inv
  <1>3. Inv /\ Awaited => HolderGoesOn
    <2> SUFFICES ASSUME Inv, Awaited, NEW h \in Handlers, mutex = h
                 PROVE  \/ pc[h] \in Holding \ Waiting
                        \/ /\ pc[h] \in Waiting
                           /\ \E n \in DOMAIN (calls[at[h]] \o answers[at[h]]) :
                                (calls[at[h]] \o answers[at[h]])[n].by = h
      BY DEF HolderGoesOn
    <2>1. pc[h] \in Holding
      BY DEF Inv, MutexInv
    <2>2. QED
      BY <2>1, OwnInQueue
  <1>4. QED
    BY <1>1, <1>2, <1>3, AwaitedStep, PTL DEF Spec
=============================================================================
