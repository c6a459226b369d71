--------------------------- MODULE ClusterProofs ----------------------------
(***************************************************************************)
(* Proofs about Cluster, for any number of clients, managers, controllers  *)
(* and requests.                                                           *)
(***************************************************************************)
EXTENDS Cluster, TLAPS

\* A request that is somewhere has been asked.
Asked ==
  /\ \A c \in Clients :
       /\ ask[c].stage # "none" => ask[c].op # "none" /\ asks[c] > 0
       /\ client[c] \in {"offered", "waiting"} => asks[c] > 0
  /\ \A m \in Managers :
       /\ work[m].stage # "none" =>
            work[m].by \in Clients /\ work[m].op # "none" /\ asks[work[m].by] > 0
       /\ work[m].stage = "none" => work[m].by = None

TypeInv == TypeOK /\ Asked

\* The call that a handler makes, when it asks around or for what its client asked.
CallOf(stage, op) == IF stage = "probe" THEN ListingFor(op) ELSE op

\* The types hold at the start.
LEMMA TypeInit == Init => TypeInv
  <1> SUFFICES ASSUME Init PROVE TypeInv
    OBVIOUS
  <1> USE DEF Init
  <1>1. ClientTypeOK
    BY ClusterAssumption DEF ClientTypeOK, NoAsk, Ops, Listings
  <1>2. ManagerTypeOK
    <2>1. tried \in [Managers -> 0 .. Len(List)]
      OBVIOUS
    <2>2. QED
      BY <2>1 DEF ManagerTypeOK
  <1>3. WorkTypeOK
    BY DEF WorkTypeOK, Idle, Ops
  <1>4. NetworkTypeOK
    <2>1. done \in [Clients \X (1 .. MaxAsks) -> Seq(Controllers)]
      OBVIOUS
    <2>2. QED
      BY <2>1 DEF NetworkTypeOK
  <1>5. \A m \in Managers : IndexOK(m)
    BY DEF IndexOK, Idle, N
  <1>6. Asked
    BY DEF Asked, NoAsk, Idle
  <1>7. QED
    BY <1>1, <1>2, <1>3, <1>4, <1>5, <1>6 DEF TypeInv, TypeOK

\* Messages may get lost: the types of the network remain.
LEMMA NetworkTypes ==
  ASSUME NetworkTypeOK, calls' \subseteq calls, answers' \subseteq answers,
         controller' \in [Controllers -> {"off", "up", "ended"}], vm' \in [Controllers -> BOOLEAN],
         done' = done, crashed' \in {crashed, TRUE}
  PROVE  NetworkTypeOK'
  BY DEF NetworkTypeOK

\* A step of clients leaves the types of the others alone.
LEMMA ClientsOnly ==
  ASSUME TypeInv, UNCHANGED <<managers, controller, vm, network, done>>,
         crashed' \in {crashed, TRUE}, ClientTypeOK', Asked'
  PROVE  TypeInv'
  <1> USE DEF TypeInv, TypeOK, managers, network
  <1>1. ManagerTypeOK'
    BY DEF ManagerTypeOK
  <1>2. WorkTypeOK'
    BY DEF WorkTypeOK
  <1>3. NetworkTypeOK'
    <2>1. /\ controller \in [Controllers -> {"off", "up", "ended"}]
          /\ vm \in [Controllers -> BOOLEAN]
      BY DEF NetworkTypeOK
    <2>2. QED
      BY <2>1, NetworkTypes
  <1>4. \A m \in Managers : IndexOK(m)'
    BY DEF IndexOK, N
  <1>5. QED
    BY <1>1, <1>2, <1>3, <1>4

\* A client ends; its requests so far remain.
LEMMA ClientEnds ==
  ASSUME TypeInv, NEW c \in Clients, EndClient(c),
         UNCHANGED work
  PROVE  ClientTypeOK' /\ Asked'
  <1> USE DEF TypeInv, TypeOK, EndClient
  <1>1. ask'[c].stage # "none" => ask'[c] = ask[c]
    BY DEF ClientTypeOK, NoAsk
  <1>2. NoAsk \in [op : Ops, name : Names \cup {None}, stage : {"none", "sent", "taken"}]
    BY DEF NoAsk, Ops
  <1>3. ask' \in [Clients -> [op : Ops, name : Names \cup {None},
                              stage : {"none", "sent", "taken"}]]
    BY <1>2 DEF ClientTypeOK
  <1>4. ClientTypeOK'
    BY <1>3 DEF ClientTypeOK
  <1>5. ASSUME NEW b \in Clients
        PROVE  /\ ask'[b].stage # "none" => ask'[b].op # "none" /\ asks'[b] > 0
               /\ client'[b] \in {"offered", "waiting"} => asks'[b] > 0
    <2>1. CASE b = c
      BY <1>1, <2>1 DEF ClientTypeOK, Asked
    <2>2. CASE b # c
      BY <2>2 DEF ClientTypeOK, Asked
    <2>3. QED
      BY <2>1, <2>2
  <1>6. Asked'
    BY <1>5 DEF Asked
  <1>7. QED
    BY <1>4, <1>6

\* A client starts or ends, or asks.
LEMMA ClientTypes ==
  ASSUME TypeInv, NEW c \in Clients,
         ClientStart(c) \/ ClientAsk(c) \/ ClientNew(c) \/ ClientExit(c) \/ ClientClosed(c)
  PROVE  TypeInv'
  <1> USE ClusterAssumption DEF TypeInv, TypeOK
  <1>1. CASE ClientStart(c)
    <2>1. ClientTypeOK'
      BY <1>1 DEF ClientStart, ManagersThere, ClientTypeOK
    <2>2. Asked'
      BY <1>1 DEF ClientStart, managers, ClientTypeOK, Asked
    <2>3. QED
      BY <1>1, <2>1, <2>2, ClientsOnly DEF ClientStart
  <1>2. CASE ClientAsk(c)
    <2>1. PICK op \in Ops \ {"none"}, name \in Names \cup {None} : Send(c, op, name)
      BY <1>2 DEF ClientAsk, Ops, Listings
    <2>2. asks' = [asks EXCEPT ![c] = @ + 1] /\ asks[c] \in 0 .. MaxAsks - 1
      BY <1>2 DEF ClientAsk, ClientTypeOK
    <2>3. asks'[c] > 0 /\ \A b \in Clients : asks'[b] >= asks[b]
      BY <2>2 DEF ClientTypeOK
    <2>4. asks' \in [Clients -> 0 .. MaxAsks]
      BY <2>2 DEF ClientTypeOK
    <2>5. ask' \in [Clients -> [op : Ops, name : Names \cup {None},
                                stage : {"none", "sent", "taken"}]]
      BY <2>1 DEF Send, ClientTypeOK
    <2>6. ClientTypeOK'
      BY <1>2, <2>1, <2>4, <2>5 DEF ClientAsk, Send, ClientTypeOK
    <2>7. work' = work
      BY <1>2 DEF ClientAsk, managers
    <2>8. ASSUME NEW b \in Clients
          PROVE  /\ ask'[b].stage # "none" => ask'[b].op # "none" /\ asks'[b] > 0
                 /\ client'[b] \in {"offered", "waiting"} => asks'[b] > 0
      <3>1. asks[b] \in Nat /\ asks'[b] \in Nat /\ asks'[b] >= asks[b]
        BY <2>3, <2>4 DEF ClientTypeOK
      <3>2. CASE b = c
        BY <2>1, <2>3, <3>2 DEF Send, ClientTypeOK
      <3>3. CASE b # c
        <4>1. ask'[b] = ask[b] /\ client'[b] = client[b]
          BY <2>1, <3>3 DEF Send, ClientTypeOK
        <4>2. QED
          BY <3>1, <4>1 DEF Asked
      <3>4. QED
        BY <3>2, <3>3
    <2>9. ASSUME NEW m \in Managers
          PROVE  /\ work'[m].stage # "none" =>
                      work'[m].by \in Clients /\ work'[m].op # "none" /\ asks'[work'[m].by] > 0
                 /\ work'[m].stage = "none" => work'[m].by = None
      BY <2>3, <2>4, <2>7 DEF ClientTypeOK, Asked
    <2>10. Asked'
      BY <2>8, <2>9 DEF Asked
    <2>11. QED
      BY <1>2, <2>6, <2>10, ClientsOnly DEF ClientAsk
  <1>3. CASE ClientNew(c)
    <2>1. ClientTypeOK'
      BY <1>3 DEF ClientNew, Send, ClientTypeOK, Ops
    <2>2. Asked'
      BY <1>3 DEF ClientNew, Send, managers, ClientTypeOK, Asked
    <2>3. QED
      BY <1>3, <2>1, <2>2, ClientsOnly DEF ClientNew
  <1>4. CASE ClientExit(c)
    <2>1. ClientTypeOK' /\ Asked'
      BY <1>4, ClientEnds DEF ClientExit, managers
    <2>2. QED
      BY <1>4, <2>1, ClientsOnly DEF ClientExit
  <1>5. CASE ClientClosed(c)
    <2>1. UNCHANGED <<managers, controller, vm, network, done, crashed>>
      BY <1>5 DEF ClientClosed
    <2>2. CASE EndClient(c)
      BY <2>1, <2>2, ClientEnds, ClientsOnly DEF managers
    <2>3. CASE /\ client' = [client EXCEPT ![c] = "prompt"]
               /\ UNCHANGED <<link, ask, asks, told, used>>
      <3>1. ClientTypeOK'
        BY <2>3 DEF ClientTypeOK
      <3>2. Asked'
        BY <2>1, <2>3 DEF managers, ClientTypeOK, Asked
      <3>3. QED
        BY <2>1, <3>1, <3>2, ClientsOnly
    <2>4. QED
      BY <1>5, <2>2, <2>3 DEF ClientClosed
  <1>6. QED
    BY <1>1, <1>2, <1>3, <1>4, <1>5

\* A manager starts.
LEMMA StartTypes ==
  ASSUME TypeInv, NEW m \in Managers,
         ManagerStart(m) \/ ManagerConnect(m) \/ ManagerReady(m)
  PROVE  TypeInv'
  <1> USE ClusterAssumption
      DEF TypeInv, TypeOK, ClientTypeOK, ManagerTypeOK, WorkTypeOK, NetworkTypeOK,
          IndexOK, Asked, Ops, clients, managers, network
  <1>1. CASE ManagerStart(m)
    BY <1>1 DEF ManagerStart, N
  <1>2. CASE ManagerConnect(m)
    <2>1. tried' = [tried EXCEPT ![m] = @ + 1] /\ tried[m] \in 0 .. Len(List) - 1
      BY <1>2 DEF ManagerConnect
    <2>2. tried' \in [Managers -> 0 .. Len(List)]
      BY <2>1
    <2>3. \/ supervised' = supervised
          \/ \E p \in Controllers :
               supervised' = [supervised EXCEPT ![m] = Append(@, p)]
      BY <1>2 DEF ManagerConnect, ListensFor
    <2>4. supervised' \in [Managers -> Seq(Controllers)]
      <3>1. ASSUME NEW p \in Controllers
            PROVE  Append(supervised[m], p) \in Seq(Controllers)
        BY <1>2 DEF ManagerConnect
      <3>2. CASE supervised' = supervised
        BY <3>2
      <3>3. ASSUME NEW p \in Controllers,
                   supervised' = [supervised EXCEPT ![m] = Append(@, p)]
            PROVE  supervised' \in [Managers -> Seq(Controllers)]
        BY <3>1, <3>3
      <3>4. QED
        BY <2>3, <3>2, <3>3
    <2>5. /\ \A k \in Managers : k # m => N(k)' = N(k)
          /\ N(m) \in Nat /\ N(m)' \in {N(m), N(m) + 1}
      BY <2>3 DEF N
    <2>6. ManagerTypeOK'
      BY <1>2, <2>2, <2>4 DEF ManagerConnect
    <2>7. ASSUME NEW k \in Managers PROVE IndexOK(k)'
      <3>1. CASE k = m
        BY <1>2, <2>1, <2>5, <3>1 DEF ManagerConnect
      <3>2. CASE k # m
        BY <1>2, <2>1, <2>5, <3>2 DEF ManagerConnect
      <3>3. QED
        BY <3>1, <3>2
    <2>8. QED
      BY <1>2, <2>6, <2>7 DEF ManagerConnect
  <1>3. CASE ManagerReady(m)
    BY <1>3 DEF ManagerReady, N
  <1>4. QED
    BY <1>1, <1>2, <1>3

-----------------------------------------------------------------------------
\* The next controller in turn is in the list.
LEMMA NextAtType ==
  ASSUME TypeInv, NEW m \in Managers, work[m].tries > 0
  PROVE  NextAt(m) \in 1 .. N(m)
  <1>1. N(m) \in Nat \ {0} /\ work[m].tries \in 1 .. N(m) /\ nextController[m] \in Nat
    BY DEF TypeInv, TypeOK, ManagerTypeOK, WorkTypeOK, IndexOK, N
  <1>2. \A n \in Nat : n % N(m) \in 0 .. N(m) - 1
    BY <1>1
  <1>3. QED
    BY <1>1, <1>2 DEF NextAt

\* Calls are on their way to controllers, for clients that asked.
CallsOK == calls \subseteq [from : Managers, to : Controllers, op : Ops \ {"none"},
                            by : Clients, n : 1 .. MaxAsks]

\* A call has the type of a call.
LEMMA CallTypes ==
  ASSUME TypeInv, NEW m \in Managers, NEW k \in 1 .. N(m), work[m].stage # "none",
         NEW op \in Ops \ {"none"}, Call(m, k, op)
  PROVE  CallsOK'
  <1>1. supervised[m] \in Seq(Controllers)
    BY DEF TypeInv, TypeOK, ManagerTypeOK
  <1>2. supervised[m][k] \in Controllers
    BY <1>1 DEF N
  <1>3. work[m].by \in Clients /\ asks[work[m].by] \in 1 .. MaxAsks
    BY ClusterAssumption DEF TypeInv, TypeOK, ClientTypeOK, Asked
  <1>4. QED
    BY <1>2, <1>3 DEF TypeInv, TypeOK, NetworkTypeOK, CallsOK, Call

\* The handler with the mutex goes on.
LEMMA ProceedTypes ==
  ASSUME TypeInv, NEW m \in Managers, work[m].stage # "none",
         NEW stage \in {"pick", "probe", "call"}, NEW tries \in 0 .. N(m),
         NEW at \in 0 .. N(m), NEW found \in BOOLEAN,
         stage \in {"probe", "call"} => at > 0,
         Proceed(m, stage, tries, at, found),
         UNCHANGED <<client, link, ask, asks, told, used, manager, tried, supervised>>,
         nextController' \in [Managers -> Nat \ {0}],
         \A k \in Managers : nextController'[k] <= N(k) \/ nextController'[k] = 1,
         NetworkTypeOK'
  PROVE  TypeInv'
  <1> DEFINE w == [by |-> work[m].by, op |-> work[m].op, name |-> work[m].name,
                   stage |-> stage, tries |-> tries, at |-> at, found |-> found]
  <1>1. N(m) \in Nat
    BY DEF TypeInv, TypeOK, ManagerTypeOK, N
  <1>2. work[m] \in [by : Clients \cup {None}, op : Ops, name : Names \cup {None},
                     stage : {"none", "pick", "probe", "call"},
                     tries : Nat, at : Nat, found : BOOLEAN]
    BY DEF TypeInv, TypeOK, WorkTypeOK
  <1>3. w \in [by : Clients \cup {None}, op : Ops, name : Names \cup {None},
               stage : {"none", "pick", "probe", "call"},
               tries : Nat, at : Nat, found : BOOLEAN]
    BY <1>1, <1>2
  <1>4. work' = [work EXCEPT ![m] = w]
    BY DEF Proceed
  <1>5. WorkTypeOK'
    BY <1>3, <1>4 DEF TypeInv, TypeOK, WorkTypeOK
  <1>6. work'[m] = w /\ \A k \in Managers : k # m => work'[k] = work[k]
    BY <1>4 DEF TypeInv, TypeOK, WorkTypeOK
  <1>7. ClientTypeOK' /\ ManagerTypeOK'
    BY DEF TypeInv, TypeOK, ClientTypeOK, ManagerTypeOK
  <1>8. \A k \in Managers : IndexOK(k)'
    BY <1>1, <1>6 DEF TypeInv, TypeOK, IndexOK, N
  <1>9. Asked'
    BY <1>6 DEF TypeInv, Asked
  <1>10. QED
    BY <1>5, <1>7, <1>8, <1>9 DEF TypeInv, TypeOK

\* What a client hears sends it on, to one of three states.
LEMMA HearGoesOn ==
  ASSUME TypeInv, NEW m \in Managers, NEW a, work[m].stage # "none", Hear(m, a)
  PROVE  LET c == work[m].by IN
         \/ client' = client /\ told' = told
         \/ /\ client[c] = "waiting"
            /\ \E s \in {"prompt", "offered", "stalled"} :
                 /\ client' = [client EXCEPT ![c] = s]
                 /\ s = "offered" => work[m].op = "templates"
                 /\ s = "stalled" => work[m].op \in Listings /\ ~a.ok
            /\ told' = [told EXCEPT ![c] = IF work[m].op \in Listings THEN None ELSE a]
  <1> DEFINE c == work[m].by
  <1>1. CASE client[c] = "waiting"
    <2>1. PICK s \in Hears(m, a) : client' = [client EXCEPT ![c] = s]
      BY <1>1 DEF Hear
    <2>2. /\ s \in {"prompt", "offered", "stalled"}
          /\ s = "offered" => work[m].op = "templates"
          /\ s = "stalled" => work[m].op \in Listings /\ ~a.ok
      BY DEF Hears
    <2>3. told' = [told EXCEPT ![c] = IF work[m].op \in Listings THEN None ELSE a]
      BY <1>1 DEF Hear
    <2>4. QED
      BY <1>1, <2>1, <2>2, <2>3
  <1>2. CASE client[c] # "waiting"
    BY <1>2 DEF Hear
  <1>3. QED
    BY <1>1, <1>2

\* Answers name a controller or none.
Answers == [from : Names \cup {No}, ok : BOOLEAN]

\* A manager replies.
LEMMA ReplyTypes ==
  ASSUME TypeInv, NEW m \in Managers, NEW a \in Answers, work[m].stage # "none",
         Reply(m, a), calls' = calls, answers' \subseteq answers
  PROVE  TypeInv'
  <1> USE ClusterAssumption
      DEF TypeInv, TypeOK, ClientTypeOK, ManagerTypeOK, WorkTypeOK, NetworkTypeOK,
          IndexOK, Asked, N
  <1>1. ClientTypeOK'
    <2> DEFINE c == work[m].by
    <2>1. c \in Clients
      OBVIOUS
    <2>2. \/ client' = client /\ told' = told
          \/ /\ \E step \in {"prompt", "offered", "stalled"} : client' = [client EXCEPT ![c] = step]
             /\ \E b \in {None} \cup Answers : told' = [told EXCEPT ![c] = b]
      <3>1. Hear(m, a)
        BY DEF Reply
      <3>2. (IF work[m].op \in Listings THEN None ELSE a) \in {None} \cup Answers
        OBVIOUS
      <3>3. QED
        BY <3>1, <3>2, HearGoesOn
    <2>3. used' \in [Clients -> BOOLEAN] /\ UNCHANGED <<link, ask, asks>>
      BY DEF Reply
    <2>4. client' \in [Clients -> {"off", "prompt", "offered", "waiting", "stalled", "ended"}]
      BY <2>2
    <2>5. told' \in [Clients -> {None} \cup [from : Names \cup {No}, ok : BOOLEAN]]
      BY <2>2 DEF Answers
    <2>6. QED
      BY <2>3, <2>4, <2>5
  <1>2. ManagerTypeOK'
    BY DEF Reply, Idle
  <1>3. WorkTypeOK'
    BY DEF Reply, Idle, Ops
  <1>4. NetworkTypeOK'
    BY DEF Reply, Idle
  <1>5. \A k \in Managers : IndexOK(k)'
    BY DEF Reply, Idle
  <1>6. Asked'
    <2>1. \A b \in Clients : client'[b] = client[b] \/ b = work[m].by
      BY DEF Reply, Hear
    <2>2. UNCHANGED <<ask, asks>>
      BY DEF Reply
    <2>3. work' = [work EXCEPT ![m] = Idle]
      BY DEF Reply
    <2>4. QED
      BY <2>1, <2>2, <2>3 DEF Idle
  <1>7. QED
    BY <1>1, <1>2, <1>3, <1>4, <1>5, <1>6

-----------------------------------------------------------------------------
\* A manager works on a request.
LEMMA WorkTypes ==
  ASSUME TypeInv, NEW m \in Managers,
         \/ \E c \in Clients : Take(m, c)
         \/ Probe(m) \/ ProbesEnd(m) \/ Find(m) \/ Probed(m) \/ Called(m)
  PROVE  TypeInv'
  <1>1. ASSUME NEW c \in Clients, Take(m, c) PROVE TypeInv'
    <2> USE DEF TypeInv, TypeOK, Take, CanTake
    <2>1. ClientTypeOK'
      BY <1>1 DEF ClientTypeOK
    <2>2. ManagerTypeOK'
      BY <1>1 DEF ManagerTypeOK
    <2>3. N(m) \in Nat /\ ask[c].op \in Ops /\ ask[c].name \in Names \cup {None}
      BY DEF ClientTypeOK, ManagerTypeOK, N
    <2>4. WorkTypeOK'
      BY <1>1, <2>3 DEF WorkTypeOK
    <2>5. NetworkTypeOK'
      BY <1>1 DEF NetworkTypeOK, network
    <2>6. ASSUME NEW k \in Managers PROVE IndexOK(k)'
      BY <1>1, <2>3 DEF IndexOK, N, WorkTypeOK
    <2>7. Asked'
      BY <1>1, ClusterAssumption DEF Asked, ClientTypeOK, WorkTypeOK
    <2>8. QED
      BY <2>1, <2>2, <2>4, <2>5, <2>6, <2>7
  <1>2. /\ N(m) \in Nat /\ work[m].tries \in 0 .. N(m) /\ work[m].at \in 0 .. N(m)
        /\ work[m].stage \in {"probe", "call"} => work[m].at \in 1 .. N(m)
    BY DEF TypeInv, TypeOK, ManagerTypeOK, WorkTypeOK, IndexOK, N
  <1>3. work[m].found \in BOOLEAN
    BY DEF TypeInv, TypeOK, WorkTypeOK
  <1>4. /\ nextController \in [Managers -> Nat \ {0}]
        /\ \A k \in Managers : nextController[k] <= N(k) \/ nextController[k] = 1
    BY DEF TypeInv, TypeOK, ManagerTypeOK, IndexOK
  <1>5. ASSUME CallsOK', answers' \subseteq answers, UNCHANGED <<controller, vm, done, crashed>>
        PROVE  NetworkTypeOK'
    BY <1>5 DEF TypeInv, TypeOK, NetworkTypeOK, CallsOK
  <1>6. CASE Probe(m)
    <2>1. NextAt(m) \in 1 .. N(m) /\ work[m].stage # "none" /\ work[m].tries > 0
      BY <1>6, NextAtType DEF Probe
    <2>2. Proceed(m, "probe", work[m].tries - 1, NextAt(m), work[m].found)
      BY <1>6 DEF Probe
    <2>3. nextController' \in {nextController, [nextController EXCEPT ![m] = NextAt(m)]}
      BY <1>6 DEF Probe
    <2>4. /\ nextController' \in [Managers -> Nat \ {0}]
          /\ \A k \in Managers : nextController'[k] <= N(k) \/ nextController'[k] = 1
      BY <1>2, <1>4, <2>1, <2>3
    <2>5. CallsOK'
      <3>1. ListingFor(work[m].op) \in Ops \ {"none"}
        BY <2>1 DEF ListingFor, Ops, Listings, TypeInv, TypeOK, WorkTypeOK, Asked
      <3>2. QED
        BY <1>6, <2>1, <3>1, CallTypes DEF Probe
    <2>6. UNCHANGED <<client, link, ask, asks, told, used, manager, tried, supervised>>
      BY <1>6 DEF Probe, clients
    <2>7. NetworkTypeOK'
      BY <1>5, <1>6, <2>5 DEF Probe
    <2>8. work[m].tries - 1 \in 0 .. N(m) /\ NextAt(m) \in 0 .. N(m) /\ NextAt(m) > 0
      BY <1>2, <2>1
    <2>9. QED
      BY <1>3, <2>1, <2>2, <2>4, <2>6, <2>7, <2>8, ProceedTypes
  <1>7. CASE ProbesEnd(m)
    <2>1. Answer(No, work[m].op \in Listings /\ work[m].found) \in Answers
      BY <1>3 DEF Answer, Answers
    <2>2. QED
      BY <1>7, <2>1, ReplyTypes DEF ProbesEnd, network
  <1>8. CASE Find(m)
    <2>1. CASE Reply(m, Answer(No, FALSE)) /\ UNCHANGED network
      <3>1. Answer(No, FALSE) \in Answers
        BY DEF Answer, Answers
      <3>2. QED
        BY <1>8, <2>1, <3>1, ReplyTypes DEF Find, network
    <2>2. ASSUME NEW k \in 1 .. N(m), Call(m, k, "do"), Goto(m, "call", k),
                 UNCHANGED <<clients, manager, tried, supervised, nextController,
                             controller, vm, answers, done, crashed>>
          PROVE  TypeInv'
      <3>1. work[m].stage # "none"
        BY <1>8 DEF Find
      <3>2. CallsOK'
        BY <2>2, <3>1, CallTypes DEF Ops, Listings
      <3>3. NetworkTypeOK'
        BY <1>5, <2>2, <3>2
      <3>4. Proceed(m, "call", work[m].tries, k, work[m].found)
        BY <2>2 DEF Goto
      <3>5. k \in 0 .. N(m) /\ k > 0
        BY <1>2
      <3>6. UNCHANGED <<client, link, ask, asks, told, used, manager, tried, supervised>>
        BY <2>2 DEF clients
      <3>7. QED
        BY <1>2, <1>3, <1>4, <2>2, <3>1, <3>3, <3>4, <3>5, <3>6, ProceedTypes
    <2>3. QED
      BY <1>8, <2>1, <2>2 DEF Find
  <1>9. CASE Probed(m)
    <2>1. work[m].stage = "probe" /\ answers' \subseteq answers
      BY <1>9 DEF Probed
    <2>2. UNCHANGED <<client, link, ask, asks, told, used, manager, tried, supervised,
                      nextController, controller, vm, done, crashed>>
      BY <1>9 DEF Probed, clients
    <2>3. CASE Call(m, work[m].at, "new") /\ Goto(m, "call", work[m].at)
      <3>1. CallsOK'
        BY <1>2, <2>1, <2>3, CallTypes DEF Ops, Listings
      <3>2. NetworkTypeOK'
        BY <1>5, <2>1, <2>2, <3>1
      <3>3. Proceed(m, "call", work[m].tries, work[m].at, work[m].found)
        BY <2>3 DEF Goto
      <3>4. work[m].at > 0
        BY <1>2, <2>1
      <3>5. QED
        BY <1>2, <1>3, <1>4, <2>1, <2>2, <3>2, <3>3, <3>4, ProceedTypes
    <2>4. ASSUME NEW a \in answers, calls' = calls,
                 Proceed(m, "pick", work[m].tries, work[m].at, work[m].found \/ a.ok)
          PROVE  TypeInv'
      <3>1. CallsOK'
        BY <2>4 DEF TypeInv, TypeOK, NetworkTypeOK, CallsOK
      <3>2. NetworkTypeOK'
        BY <1>5, <2>1, <2>2, <3>1
      <3>3. (work[m].found \/ a.ok) \in BOOLEAN
        OBVIOUS
      <3>4. QED
        BY <1>2, <1>4, <2>1, <2>2, <2>4, <3>2, <3>3, ProceedTypes
    <2>5. QED
      BY <1>9, <2>3, <2>4 DEF Probed, From
  <1>10. CASE Called(m)
    <2>1. PICK a \in From(m, work[m].at) :
            /\ answers' = answers \ {a}
            /\ Reply(m, Answer(supervised[m][work[m].at][1], a.ok))
      BY <1>10 DEF Called
    <2>2. work[m].at \in 1 .. N(m) /\ supervised[m] \in Seq(Controllers)
      BY <1>2, <1>10 DEF Called, TypeInv, TypeOK, ManagerTypeOK
    <2>3. supervised[m][work[m].at] \in Names \X Nat
      BY <2>2, ClusterAssumption DEF N
    <2>4. a.ok \in BOOLEAN
      BY DEF From, TypeInv, TypeOK, NetworkTypeOK
    <2>5. Answer(supervised[m][work[m].at][1], a.ok) \in Answers
      BY <2>3, <2>4 DEF Answer, Answers
    <2>6. QED
      BY <1>10, <2>1, <2>5, ReplyTypes DEF Called
  <1>11. QED
    BY <1>1, <1>6, <1>7, <1>8, <1>9, <1>10

\* A manager notices that another process has ended.
LEMMA EndManagerTypes ==
  ASSUME TypeInv, NEW m \in Managers, EndManager(m),
         UNCHANGED <<clients, controller, vm, calls, done>>, crashed' \in {crashed, TRUE}
  PROVE  TypeInv'
  <1> USE DEF TypeInv, TypeOK, EndManager
  <1>1. ClientTypeOK'
    BY DEF clients, ClientTypeOK
  <1>2. ManagerTypeOK'
    BY DEF ManagerTypeOK
  <1>3. Idle \in [by : Clients \cup {None}, op : Ops, name : Names \cup {None},
                  stage : {"none", "pick", "probe", "call"},
                  tries : Nat, at : Nat, found : BOOLEAN]
    BY DEF Idle, Ops
  <1>4. WorkTypeOK'
    BY <1>3 DEF WorkTypeOK
  <1>5. NetworkTypeOK'
    <2>1. /\ controller \in [Controllers -> {"off", "up", "ended"}]
          /\ vm \in [Controllers -> BOOLEAN]
      BY DEF NetworkTypeOK
    <2>2. QED
      BY <2>1, NetworkTypes
  <1>6. ASSUME NEW k \in Managers
        PROVE  IndexOK(k)'
    <2>1. N(k)' = N(k) /\ N(k) \in Nat
      BY DEF N, ManagerTypeOK
    <2>2. CASE k = m
      BY <2>1, <2>2 DEF IndexOK, Idle, WorkTypeOK
    <2>3. CASE k # m
      BY <2>1, <2>3 DEF IndexOK, WorkTypeOK
    <2>4. QED
      BY <2>2, <2>3
  <1>7. ASSUME NEW k \in Managers
        PROVE  /\ work'[k].stage # "none" =>
                    work'[k].by \in Clients /\ work'[k].op # "none" /\ asks'[work'[k].by] > 0
               /\ work'[k].stage = "none" => work'[k].by = None
    <2>1. work'[k] = work[k] \/ work'[k] = Idle
      BY DEF WorkTypeOK
    <2>2. QED
      BY <2>1 DEF clients, Asked, Idle
  <1>8. Asked'
    BY <1>7 DEF clients, Asked
  <1>9. QED
    BY <1>1, <1>2, <1>4, <1>5, <1>6, <1>8

\* A manager ends, or goes on without a controller.
LEMMA ManagerEndTypes ==
  ASSUME TypeInv, NEW m \in Managers,
         ControllerClosed(m) \/ \E c \in Clients : HandlerClosed(m, c)
  PROVE  TypeInv'
  <1>1. CASE EndManager(m) /\ UNCHANGED <<clients, controller, vm, calls, done, crashed>>
    BY <1>1, EndManagerTypes
  <1>2. CASE ControllerClosed(m) /\ ~EndManager(m)
    <2>1. work[m].stage = "probe" /\ Proceed(m, "pick", work[m].tries, work[m].at, work[m].found)
      BY <1>2 DEF ControllerClosed, Goto
    <2>2. UNCHANGED <<client, link, ask, asks, told, used, manager, tried, supervised,
                      nextController>>
      BY <1>2 DEF ControllerClosed, clients
    <2>3. NetworkTypeOK'
      BY <1>2 DEF ControllerClosed, TypeInv, TypeOK, NetworkTypeOK
    <2>4. work[m].tries \in 0 .. N(m) /\ work[m].at \in 0 .. N(m)
      BY DEF TypeInv, TypeOK, ManagerTypeOK, WorkTypeOK, IndexOK, N
    <2>5. work[m].found \in BOOLEAN
      BY DEF TypeInv, TypeOK, WorkTypeOK
    <2>6. /\ nextController \in [Managers -> Nat \ {0}]
          /\ \A k \in Managers : nextController[k] <= N(k) \/ nextController[k] = 1
      BY DEF TypeInv, TypeOK, ManagerTypeOK, IndexOK
    <2>7. QED
      BY <2>1, <2>2, <2>3, <2>4, <2>5, <2>6, ProceedTypes
  <1>3. QED
    BY <1>1, <1>2 DEF ControllerClosed, HandlerClosed

\* A request is carried out or refused.
LEMMA ExecuteTypes ==
  ASSUME TypeInv, NEW p \in Controllers, NEW q \in calls, Execute(p, q)
  PROVE  TypeInv'
  <1> USE DEF TypeInv, TypeOK, NetworkTypeOK
  <1>1. PICK ok \in BOOLEAN :
          /\ answers' = IF manager[q.from] = "ended" THEN answers
                          ELSE answers \cup {[from |-> p, to |-> q.from, ok |-> ok]}
          /\ done' = IF q.op \notin Listings /\ ok
                       THEN [done EXCEPT ![<<q.by, q.n>>] = Append(@, p)] ELSE done
          /\ vm' \in {vm, [vm EXCEPT ![p] = TRUE]}
    <2>1. PICK ok \in BOOLEAN :
            /\ answers' = IF manager[q.from] = "ended" THEN answers
                            ELSE answers \cup {[from |-> p, to |-> q.from, ok |-> ok]}
            /\ done' = IF q.op \notin Listings /\ ok
                         THEN [done EXCEPT ![<<q.by, q.n>>] = Append(@, p)] ELSE done
            /\ \/ UNCHANGED vm
               \/ q.op = "do" /\ ok /\ vm' = [vm EXCEPT ![p] = TRUE]
      BY DEF Execute
    <2>2. QED
      BY <2>1
  <1>2. q.from \in Managers /\ <<q.by, q.n>> \in Clients \X (1 .. MaxAsks)
    OBVIOUS
  <1>3. [from |-> p, to |-> q.from, ok |-> ok] \in [from : Controllers, to : Managers, ok : BOOLEAN]
    BY <1>2
  <1>4. answers' \subseteq [from : Controllers, to : Managers, ok : BOOLEAN]
    BY <1>1, <1>3
  <1>5. done' \in [Clients \X (1 .. MaxAsks) -> Seq(Controllers)]
    BY <1>1, <1>2
  <1>6. vm' \in [Controllers -> BOOLEAN]
    BY <1>1
  <1>7. calls' \subseteq calls /\ UNCHANGED <<controller, crashed>>
    BY DEF Execute
  <1>8. NetworkTypeOK'
    BY <1>4, <1>5, <1>6, <1>7
  <1>9. QED
    BY <1>8 DEF Execute, ClientTypeOK, ManagerTypeOK, WorkTypeOK, IndexOK, Asked, N,
                clients, managers

\* A controller, a VM, or an end without a cause.
LEMMA ControllerTypes ==
  ASSUME TypeInv,
         \/ \E p \in Controllers : \/ ControllerStart(p) \/ ControllerRuns(p) \/ VmExit(p)
                                   \/ \E m \in Managers : ManagerClosed(p, m)
         \/ Crash
  PROVE  TypeInv'
  <1> USE DEF TypeInv, TypeOK
  <1>1. ASSUME UNCHANGED <<clients, managers, done>>, NetworkTypeOK' PROVE TypeInv'
    <2>1. ClientTypeOK'
      BY <1>1 DEF clients, ClientTypeOK
    <2>2. ManagerTypeOK'
      BY <1>1 DEF managers, ManagerTypeOK
    <2>3. WorkTypeOK' /\ Asked'
      BY <1>1 DEF clients, managers, WorkTypeOK, Asked
    <2>4. \A m \in Managers : IndexOK(m)'
      BY <1>1 DEF managers, IndexOK, N
    <2>5. QED
      BY <1>1, <2>1, <2>2, <2>3, <2>4
  <1>2. ASSUME NEW p \in Controllers, ControllerStart(p) PROVE TypeInv'
    <2>1. NetworkTypeOK'
      BY <1>2 DEF ControllerStart, network, NetworkTypeOK
    <2>2. QED
      BY <1>1, <1>2, <2>1 DEF ControllerStart
  <1>3. ASSUME NEW p \in Controllers, ControllerRuns(p) PROVE TypeInv'
    BY <1>3, ExecuteTypes DEF ControllerRuns
  <1>4. ASSUME NEW p \in Controllers, VmExit(p) PROVE TypeInv'
    <2>1. NetworkTypeOK'
      BY <1>4 DEF VmExit, network, NetworkTypeOK
    <2>2. QED
      BY <1>1, <1>4, <2>1 DEF VmExit
  <1>5. ASSUME NEW p \in Controllers, EndController(p),
               UNCHANGED <<clients, managers, vm, calls, done>>,
               crashed' \in {crashed, TRUE}
        PROVE  TypeInv'
    <2>1. answers' \subseteq answers /\ controller' = [controller EXCEPT ![p] = "ended"]
      BY <1>5 DEF EndController
    <2>2. NetworkTypeOK'
      <3>1. /\ controller' \in [Controllers -> {"off", "up", "ended"}]
            /\ vm \in [Controllers -> BOOLEAN]
        BY <2>1 DEF NetworkTypeOK
      <3>2. QED
        BY <1>5, <2>1, <3>1, NetworkTypes
    <2>3. QED
      BY <1>1, <1>5, <2>2
  <1>6. ASSUME NEW m \in Managers, EndManager(m),
               UNCHANGED <<clients, controller, vm, calls, done>>,
               crashed' \in {crashed, TRUE}
        PROVE  TypeInv'
    BY <1>6, EndManagerTypes
  <1>7. ASSUME NEW c \in Clients, EndClient(c),
               UNCHANGED <<managers, controller, answers, vm, calls, done>>,
               crashed' \in {crashed, TRUE}
        PROVE  TypeInv'
    BY <1>7, ClientEnds, ClientsOnly DEF managers, network
  <1>8. CASE Crash
    BY <1>5, <1>6, <1>7, <1>8 DEF Crash, ManagersThere
  <1>9. QED
    BY <1>2, <1>3, <1>4, <1>5, <1>8 DEF ManagerClosed

\* Every step keeps the types.
LEMMA TypeNext ==
  ASSUME TypeInv, [Next]_vars
  PROVE  TypeInv'
  <1>1. CASE UNCHANGED vars
    BY <1>1 DEF vars, TypeInv, TypeOK, ClientTypeOK, ManagerTypeOK, WorkTypeOK, NetworkTypeOK, IndexOK, Asked, N
  <1>2. CASE Next
    BY <1>2, ClientTypes, StartTypes, WorkTypes, ManagerEndTypes, ControllerTypes
    DEF Next, ManagerRuns
  <1>3. QED
    BY <1>1, <1>2

\* Every variable of the cloud keeps its type.
THEOREM TypeCorrect == Spec => []TypeOK
  <1>1. TypeInv /\ [Next]_vars => TypeInv'
    BY TypeNext
  <1>2. TypeInv => TypeOK
    BY DEF TypeInv
  <1>3. QED
    BY TypeInit, <1>1, <1>2, PTL DEF Spec

-----------------------------------------------------------------------------
(* Each request is carried out at most once *)

\* A call that carries out request n of c is on its way.
Busy(c, n) == \E q \in calls : q.op \notin Listings /\ q.by = c /\ q.n = n

\* The last request of c has not been carried out and will not be by a call.
Fresh(c) == done[<<c, asks[c]>>] = <<>> /\ ~Busy(c, asks[c])

\* A client waits while a manager has its request or is about to, unless one of
\* them has ended.
Turn ==
  /\ \A m \in Managers : work[m].stage # "none" =>
       LET c == work[m].by IN
         /\ manager[m] = "up" /\ link[c] = m
         /\ ask[c].stage # "sent" /\ client[c] \in {"waiting", "ended"}
         /\ work[m].stage = "call" => work[m].op \in {"new", "do"}
  /\ \A c \in Clients : ask[c].stage = "sent" =>
       /\ client[c] \in {"waiting", "prompt", "ended"}
       /\ client[c] = "prompt" => link[c] \in Managers /\ manager[link[c]] = "ended"

\* Until the call that may carry it out is sent, a request is fresh.
FreshUntilCalled ==
  /\ \A c \in Clients : ask[c].stage = "sent" \/ client[c] = "offered" => Fresh(c)
  /\ \A m \in Managers : work[m].stage \in {"pick", "probe"} => Fresh(work[m].by)

\* Of each request there is one such call, or one trace that it was carried out.
CalledOnce ==
  /\ \A q1, q2 \in calls :
       q1.op \notin Listings /\ q2.op \notin Listings /\ q1.by = q2.by /\ q1.n = q2.n => q1 = q2
  /\ \A q \in calls : q.n <= asks[q.by]
  /\ \A c \in Clients, n \in 1 .. MaxAsks :
       /\ n > asks[c] \/ Busy(c, n) => done[<<c, n>>] = <<>>
       /\ Len(done[<<c, n>>]) <= 1

OnceInv == TypeInv /\ Turn /\ FreshUntilCalled /\ CalledOnce

\* Nothing has been asked, or carried out, at the start.
LEMMA OnceInit == Init => Turn /\ FreshUntilCalled /\ CalledOnce
  BY DEF Init, Turn, FreshUntilCalled, CalledOnce, Busy, Idle, NoAsk

\* A step that sends at most a probe, and carries nothing out.
LEMMA QuietOnce ==
  ASSUME TypeInv, CalledOnce, UNCHANGED <<done, asks>>,
         \A q \in calls : q.op \notin Listings => q \in calls',
         \A q \in calls' : q.op \notin Listings => q \in calls,
         \A q \in calls' : q.n <= asks[q.by]
  PROVE  CalledOnce' /\ \A c \in Clients : Fresh(c)' <=> Fresh(c)
  <1>1. \A c, n : Busy(c, n)' <=> Busy(c, n)
    BY DEF Busy
  <1>2. CalledOnce'
    BY <1>1 DEF CalledOnce
  <1>3. QED
    BY <1>1, <1>2 DEF Fresh

\* A client starts or ends, or asks.
LEMMA ClientOnce ==
  ASSUME OnceInv, NEW c \in Clients,
         ClientStart(c) \/ ClientAsk(c) \/ ClientNew(c) \/ EndClient(c)
           \/ (ClientClosed(c) /\ ~EndClient(c)),
         UNCHANGED <<managers, calls, done>>
  PROVE  Turn' /\ FreshUntilCalled' /\ CalledOnce'
  <1> USE DEF OnceInv, managers
  <1>1. ASSUME UNCHANGED asks
        PROVE  CalledOnce' /\ \A b \in Clients : Fresh(b)' <=> Fresh(b)
    BY <1>1, QuietOnce DEF CalledOnce
  <1>2. client \in [Clients -> {"off", "prompt", "offered", "waiting", "stalled", "ended"}]
    BY DEF TypeInv, TypeOK, ClientTypeOK
  <1>3. ask \in [Clients -> [op : Ops, name : Names \cup {None},
                             stage : {"none", "sent", "taken"}]]
    BY DEF TypeInv, TypeOK, ClientTypeOK
  <1>4. asks \in [Clients -> 0 .. MaxAsks] /\ link \in [Clients -> Managers \cup {None}]
    BY DEF TypeInv, TypeOK, ClientTypeOK
  <1>5. CASE ClientStart(c)
    <2>1. Turn'
      BY <1>2, <1>4, <1>5 DEF ClientStart, Turn, TypeInv, Asked
    <2>2. FreshUntilCalled'
      BY <1>1, <1>2, <1>5 DEF ClientStart, FreshUntilCalled, TypeInv, Asked
    <2>3. QED
      BY <1>1, <1>5, <2>1, <2>2 DEF ClientStart
  <1>6. CASE ClientAsk(c)
    <2>1. PICK op \in Ops, name \in Names \cup {None} : Send(c, op, name)
      BY <1>6 DEF ClientAsk, Ops, Listings
    <2>2. /\ client[c] = "prompt" /\ asks' = [asks EXCEPT ![c] = @ + 1]
          /\ Alive(manager[link[c]]) /\ link' = link /\ asks[c] < MaxAsks
      BY <1>6 DEF ClientAsk
    <2>3. asks'[c] = asks[c] + 1 /\ asks'[c] \in 1 .. MaxAsks
      BY <1>4, <2>2, ClusterAssumption
    <2>4. ask'[c].stage = "sent" /\ client'[c] = "waiting"
      BY <1>2, <1>3, <2>1 DEF Send
    <2>5. \A b \in Clients : b # c =>
             ask'[b] = ask[b] /\ client'[b] = client[b] /\ asks'[b] = asks[b]
      BY <1>2, <1>3, <1>4, <2>1, <2>2 DEF Send
    <2>6. \A m \in Managers : work[m].stage # "none" => work[m].by \in Clients \ {c}
      BY <2>2 DEF Turn, TypeInv, Asked
    <2>7. Turn'
      BY <2>2, <2>4, <2>5, <2>6 DEF Turn
    <2>8. \A b, n : Busy(b, n)' <=> Busy(b, n)
      BY DEF Busy
    <2>9. Fresh(c)'
      <3>1. done[<<c, asks'[c]>>] = <<>>
        BY <1>4, <2>3 DEF CalledOnce
      <3>2. ~Busy(c, asks'[c])
        BY <1>4, <2>3 DEF CalledOnce, Busy
      <3>3. QED
        BY <2>8, <3>1, <3>2 DEF Fresh
    <2>10. \A b \in Clients : b # c => (Fresh(b)' <=> Fresh(b))
      BY <2>5, <2>8 DEF Fresh
    <2>11. FreshUntilCalled'
      BY <2>5, <2>6, <2>9, <2>10 DEF FreshUntilCalled
    <2>12. \A b \in Clients : asks[b] \in Nat /\ asks'[b] \in Nat /\ asks[b] <= asks'[b]
      BY <1>4, <2>3, <2>5
    <2>13. CalledOnce'
      <3>1. calls \subseteq [from : Managers, to : Controllers, op : Ops \ {"none"},
                             by : Clients, n : 1 .. MaxAsks]
        BY DEF TypeInv, TypeOK, NetworkTypeOK
      <3>2. \A q \in calls : q.n <= asks'[q.by]
        BY <2>12, <3>1 DEF CalledOnce
      <3>3. \A b \in Clients, n \in 1 .. MaxAsks : n > asks'[b] => n > asks[b]
        BY <2>12
      <3>4. QED
        BY <2>8, <3>2, <3>3 DEF CalledOnce
    <2>14. QED
      BY <2>7, <2>11, <2>13
  <1>7. CASE ClientNew(c)
    <2>1. /\ client[c] = "offered" /\ client'[c] = "waiting" /\ link' = link
          /\ \A b \in Clients : b # c => ask'[b] = ask[b] /\ client'[b] = client[b]
      BY <1>2, <1>3, <1>7 DEF ClientNew, Send
    <2>2. Turn'
      BY <2>1 DEF Turn, TypeInv, Asked
    <2>3. FreshUntilCalled'
      BY <1>1, <1>7, <2>1 DEF ClientNew, FreshUntilCalled, TypeInv, Asked
    <2>4. QED
      BY <1>1, <1>7, <2>2, <2>3 DEF ClientNew
  <1>8. CASE EndClient(c)
    <2>1. /\ client'[c] = "ended" /\ UNCHANGED <<link, asks>>
          /\ ask'[c].stage = "sent" => ask[c].stage = "sent"
          /\ \A b \in Clients : b # c => ask'[b] = ask[b] /\ client'[b] = client[b]
      BY <1>2, <1>3, <1>8 DEF EndClient, NoAsk
    <2>2. Turn'
      BY <2>1 DEF Turn, TypeInv, Asked
    <2>3. FreshUntilCalled'
      BY <1>1, <2>1 DEF FreshUntilCalled, TypeInv, Asked
    <2>4. QED
      BY <1>1, <2>1, <2>2, <2>3
  <1>9. CASE ClientClosed(c) /\ ~EndClient(c)
    <2>1. /\ client'[c] = "prompt" /\ UNCHANGED <<link, ask, asks>>
          /\ link[c] \in Managers /\ manager[link[c]] = "ended"
          /\ \A b \in Clients : b # c => client'[b] = client[b]
      BY <1>2, <1>4, <1>9 DEF ClientClosed
    <2>2. \A m \in Managers : work[m].stage # "none" => work[m].by \in Clients \ {c}
      BY <2>1 DEF Turn, TypeInv, Asked
    <2>3. Turn'
      BY <2>1, <2>2 DEF Turn
    <2>4. FreshUntilCalled'
      BY <1>1, <2>1, <2>2 DEF FreshUntilCalled
    <2>5. QED
      BY <1>1, <2>1, <2>3, <2>4
  <1>10. QED
    BY <1>5, <1>6, <1>7, <1>8, <1>9

\* A handler goes on: whose request it works on stays, and so do the others.
LEMMA ProceedWork ==
  ASSUME TypeInv, NEW m \in Managers, NEW stage, NEW tries, NEW at, NEW found,
         Proceed(m, stage, tries, at, found)
  PROVE  /\ work'[m].by = work[m].by /\ work'[m].op = work[m].op
         /\ work'[m].name = work[m].name /\ work'[m].stage = stage /\ work'[m].at = at
         /\ \A k \in Managers : k # m => work'[k] = work[k]
  BY DEF TypeInv, TypeOK, WorkTypeOK, Proceed

\* A manager starts.
LEMMA StartOnce ==
  ASSUME OnceInv, NEW m \in Managers,
         ManagerStart(m) \/ ManagerConnect(m) \/ ManagerReady(m)
  PROVE  Turn' /\ FreshUntilCalled' /\ CalledOnce'
  <1> USE DEF OnceInv
  <1>1. UNCHANGED <<client, link, ask, asks, work, calls, done>>
    BY DEF ManagerStart, ManagerConnect, ManagerReady, clients, network
  <1>2. manager \in [Managers -> {"off", "start", "up", "ended"}]
    BY DEF TypeInv, TypeOK, ManagerTypeOK
  <1>3. \/ manager' = manager
        \/ manager[m] \in {"off", "start"} /\ \E s \in {"start", "up"} :
             manager' = [manager EXCEPT ![m] = s]
    BY DEF ManagerStart, ManagerConnect, ManagerReady
  <1>4. \A k \in Managers : /\ manager[k] = "up" => manager'[k] = "up"
                            /\ manager[k] = "ended" => manager'[k] = "ended"
    BY <1>2, <1>3
  <1>5. Turn'
    BY <1>1, <1>4 DEF Turn
  <1>6. CalledOnce' /\ \A c \in Clients : Fresh(c)' <=> Fresh(c)
    BY <1>1, QuietOnce DEF CalledOnce
  <1>7. FreshUntilCalled'
    BY <1>1, <1>6 DEF FreshUntilCalled, TypeInv, Asked
  <1>8. QED
    BY <1>5, <1>6, <1>7

\* A manager replies, or ends: its request is over.
LEMMA IdleOnce ==
  ASSUME OnceInv, NEW m \in Managers,
         work' = [work EXCEPT ![m] = Idle],
         UNCHANGED <<link, ask, asks, done, calls>>,
         \A k \in Managers : k # m \/ manager'[k] = manager[k] \/ manager'[k] = "ended",
         \A k \in Managers : k # m => manager'[k] = manager[k],
         manager[m] = "ended" => manager'[m] = "ended",
         \/ client' = client
         \/ /\ work[m].stage # "none" /\ client[work[m].by] = "waiting"
            /\ \E s \in {"prompt", "offered", "stalled"} :
                 /\ client' = [client EXCEPT ![work[m].by] = s]
                 /\ s = "offered" => work[m].op = "templates"
  PROVE  Turn' /\ FreshUntilCalled' /\ CalledOnce'
  <1> USE DEF OnceInv
  <1>1. work'[m].stage = "none" /\ \A k \in Managers : k # m => work'[k] = work[k]
    BY DEF Idle, TypeInv, TypeOK, WorkTypeOK
  <1>2. client \in [Clients -> {"off", "prompt", "offered", "waiting", "stalled", "ended"}]
    BY DEF TypeInv, TypeOK, ClientTypeOK
  <1>3. work[m].stage # "none" => /\ work[m].by \in Clients /\ link[work[m].by] = m
                                  /\ ask[work[m].by].stage # "sent"
    BY DEF Turn, TypeInv, Asked
  <1>4. \A k \in Managers : k # m /\ work[k].stage # "none" =>
           work[k].by \in Clients /\ link[work[k].by] = k
    BY DEF Turn, TypeInv, Asked
  <1>5. \A c \in Clients : \/ client'[c] = client[c]
                           \/ /\ work[m].stage # "none" /\ work[m].by = c
                              /\ client'[c] = "offered" => work[m].op = "templates"
    BY <1>2, <1>3
  <1>6. Turn'
    BY <1>1, <1>3, <1>4, <1>5 DEF Turn
  <1>7. CalledOnce' /\ \A c \in Clients : Fresh(c)' <=> Fresh(c)
    BY QuietOnce DEF CalledOnce
  <1>8. work[m].stage # "none" /\ work[m].op = "templates" => Fresh(work[m].by)
    BY DEF Turn, FreshUntilCalled, TypeInv, TypeOK, WorkTypeOK
  <1>9. FreshUntilCalled'
    BY <1>1, <1>4, <1>5, <1>7, <1>8 DEF FreshUntilCalled
  <1>10. QED
    BY <1>6, <1>7, <1>9

\* A reply ends the request of its handler.
LEMMA ReplyOnce ==
  ASSUME OnceInv, NEW m \in Managers, NEW a, work[m].stage # "none",
         Reply(m, a), calls' = calls
  PROVE  Turn' /\ FreshUntilCalled' /\ CalledOnce'
  <1>1. /\ work' = [work EXCEPT ![m] = Idle] /\ Hear(m, a)
        /\ UNCHANGED <<link, ask, asks, manager, done>>
    BY DEF Reply
  <1>2. \/ client' = client
        \/ /\ client[work[m].by] = "waiting"
           /\ \E s \in {"prompt", "offered", "stalled"} :
                /\ client' = [client EXCEPT ![work[m].by] = s]
                /\ s = "offered" => work[m].op = "templates"
    BY <1>1, HearGoesOn DEF OnceInv
  <1>3. QED
    BY <1>1, <1>2, IdleOnce

\* So does the end of the manager.
LEMMA EndManagerOnce ==
  ASSUME OnceInv, NEW m \in Managers, EndManager(m),
         UNCHANGED <<clients, calls, done>>
  PROVE  Turn' /\ FreshUntilCalled' /\ CalledOnce'
  <1>1. manager \in [Managers -> {"off", "start", "up", "ended"}]
    BY DEF OnceInv, TypeInv, TypeOK, ManagerTypeOK
  <1>2. QED
    BY <1>1, IdleOnce DEF EndManager, clients

\* A call that is no probe is sent for a fresh request, which is not fresh any more.
LEMMA CallOnce ==
  ASSUME OnceInv, NEW m \in Managers, NEW k \in 1 .. N(m), NEW op \in {"new", "do"},
         NEW tries, NEW found,
         work[m].stage \in {"pick", "probe"}, work[m].op = op,
         Call(m, k, op), Proceed(m, "call", tries, k, found),
         UNCHANGED <<clients, manager, done>>
  PROVE  Turn' /\ FreshUntilCalled' /\ CalledOnce'
  <1> USE DEF OnceInv
  <1> DEFINE c == work[m].by
             q == [from |-> m, to |-> supervised[m][k], op |-> op, by |-> c, n |-> asks[c]]
  <1>1. c \in Clients /\ asks[c] \in 1 .. MaxAsks /\ link[c] = m
        /\ ask[c].stage # "sent" /\ client[c] \in {"waiting", "ended"}
    BY ClusterAssumption DEF Turn, TypeInv, Asked, TypeOK, ClientTypeOK
  <1>2. /\ work'[m].by = c /\ work'[m].op = op /\ work'[m].stage = "call"
        /\ \A j \in Managers : j # m => work'[j] = work[j]
    BY ProceedWork
  <1>3. Turn'
    BY <1>2 DEF Turn, clients
  <1>4. calls' = calls \cup {q} /\ done' = done /\ asks' = asks
    BY DEF Call, clients
  <1>5. ASSUME NEW b, NEW n
        PROVE  Busy(b, n)' <=> Busy(b, n) \/ (b = c /\ n = asks[c])
    <2>1. q.op \notin Listings /\ q.by = c /\ q.n = asks[c]
      BY DEF Listings
    <2>2. Busy(b, n)' <=> \E r \in calls \cup {q} : r.op \notin Listings /\ r.by = b /\ r.n = n
      BY <1>4 DEF Busy
    <2> HIDE DEF q
    <2>3. QED
      BY <2>1, <2>2 DEF Busy
  <1>6. Fresh(c)
    BY DEF FreshUntilCalled
  <1>7. CalledOnce'
    <2>1. ASSUME NEW q1 \in calls', NEW q2 \in calls', q1.op \notin Listings, q2.op \notin Listings,
                 q1.by = q2.by, q1.n = q2.n
          PROVE  q1 = q2
      <3>1. CASE q1 \in calls /\ q2 \in calls
        BY <2>1, <3>1 DEF CalledOnce
      <3>2. CASE q1 \in calls /\ q2 = q
        BY <1>6, <2>1, <3>2 DEF Fresh, Busy
      <3>3. CASE q1 = q /\ q2 \in calls
        BY <1>6, <2>1, <3>3 DEF Fresh, Busy
      <3>4. QED
        BY <1>4, <3>1, <3>2, <3>3
    <2>2. \A r \in calls' : r.n <= asks'[r.by]
      BY <1>1, <1>4 DEF CalledOnce
    <2>3. ASSUME NEW b \in Clients, NEW n \in 1 .. MaxAsks
          PROVE  /\ n > asks'[b] \/ Busy(b, n)' => done'[<<b, n>>] = <<>>
                 /\ Len(done'[<<b, n>>]) <= 1
      BY <1>4, <1>5, <1>6 DEF CalledOnce, Fresh
    <2>4. QED
      BY <2>1, <2>2, <2>3 DEF CalledOnce
  <1>8. \A b \in Clients : b # c => (Fresh(b)' <=> Fresh(b))
    BY <1>4, <1>5 DEF Fresh
  <1>9. \A j \in Managers : j # m /\ work[j].stage # "none" => work[j].by \in Clients \ {c}
    BY <1>1 DEF Turn, TypeInv, Asked
  <1>10. FreshUntilCalled'
    BY <1>1, <1>2, <1>8, <1>9 DEF FreshUntilCalled, clients
  <1>11. QED
    BY <1>3, <1>7, <1>10

\* A handler goes on, with at most a probe.
LEMMA QuietProceedOnce ==
  ASSUME OnceInv, NEW m \in Managers, NEW stage \in {"pick", "probe"},
         NEW tries, NEW at, NEW found \in BOOLEAN, work[m].stage \in {"pick", "probe"},
         Proceed(m, stage, tries, at, found),
         UNCHANGED <<clients, manager, done>>,
         \/ calls' = calls
         \/ \E k \in 1 .. N(m), op \in Listings : Call(m, k, op)
  PROVE  Turn' /\ FreshUntilCalled' /\ CalledOnce'
  <1> USE DEF OnceInv
  <1>1. /\ work'[m].by = work[m].by /\ work'[m].op = work[m].op /\ work'[m].stage = stage
        /\ \A j \in Managers : j # m => work'[j] = work[j]
    BY ProceedWork
  <1>2. Turn'
    BY <1>1 DEF Turn, clients
  <1>3. asks[work[m].by] \in 1 .. MaxAsks
    BY ClusterAssumption DEF TypeInv, Asked, TypeOK, ClientTypeOK
  <1>4. CalledOnce' /\ \A c \in Clients : Fresh(c)' <=> Fresh(c)
    BY <1>3, QuietOnce DEF CalledOnce, Call, clients
  <1>5. FreshUntilCalled'
    BY <1>1, <1>4 DEF FreshUntilCalled, clients, TypeInv, Asked
  <1>6. QED
    BY <1>2, <1>4, <1>5

\* A handler works on its request.
LEMMA WorkOnce ==
  ASSUME OnceInv, NEW m \in Managers,
         \/ \E c \in Clients : Take(m, c)
         \/ Probe(m) \/ ProbesEnd(m) \/ Find(m) \/ Probed(m) \/ Called(m)
  PROVE  Turn' /\ FreshUntilCalled' /\ CalledOnce'
  <1> USE DEF OnceInv
  <1>1. work[m].at \in 0 .. N(m) /\ (work[m].stage \in {"probe", "call"} => work[m].at \in 1 .. N(m))
    BY DEF TypeInv, TypeOK, ManagerTypeOK, WorkTypeOK, IndexOK, N
  <1>2. ASSUME NEW c \in Clients, Take(m, c)
        PROVE  Turn' /\ FreshUntilCalled' /\ CalledOnce'
    <2>1. /\ work'[m].by = c /\ work'[m].stage = "pick"
          /\ \A k \in Managers : k # m => work'[k] = work[k]
      BY <1>2 DEF Take, CanTake, TypeInv, TypeOK, WorkTypeOK
    <2>2. /\ ask[c].stage = "sent" /\ ask'[c].stage = "taken"
          /\ \A b \in Clients : b # c => ask'[b] = ask[b]
      BY <1>2 DEF Take, CanTake, TypeInv, TypeOK, ClientTypeOK
    <2>3. manager[m] = "up" /\ link[c] = m /\ UNCHANGED <<client, link, asks, manager, done, calls>>
      BY <1>2 DEF Take, CanTake, network
    <2>4. client[c] \in {"waiting", "ended"}
      BY <2>2, <2>3 DEF Turn
    <2>5. \A k \in Managers : k # m /\ work[k].stage # "none" => work[k].by \in Clients \ {c}
      BY <2>3 DEF Turn, TypeInv, Asked
    <2>6. Turn'
      BY <2>1, <2>2, <2>3, <2>4, <2>5 DEF Turn
    <2>7. CalledOnce' /\ \A b \in Clients : Fresh(b)' <=> Fresh(b)
      BY <2>3, QuietOnce DEF CalledOnce
    <2>8. FreshUntilCalled'
      BY <2>1, <2>2, <2>3, <2>5, <2>7 DEF FreshUntilCalled
    <2>9. QED
      BY <2>6, <2>7, <2>8
  <1>3. CASE Probe(m)
    <2>1. NextAt(m) \in 1 .. N(m) /\ work[m].stage = "pick"
      BY <1>3, NextAtType DEF Probe
    <2>2. Proceed(m, "probe", work[m].tries - 1, NextAt(m), work[m].found)
      BY <1>3 DEF Probe
    <2>3. Call(m, NextAt(m), ListingFor(work[m].op)) /\ UNCHANGED <<clients, manager, done>>
      BY <1>3 DEF Probe
    <2>4. work[m].found \in BOOLEAN
      BY DEF TypeInv, TypeOK, WorkTypeOK
    <2>5. ListingFor(work[m].op) \in Listings
      BY <1>3 DEF Probe, ListingFor, Listings, Ops, TypeInv, TypeOK, WorkTypeOK, Asked
    <2>6. QED
      BY <2>1, <2>2, <2>3, <2>4, <2>5, QuietProceedOnce
  <1>4. CASE ProbesEnd(m)
    BY <1>4, ReplyOnce DEF ProbesEnd, network
  <1>5. CASE Find(m)
    <2>1. CASE Reply(m, Answer(No, FALSE)) /\ UNCHANGED network
      BY <1>5, <2>1, ReplyOnce DEF Find, network
    <2>2. ASSUME NEW k \in 1 .. N(m), Call(m, k, "do"), Goto(m, "call", k),
                 UNCHANGED <<clients, manager, done>>
          PROVE  Turn' /\ FreshUntilCalled' /\ CalledOnce'
      BY <1>5, <2>2, CallOnce DEF Find, Goto
    <2>3. QED
      BY <1>5, <2>1, <2>2 DEF Find
  <1>6. CASE Probed(m)
    <2>1. work[m].stage = "probe" /\ UNCHANGED <<clients, manager, done>>
      BY <1>6 DEF Probed
    <2>2. CASE work[m].op = "new" /\ Call(m, work[m].at, "new") /\ Goto(m, "call", work[m].at)
      BY <1>1, <2>1, <2>2, CallOnce DEF Goto
    <2>3. ASSUME NEW a, calls' = calls,
                 Proceed(m, "pick", work[m].tries, work[m].at, work[m].found \/ a.ok)
          PROVE  Turn' /\ FreshUntilCalled' /\ CalledOnce'
      <3>1. (work[m].found \/ a.ok) \in BOOLEAN
        OBVIOUS
      <3>2. QED
        BY <2>1, <2>3, <3>1, QuietProceedOnce
    <2>4. QED
      BY <1>6, <2>2, <2>3 DEF Probed
  <1>7. CASE Called(m)
    BY <1>7, ReplyOnce DEF Called
  <1>8. QED
    BY <1>2, <1>3, <1>4, <1>5, <1>6, <1>7

\* A manager notices that another process has ended.
LEMMA ManagerEndOnce ==
  ASSUME OnceInv, NEW m \in Managers,
         ControllerClosed(m) \/ \E c \in Clients : HandlerClosed(m, c)
  PROVE  Turn' /\ FreshUntilCalled' /\ CalledOnce'
  <1>1. CASE EndManager(m)
    BY <1>1, EndManagerOnce DEF ControllerClosed, HandlerClosed
  <1>2. CASE ControllerClosed(m) /\ ~EndManager(m)
    <2>1. work[m].found \in BOOLEAN
      BY DEF OnceInv, TypeInv, TypeOK, WorkTypeOK
    <2>2. QED
      BY <1>2, <2>1, QuietProceedOnce DEF ControllerClosed, Goto
  <1>3. QED
    BY <1>1, <1>2 DEF HandlerClosed

\* The call is gone when it leaves its trace.
LEMMA ExecuteOnce ==
  ASSUME OnceInv, NEW p \in Controllers, NEW q \in calls, Execute(p, q)
  PROVE  Turn' /\ FreshUntilCalled' /\ CalledOnce'
  <1> USE DEF OnceInv
  <1>1. UNCHANGED <<client, link, ask, asks, manager, work>> /\ calls' = calls \ {q}
    BY DEF Execute, clients, managers
  <1>2. Turn'
    BY <1>1 DEF Turn
  <1>3. q.by \in Clients /\ q.n \in 1 .. MaxAsks /\ <<q.by, q.n>> \in Clients \X (1 .. MaxAsks)
    BY DEF TypeInv, TypeOK, NetworkTypeOK
  <1>4. CASE done' = done
    <2>1. \A b, n : Busy(b, n)' => Busy(b, n)
      BY <1>1 DEF Busy
    <2>2. CalledOnce'
      BY <1>1, <1>4, <2>1 DEF CalledOnce
    <2>3. \A b \in Clients : Fresh(b) => Fresh(b)'
      BY <1>1, <1>4, <2>1 DEF Fresh
    <2>4. FreshUntilCalled'
      BY <1>1, <2>3 DEF FreshUntilCalled, TypeInv, Asked
    <2>5. QED
      BY <1>2, <2>2, <2>4
  <1>5. CASE q.op \notin Listings /\ done' = [done EXCEPT ![<<q.by, q.n>>] = Append(@, p)]
    <2>1. Busy(q.by, q.n)
      BY <1>5 DEF Busy
    <2>2. done[<<q.by, q.n>>] = <<>> /\ q.n <= asks[q.by]
      BY <1>3, <2>1 DEF CalledOnce
    <2>3. done \in [Clients \X (1 .. MaxAsks) -> Seq(Controllers)]
      BY DEF TypeInv, TypeOK, NetworkTypeOK
    <2>4. Len(done'[<<q.by, q.n>>]) = 1
      BY <1>3, <1>5, <2>2, <2>3
    <2>5. \A b \in Clients, n \in 1 .. MaxAsks :
             <<b, n>> # <<q.by, q.n>> => done'[<<b, n>>] = done[<<b, n>>]
      BY <1>3, <1>5, <2>3
    <2>6. \A b, n : Busy(b, n)' => Busy(b, n) /\ <<b, n>> # <<q.by, q.n>>
      BY <1>1, <1>5 DEF Busy, CalledOnce
    <2>7. \A c \in Clients : asks[c] \in 0 .. MaxAsks
      BY DEF TypeInv, TypeOK, ClientTypeOK
    <2>8. CalledOnce'
      <3>1. ASSUME NEW b \in Clients, NEW n \in 1 .. MaxAsks
            PROVE  /\ n > asks'[b] \/ Busy(b, n)' => done'[<<b, n>>] = <<>>
                   /\ Len(done'[<<b, n>>]) <= 1
        <4>1. CASE <<b, n>> = <<q.by, q.n>>
          <5>1. b = q.by /\ n = q.n
            BY <4>1
          <5>2. ~Busy(b, n)'
            BY <2>6, <4>1
          <5>3. ~(n > asks'[b])
            BY <1>1, <1>3, <2>2, <2>7, <5>1
          <5>4. Len(done'[<<b, n>>]) <= 1
            <6>1. Len(done'[<<b, n>>]) = 1
              BY <2>4, <4>1
            <6>2. QED
              BY <6>1
          <5>5. QED
            BY <5>2, <5>3, <5>4
        <4>2. CASE <<b, n>> # <<q.by, q.n>>
          BY <1>1, <2>5, <2>6, <4>2 DEF CalledOnce
        <4>3. QED
          BY <4>1, <4>2
      <3>2. QED
        BY <1>1, <3>1 DEF CalledOnce
    <2>9. \A b \in Clients : asks[b] > 0 /\ Fresh(b) => Fresh(b)'
      BY <1>1, <2>1, <2>5, <2>6, <2>7 DEF Fresh
    <2>10. FreshUntilCalled'
      BY <1>1, <2>9 DEF FreshUntilCalled, TypeInv, Asked
    <2>11. QED
      BY <1>2, <2>8, <2>10
  <1>6. QED
    BY <1>4, <1>5 DEF Execute

\* A controller, a VM, or an end without a cause.
LEMMA ControllerOnce ==
  ASSUME OnceInv,
         \/ \E p \in Controllers : \/ ControllerStart(p) \/ ControllerRuns(p) \/ VmExit(p)
                                   \/ \E m \in Managers : ManagerClosed(p, m)
         \/ Crash
  PROVE  Turn' /\ FreshUntilCalled' /\ CalledOnce'
  <1>1. ASSUME UNCHANGED <<client, link, ask, asks, manager, work, calls, done>>
        PROVE  Turn' /\ FreshUntilCalled' /\ CalledOnce'
    <2>1. CalledOnce' /\ \A c \in Clients : Fresh(c)' <=> Fresh(c)
      BY <1>1, QuietOnce DEF OnceInv, CalledOnce
    <2>2. QED
      BY <1>1, <2>1 DEF OnceInv, Turn, FreshUntilCalled, TypeInv, Asked
  <1>2. ASSUME NEW p \in Controllers, ControllerRuns(p)
        PROVE  Turn' /\ FreshUntilCalled' /\ CalledOnce'
    BY <1>2, ExecuteOnce DEF ControllerRuns
  <1>3. ASSUME NEW p \in Controllers,
               ControllerStart(p) \/ VmExit(p) \/ \E m \in Managers : ManagerClosed(p, m)
        PROVE  Turn' /\ FreshUntilCalled' /\ CalledOnce'
    BY <1>1, <1>3 DEF ControllerStart, VmExit, ManagerClosed, clients, managers, network
  <1>4. CASE Crash
    <2>1. UNCHANGED <<calls, done>>
      BY <1>4 DEF Crash
    <2>2. ASSUME NEW m \in Managers, EndManager(m), UNCHANGED clients
          PROVE  Turn' /\ FreshUntilCalled' /\ CalledOnce'
      BY <2>1, <2>2, EndManagerOnce
    <2>3. CASE UNCHANGED <<clients, managers>>
      BY <1>1, <2>1, <2>3 DEF clients, managers
    <2>4. ASSUME NEW c \in Clients, EndClient(c), UNCHANGED managers
          PROVE  Turn' /\ FreshUntilCalled' /\ CalledOnce'
      BY <2>1, <2>4, ClientOnce
    <2>5. QED
      BY <1>4, <2>2, <2>3, <2>4 DEF Crash, ManagersThere
  <1>5. QED
    BY <1>2, <1>3, <1>4

\* No step carries out a request again.
LEMMA OnceNext ==
  ASSUME OnceInv, [Next]_vars
  PROVE  OnceInv'
  <1>1. TypeInv'
    BY TypeNext DEF OnceInv
  <1>2. CASE UNCHANGED vars
    BY <1>1, <1>2 DEF vars, OnceInv, Turn, FreshUntilCalled, CalledOnce, Fresh, Busy
  <1>3. ASSUME NEW c \in Clients,
               ClientStart(c) \/ ClientAsk(c) \/ ClientNew(c) \/ ClientExit(c) \/ ClientClosed(c)
        PROVE  Turn' /\ FreshUntilCalled' /\ CalledOnce'
    <2>1. UNCHANGED <<managers, calls, done>>
      BY <1>3 DEF ClientStart, ClientAsk, ClientNew, ClientExit, ClientClosed, network
    <2>2. QED
      BY <1>3, <2>1, ClientOnce DEF ClientExit
  <1>4. CASE Next
    BY <1>1, <1>3, <1>4, StartOnce, WorkOnce, ManagerEndOnce, ControllerOnce
    DEF Next, ManagerRuns, OnceInv
  <1>5. QED
    BY <1>2, <1>4

\* No request is carried out twice.
THEOREM DoneOnceCorrect == Spec => []DoneOnce
  <1>1. Init => OnceInv
    BY TypeInit, OnceInit DEF OnceInv
  <1>2. OnceInv /\ [Next]_vars => OnceInv'
    BY OnceNext
  <1>3. OnceInv => DoneOnce
    BY DEF OnceInv, CalledOnce, DoneOnce, TypeInv, TypeOK, NetworkTypeOK
  <1>4. QED
    BY <1>1, <1>2, <1>3, PTL DEF Spec

-----------------------------------------------------------------------------
(* Answers are true *)

\* The controller has not ended, nor the manager: the call may be answered.
Live(q) == controller[q.to] # "ended" /\ manager[q.from] = "up"

\* Manager m waits for controller p.
Awaits(m, p) == work[m].stage \in {"probe", "call"} /\ p = supervised[m][work[m].at]

\* An answer says what has become of the request.
Says(a) == LET c == work[a.to].by IN
  IF a.ok THEN done[<<c, asks[c]>>] = <<a.from>> ELSE Fresh(c)

\* A manager has one call or one answer on its connections, that of its handler
\* with the mutex, and an answer is true.
Flight ==
  /\ \A q \in calls :
       /\ manager[q.from] \in {"up", "ended"}
       /\ Live(q) => /\ Awaits(q.from, q.to)
                     /\ q.op = CallOf(work[q.from].stage, work[q.from].op)
                     /\ q.by = work[q.from].by /\ q.n = asks[q.by]
                     /\ \A a \in answers : a.to # q.from
  /\ \A a \in answers :
       /\ Awaits(a.to, a.from)
       /\ work[a.to].stage = "probe" /\ work[a.to].op = "templates" => a.ok
       /\ work[a.to].stage = "call" => Says(a)
  /\ \A a, b \in answers : a.to = b.to => a = b

\* A manager works on what the client that waits for it has asked.
Understood ==
  \A m \in Managers : LET c == work[m].by IN
    /\ work[m].stage # "none" /\ client[c] = "waiting" =>
         ask[c].op = work[m].op /\ ask[c].name = work[m].name
    /\ work[m].stage = "call" /\ work[m].op = "do" =>
         supervised[m][work[m].at][1] = work[m].name

\* What a client was told is true, and stays so: it makes no other request, and one
\* that was not carried out is fresh still.
Told ==
  /\ TrueAnswers
  /\ \A c \in Clients : told[c] # None =>
       client[c] = "prompt" /\ asks[c] > 0 /\ (~told[c].ok => Fresh(c))

AnswerInv == OnceInv /\ Flight /\ Understood /\ Told

\* Nothing has been answered at the start.
LEMMA AnswerInit == Init => Flight /\ Understood /\ Told
  BY DEF Init, Flight, Understood, Told, TrueAnswers, Idle

\* A handler that waits for no controller has nothing on its connections that will
\* be answered.
LEMMA Alone ==
  ASSUME AnswerInv, NEW m \in Managers, work[m].stage \notin {"probe", "call"}
  PROVE  /\ \A q \in calls : q.from = m => ~Live(q)
         /\ \A a \in answers : a.to # m
  BY DEF AnswerInv, Flight, Awaits

\* One that takes an answer has nothing more on its connections.
LEMMA Taken ==
  ASSUME AnswerInv, NEW m \in Managers, NEW a \in From(m, work[m].at),
         answers' = answers \ {a}
  PROVE  /\ \A q \in calls : q.from = m => ~Live(q)
         /\ \A b \in answers' : b.to # m
  BY DEF AnswerInv, Flight, From

\* A request that was carried out stays so, whatever else happens.
Kept == \A c \in Clients, n \in 1 .. MaxAsks :
          done[<<c, n>>] # <<>> => done'[<<c, n>>] = done[<<c, n>>]

\* To carry out one request changes no other.
LEMMA ExecuteKeeps ==
  ASSUME OnceInv, NEW p \in Controllers, NEW q \in calls, Execute(p, q)
  PROVE  Kept
  <1>1. CASE done' = done
    BY <1>1 DEF Kept
  <1>2. CASE q.op \notin Listings /\ done' = [done EXCEPT ![<<q.by, q.n>>] = Append(@, p)]
    <2>1. <<q.by, q.n>> \in Clients \X (1 .. MaxAsks)
      BY DEF OnceInv, TypeInv, TypeOK, NetworkTypeOK
    <2>2. done[<<q.by, q.n>>] = <<>>
      BY <1>2, <2>1 DEF OnceInv, CalledOnce, Busy
    <2>3. done \in [Clients \X (1 .. MaxAsks) -> Seq(Controllers)]
      BY DEF OnceInv, TypeInv, TypeOK, NetworkTypeOK
    <2>4. \A c \in Clients, n \in 1 .. MaxAsks :
             <<c, n>> # <<q.by, q.n>> => done'[<<c, n>>] = done[<<c, n>>]
      BY <1>2, <2>1, <2>3
    <2>5. QED
      BY <2>2, <2>4 DEF Kept
  <1>3. QED
    BY <1>1, <1>2 DEF Execute

\* A request that is fresh and is not the one carried out stays fresh; the one that is
\* carried out was not.
LEMMA ExecuteFresh ==
  ASSUME OnceInv, NEW p \in Controllers, NEW q \in calls, Execute(p, q),
         NEW c \in Clients, asks[c] > 0, Fresh(c)
  PROVE  Fresh(c)'
  <1>1. asks' = asks /\ calls' = calls \ {q}
    BY DEF Execute, clients
  <1>2. ~Busy(c, asks[c])'
    BY <1>1 DEF Fresh, Busy
  <1>3. done'[<<c, asks[c]>>] = done[<<c, asks[c]>>]
    <2>1. CASE done' = done
      BY <2>1
    <2>2. CASE q.op \notin Listings /\ done' = [done EXCEPT ![<<q.by, q.n>>] = Append(@, p)]
      <3>1. q.by # c \/ q.n # asks[c]
        BY <2>2 DEF Fresh, Busy
      <3>2. /\ done \in [Clients \X (1 .. MaxAsks) -> Seq(Controllers)]
            /\ asks[c] \in 1 .. MaxAsks
        BY ClusterAssumption DEF OnceInv, TypeInv, TypeOK, ClientTypeOK, NetworkTypeOK
      <3>3. <<c, asks[c]>> \in Clients \X (1 .. MaxAsks) /\ <<c, asks[c]>> # <<q.by, q.n>>
        BY <3>1, <3>2
      <3>4. QED
        BY <2>2, <3>2, <3>3
    <2>3. QED
      BY <2>1, <2>2 DEF Execute
  <1>4. QED
    BY <1>1, <1>2, <1>3 DEF Fresh

\* A request stays fresh if nothing happens to the calls, or a call is sent for another.
LEMMA FreshStays ==
  ASSUME NEW c, done' = done, asks'[c] = asks[c], Fresh(c),
         \/ calls' = calls
         \/ \E m, k, op : Call(m, k, op) /\ work[m].by # c
  PROVE  Fresh(c)'
  <1>1. ~Busy(c, asks[c])'
    <2>1. CASE calls' = calls
      BY <2>1 DEF Fresh, Busy
    <2>2. ASSUME NEW m, NEW k, NEW op, Call(m, k, op), work[m].by # c
          PROVE  ~Busy(c, asks[c])'
      BY <2>2 DEF Call, Fresh, Busy
    <2>3. QED
      BY <2>1, <2>2
  <1>2. QED
    BY <1>1 DEF Fresh

\* What a client was told stays true as long as it makes no other request.
LEMMA ToldStays ==
  ASSUME AnswerInv, Kept,
         \A c \in Clients : told'[c] # None =>
           /\ told'[c] = told[c] /\ client'[c] = client[c] /\ asks'[c] = asks[c]
           /\ ask'[c].op = ask[c].op /\ ask'[c].name = ask[c].name
           /\ Fresh(c) => Fresh(c)'
  PROVE  Told'
  <1>1. ASSUME NEW c \in Clients, told'[c] # None
        PROVE  /\ IF told'[c].ok
                    THEN \E p \in Controllers :
                           done'[<<c, asks'[c]>>] = <<p>> /\ p[1] = told'[c].from
                    ELSE done'[<<c, asks'[c]>>] = <<>>
               /\ ask'[c].op = "do" => told'[c].from \in {ask'[c].name, No}
               /\ client'[c] = "prompt" /\ asks'[c] > 0 /\ (~told'[c].ok => Fresh(c)')
    <2>1. /\ told'[c] = told[c] /\ told[c] # None /\ client'[c] = client[c]
          /\ asks'[c] = asks[c] /\ ask'[c].op = ask[c].op /\ ask'[c].name = ask[c].name
          /\ Fresh(c) => Fresh(c)'
      BY <1>1
    <2>2. client[c] = "prompt" /\ asks[c] > 0 /\ (~told[c].ok => Fresh(c))
      BY <2>1 DEF AnswerInv, Told
    <2>3. /\ told[c].ok => \E p \in Controllers :
                              done[<<c, asks[c]>>] = <<p>> /\ p[1] = told[c].from
          /\ ask[c].op = "do" => told[c].from \in {ask[c].name, No}
      BY <2>1 DEF AnswerInv, Told, TrueAnswers
    <2>4. CASE told[c].ok
      <3>1. PICK p \in Controllers : done[<<c, asks[c]>>] = <<p>> /\ p[1] = told[c].from
        BY <2>3, <2>4
      <3>2. asks[c] \in 1 .. MaxAsks
        BY <2>2, ClusterAssumption DEF AnswerInv, OnceInv, TypeInv, TypeOK, ClientTypeOK
      <3>3. done'[<<c, asks'[c]>>] = <<p>>
        <4>1. done[<<c, asks[c]>>] # <<>>
          BY <3>1
        <4>2. done'[<<c, asks[c]>>] = done[<<c, asks[c]>>]
          BY <3>2, <4>1 DEF Kept
        <4>3. QED
          BY <2>1, <3>1, <4>2
      <3>4. QED
        BY <2>1, <2>2, <2>3, <2>4, <3>1, <3>3
    <2>5. CASE ~told[c].ok
      <3>1. Fresh(c)'
        BY <2>1, <2>2, <2>5
      <3>2. done'[<<c, asks'[c]>>] = <<>>
        BY <3>1 DEF Fresh
      <3>3. QED
        BY <2>1, <2>2, <2>3, <2>5, <3>1, <3>2
    <2>6. QED
      BY <2>4, <2>5
  <1>2. QED
    BY <1>1 DEF Told, TrueAnswers

\* An answer stays true until it is read.
LEMMA SaysStays ==
  ASSUME AnswerInv, Kept, NEW a \in answers, Says(a),
         work'[a.to].by = work[a.to].by, asks'[work[a.to].by] = asks[work[a.to].by],
         Fresh(work[a.to].by) => Fresh(work[a.to].by)'
  PROVE  Says(a)'
  <1> DEFINE c == work[a.to].by
  <1>1. a.to \in Managers /\ work[a.to].stage # "none"
    BY DEF AnswerInv, Flight, Awaits, OnceInv, TypeInv, TypeOK, NetworkTypeOK
  <1>2. c \in Clients /\ asks[c] \in 1 .. MaxAsks
    BY <1>1, ClusterAssumption DEF AnswerInv, OnceInv, TypeInv, Asked, TypeOK, ClientTypeOK
  <1>3. CASE a.ok
    <2>1. done[<<c, asks[c]>>] = <<a.from>> /\ <<a.from>> # <<>>
      BY <1>3 DEF Says
    <2>2. done'[<<c, asks[c]>>] = <<a.from>>
      BY <1>2, <2>1 DEF Kept
    <2>3. QED
      BY <1>3, <2>2 DEF Says
  <1>4. CASE ~a.ok
    BY <1>4 DEF Says
  <1>5. QED
    BY <1>3, <1>4

\* The other managers and their connections are not disturbed by a step of m after
\* which nothing on its own connections will be answered.
LEMMA FlightIdle ==
  ASSUME AnswerInv, NEW m \in Managers,
         UNCHANGED <<asks, done, calls>>, answers' \subseteq answers,
         \A p \in Controllers : controller[p] = "ended" => controller'[p] = "ended",
         \A k \in Managers : k # m =>
           work'[k] = work[k] /\ supervised'[k] = supervised[k] /\ manager'[k] = manager[k],
         manager[m] \in {"up", "ended"} => manager'[m] \in {"up", "ended"},
         \A a \in answers' : a.to # m,
         \A q \in calls : q.from = m => ~Live(q)'
  PROVE  Flight'
  <1> USE DEF AnswerInv, Flight
  <1>1. calls \subseteq [from : Managers, to : Controllers, op : Ops \ {"none"},
                         by : Clients, n : 1 .. MaxAsks]
    BY DEF OnceInv, TypeInv, TypeOK, NetworkTypeOK
  <1>2. answers \subseteq [from : Controllers, to : Managers, ok : BOOLEAN]
    BY DEF OnceInv, TypeInv, TypeOK, NetworkTypeOK
  <1>3. ASSUME NEW q \in calls
        PROVE  /\ manager'[q.from] \in {"up", "ended"}
               /\ Live(q)' =>
                    /\ Awaits(q.from, q.to)'
                    /\ q.op = CallOf(work'[q.from].stage, work'[q.from].op)
                    /\ q.by = work'[q.from].by /\ q.n = asks'[q.by]
                    /\ \A a \in answers' : a.to # q.from
    <2>1. CASE q.from = m
      BY <1>1, <2>1
    <2>2. CASE q.from # m
      <3>1. work'[q.from] = work[q.from] /\ supervised'[q.from] = supervised[q.from]
            /\ manager'[q.from] = manager[q.from]
        BY <1>1, <2>2
      <3>2. Live(q)' => Live(q)
        BY <1>1, <3>1 DEF Live
      <3>3. QED
        BY <3>1, <3>2 DEF Awaits
    <2>3. QED
      BY <2>1, <2>2
  <1>4. ASSUME NEW a \in answers'
        PROVE  /\ Awaits(a.to, a.from)'
               /\ work'[a.to].stage = "probe" /\ work'[a.to].op = "templates" => a.ok
               /\ work'[a.to].stage = "call" => Says(a)'
    <2>1. /\ a \in answers /\ a.to \in Managers
          /\ work'[a.to] = work[a.to] /\ supervised'[a.to] = supervised[a.to]
      BY <1>2, <1>4
    <2>2. Awaits(a.to, a.from)'
      BY <2>1 DEF Awaits
    <2>3. Says(a) => Says(a)'
      BY <2>1, FreshStays, SaysStays DEF Kept
    <2>4. QED
      BY <2>1, <2>2, <2>3
  <1>5. QED
    BY <1>3, <1>4

\* A step of others than managers, that carries nothing out.
LEMMA FlightOthers ==
  ASSUME AnswerInv,
         UNCHANGED <<manager, supervised, work, done, calls>>, answers' \subseteq answers,
         \A p \in Controllers : controller[p] = "ended" => controller'[p] = "ended",
         \A m \in Managers : work[m].stage # "none" => asks'[work[m].by] = asks[work[m].by]
  PROVE  Flight'
  <1> USE DEF AnswerInv, Flight
  <1>1. calls \subseteq [from : Managers, to : Controllers, op : Ops \ {"none"},
                         by : Clients, n : 1 .. MaxAsks]
    BY DEF OnceInv, TypeInv, TypeOK, NetworkTypeOK
  <1>2. answers \subseteq [from : Controllers, to : Managers, ok : BOOLEAN]
    BY DEF OnceInv, TypeInv, TypeOK, NetworkTypeOK
  <1>3. ASSUME NEW q \in calls, Live(q)'
        PROVE  /\ Awaits(q.from, q.to)'
               /\ q.op = CallOf(work'[q.from].stage, work'[q.from].op)
               /\ q.by = work'[q.from].by /\ q.n = asks'[q.by]
               /\ \A a \in answers' : a.to # q.from
    <2>1. Live(q)
      BY <1>1, <1>3 DEF Live
    <2>2. QED
      BY <1>1, <2>1 DEF Awaits
  <1>4. ASSUME NEW a \in answers'
        PROVE  /\ Awaits(a.to, a.from)'
               /\ work'[a.to].stage = "probe" /\ work'[a.to].op = "templates" => a.ok
               /\ work'[a.to].stage = "call" => Says(a)'
    <2>1. a \in answers /\ a.to \in Managers
      BY <1>2, <1>4
    <2>2. work'[a.to] = work[a.to] /\ supervised'[a.to] = supervised[a.to]
      OBVIOUS
    <2>3. Awaits(a.to, a.from)' /\ work[a.to].stage # "none"
      BY <2>1, <2>2 DEF Awaits
    <2>4. Says(a) => Says(a)'
      BY <2>1, <2>2, <2>3, FreshStays, SaysStays DEF Kept
    <2>5. QED
      BY <2>1, <2>2, <2>3, <2>4
  <1>5. QED
    BY <1>3, <1>4

\* A handler with nothing on its connections sends a call.
LEMMA FlightCall ==
  ASSUME AnswerInv, NEW m \in Managers, NEW k \in 1 .. N(m), NEW stage \in {"probe", "call"},
         NEW tries, NEW found, work[m].stage # "none",
         Call(m, k, CallOf(stage, work[m].op)),
         Proceed(m, stage, tries, k, found), answers' \subseteq answers,
         UNCHANGED <<asks, manager, supervised, controller, done>>,
         \A q \in calls : q.from = m => ~Live(q),
         \A a \in answers' : a.to # m
  PROVE  Flight'
  <1> USE DEF AnswerInv, Flight
  <1> DEFINE op == CallOf(stage, work[m].op)
             new == [from |-> m, to |-> supervised[m][k], op |-> op,
                     by |-> work[m].by, n |-> asks[work[m].by]]
  <1>1. calls \subseteq [from : Managers, to : Controllers, op : Ops \ {"none"},
                         by : Clients, n : 1 .. MaxAsks]
    BY DEF OnceInv, TypeInv, TypeOK, NetworkTypeOK
  <1>2. answers \subseteq [from : Controllers, to : Managers, ok : BOOLEAN]
    BY DEF OnceInv, TypeInv, TypeOK, NetworkTypeOK
  <1>3. calls' = calls \cup {new}
    BY DEF Call
  <1>4. /\ work'[m].by = work[m].by /\ work'[m].op = work[m].op
        /\ work'[m].stage = stage /\ work'[m].at = k
        /\ \A j \in Managers : j # m => work'[j] = work[j]
    BY ProceedWork DEF OnceInv
  <1>5. \A q \in calls : Live(q)' <=> Live(q)
    BY DEF Live
  <1>6. ASSUME NEW q \in calls'
        PROVE  /\ manager'[q.from] \in {"up", "ended"}
               /\ Live(q)' =>
                    /\ Awaits(q.from, q.to)'
                    /\ q.op = CallOf(work'[q.from].stage, work'[q.from].op)
                    /\ q.by = work'[q.from].by /\ q.n = asks'[q.by]
                    /\ \A a \in answers' : a.to # q.from
    <2>1. CASE q = new
      BY <1>4, <2>1 DEF Awaits, OnceInv, Turn
    <2>2. CASE q \in calls /\ q.from = m
      BY <1>5, <2>2
    <2>3. CASE q \in calls /\ q.from # m
      BY <1>1, <1>4, <1>5, <2>3 DEF Awaits
    <2>4. QED
      BY <1>3, <2>1, <2>2, <2>3
  <1>7. ASSUME NEW a \in answers'
        PROVE  /\ Awaits(a.to, a.from)'
               /\ work'[a.to].stage = "probe" /\ work'[a.to].op = "templates" => a.ok
               /\ work'[a.to].stage = "call" => Says(a)'
    <2>1. a \in answers /\ a.to \in Managers /\ a.to # m
      BY <1>2, <1>7
    <2>2. work'[a.to] = work[a.to] /\ Awaits(a.to, a.from)' /\ work[a.to].stage # "none"
      BY <1>4, <2>1 DEF Awaits
    <2>3. work[a.to].by # work[m].by
      BY <2>1, <2>2 DEF OnceInv, Turn
    <2>4. Says(a) => Says(a)'
      BY <2>1, <2>2, <2>3, FreshStays, SaysStays DEF Kept
    <2>5. QED
      BY <2>1, <2>2, <2>4
  <1>8. QED
    BY <1>6, <1>7

\* A call is answered, truly.
LEMMA FlightExecute ==
  ASSUME AnswerInv, NEW p \in Controllers, NEW q \in calls, Execute(p, q)
  PROVE  Flight'
  <1> USE DEF AnswerInv, Flight
  <1>1. calls \subseteq [from : Managers, to : Controllers, op : Ops \ {"none"},
                         by : Clients, n : 1 .. MaxAsks]
    BY DEF OnceInv, TypeInv, TypeOK, NetworkTypeOK
  <1>2. answers \subseteq [from : Controllers, to : Managers, ok : BOOLEAN]
    BY DEF OnceInv, TypeInv, TypeOK, NetworkTypeOK
  <1>3. UNCHANGED <<asks, manager, supervised, work, controller>> /\ calls' = calls \ {q}
    BY DEF Execute, clients, managers
  <1>4. PICK ok \in BOOLEAN :
          /\ answers' = IF manager[q.from] = "ended" THEN answers
                          ELSE answers \cup {[from |-> p, to |-> q.from, ok |-> ok]}
          /\ done' = IF q.op \notin Listings /\ ok
                       THEN [done EXCEPT ![<<q.by, q.n>>] = Append(@, p)] ELSE done
          /\ q.op = "templates" => ok
    BY DEF Execute
  <1> DEFINE new == [from |-> p, to |-> q.from, ok |-> ok]
  <1>5. manager[q.from] # "ended" =>
          /\ Live(q) /\ Awaits(q.from, p) /\ \A a \in answers : a.to # q.from
          /\ q.op = CallOf(work[q.from].stage, work[q.from].op)
          /\ q.by = work[q.from].by /\ q.n = asks[q.by]
    BY DEF Execute, Live
  <1>6. \A r \in calls : r # q /\ Live(r) /\ manager[q.from] # "ended" => r.from # q.from
    <2>1. ASSUME NEW r \in calls, Live(r), manager[q.from] # "ended", r.from = q.from
          PROVE  r = q
      <3>1. r.to = q.to /\ r.op = q.op /\ r.by = q.by /\ r.n = q.n
        BY <1>5, <2>1 DEF Awaits
      <3>2. QED
        BY <1>1, <2>1, <3>1
    <2>2. QED
      BY <2>1
  <1>7. ASSUME NEW r \in calls'
        PROVE  /\ manager'[r.from] \in {"up", "ended"}
               /\ Live(r)' =>
                    /\ Awaits(r.from, r.to)'
                    /\ r.op = CallOf(work'[r.from].stage, work'[r.from].op)
                    /\ r.by = work'[r.from].by /\ r.n = asks'[r.by]
                    /\ \A a \in answers' : a.to # r.from
    <2>1. r \in calls /\ r # q /\ (Live(r)' <=> Live(r))
      BY <1>3, <1>7 DEF Live
    <2>2. Live(r) => \A a \in answers' : a.to # r.from
      BY <1>4, <1>6, <2>1
    <2>3. QED
      BY <1>3, <2>1, <2>2 DEF Awaits
  <1>8. \A a \in answers' : a \in answers \/ (a = new /\ manager[q.from] # "ended")
    BY <1>4
  <1>9. Kept /\ \A c \in Clients : asks[c] > 0 /\ Fresh(c) => Fresh(c)'
    BY ExecuteKeeps, ExecuteFresh
  <1>10. ASSUME NEW a \in answers'
        PROVE  /\ Awaits(a.to, a.from)'
               /\ work'[a.to].stage = "probe" /\ work'[a.to].op = "templates" => a.ok
               /\ work'[a.to].stage = "call" => Says(a)'
    <2>1. CASE a \in answers
      <3>1. work[a.to].stage # "none" /\ Awaits(a.to, a.from)'
        BY <1>3, <2>1 DEF Awaits
      <3>2. work[a.to].by \in Clients /\ asks[work[a.to].by] > 0
        BY <1>2, <2>1, <3>1 DEF OnceInv, TypeInv, Asked
      <3>3. Says(a) => Says(a)'
        BY <1>3, <1>9, <2>1, <3>2, SaysStays
      <3>4. QED
        BY <1>3, <2>1, <3>1, <3>3
    <2>2. CASE a = new /\ manager[q.from] # "ended"
      <3>1. Awaits(a.to, a.from)'
        BY <1>3, <1>5, <2>2 DEF Awaits
      <3>2. work'[a.to].stage = "probe" /\ work'[a.to].op = "templates" => a.ok
        BY <1>3, <1>4, <1>5, <2>2 DEF CallOf, ListingFor
      <3>3. ASSUME work[q.from].stage = "call"
            PROVE  Says(a)'
        <4>1. q.op \notin Listings /\ Busy(q.by, q.n)
          BY <1>1, <1>5, <2>2, <3>3 DEF OnceInv, Turn, CallOf, Listings, Busy
        <4>2. done[<<q.by, q.n>>] = <<>> /\ <<q.by, q.n>> \in Clients \X (1 .. MaxAsks)
          BY <1>1, <4>1 DEF OnceInv, CalledOnce
        <4>3. done \in [Clients \X (1 .. MaxAsks) -> Seq(Controllers)]
          BY DEF OnceInv, TypeInv, TypeOK, NetworkTypeOK
        <4>4. ok => done'[<<q.by, q.n>>] = <<p>>
          BY <1>4, <4>1, <4>2, <4>3
        <4>5. ~ok => done'[<<q.by, q.n>>] = <<>>
          BY <1>4, <4>2
        <4>6. ~Busy(q.by, q.n)'
          BY <1>3, <4>1 DEF OnceInv, CalledOnce, Busy
        <4>7. a.to = q.from /\ a.from = p /\ a.ok = ok
          BY <2>2
        <4>8. QED
          BY <1>3, <1>5, <2>2, <4>4, <4>5, <4>6, <4>7 DEF Says, Fresh
      <3>4. QED
        BY <1>3, <2>2, <3>1, <3>2, <3>3
    <2>3. QED
      BY <1>8, <2>1, <2>2
  <1>11. \A a, b \in answers' : a.to = b.to => a = b
    BY <1>5, <1>8
  <1>12. QED
    BY <1>7, <1>10, <1>11

\* A manager goes on with the same request, or with none.
LEMMA UnderstoodStays ==
  ASSUME AnswerInv, NEW m \in Managers, UNCHANGED <<ask, asks>>,
         \A c \in Clients : client'[c] = "waiting" => client[c] = "waiting",
         \A k \in Managers : k # m => work'[k] = work[k] /\ supervised'[k] = supervised[k],
         work'[m].stage # "none" =>
           /\ work[m].stage # "none" /\ work'[m].by = work[m].by
           /\ work'[m].op = work[m].op /\ work'[m].name = work[m].name,
         work'[m].stage = "call" /\ work'[m].op = "do" =>
           supervised'[m][work'[m].at][1] = work'[m].name
  PROVE  Understood'
  <1> USE DEF AnswerInv, Understood
  <1>1. \A k \in Managers : work[k].stage # "none" => work[k].by \in Clients
    BY DEF OnceInv, TypeInv, Asked
  <1>2. ASSUME NEW k \in Managers
        PROVE  /\ work'[k].stage # "none" /\ client'[work'[k].by] = "waiting" =>
                    /\ ask'[work'[k].by].op = work'[k].op
                    /\ ask'[work'[k].by].name = work'[k].name
               /\ work'[k].stage = "call" /\ work'[k].op = "do" =>
                    supervised'[k][work'[k].at][1] = work'[k].name
    <2>1. CASE k = m
      BY <1>1, <2>1
    <2>2. CASE k # m
      BY <1>1, <2>2
    <2>3. QED
      BY <2>1, <2>2
  <1>3. QED
    BY <1>2

\* A client starts or ends, or asks.
LEMMA ClientAnswer ==
  ASSUME AnswerInv, NEW c \in Clients,
         ClientStart(c) \/ ClientAsk(c) \/ ClientNew(c) \/ EndClient(c)
           \/ (ClientClosed(c) /\ ~EndClient(c)),
         UNCHANGED <<managers, controller, network, done>>
  PROVE  Flight' /\ Understood' /\ Told'
  <1> USE DEF AnswerInv
  <1>1. /\ client \in [Clients -> {"off", "prompt", "offered", "waiting", "stalled", "ended"}]
        /\ ask \in [Clients -> [op : Ops, name : Names \cup {None},
                             stage : {"none", "sent", "taken"}]]
        /\ asks \in [Clients -> 0 .. MaxAsks] /\ told \in [Clients -> {None} \cup [from : Names \cup {No}, ok : BOOLEAN]]
    BY DEF OnceInv, TypeInv, TypeOK, ClientTypeOK
  <1>2. \A b \in Clients : b # c => /\ client'[b] = client[b] /\ ask'[b] = ask[b]
                                    /\ asks'[b] = asks[b] /\ told'[b] = told[b]
    BY <1>1 DEF ClientStart, ClientAsk, ClientNew, EndClient, ClientClosed, Send
  <1>3. told'[c] = None
    <2>1. told[c] # None => client[c] = "prompt"
      BY DEF Told
    <2>2. QED
      BY <1>1, <2>1 DEF ClientStart, ClientAsk, ClientNew, EndClient, ClientClosed
  <1>4. Told'
    <2>1. \A b \in Clients : b # c /\ Fresh(b) => Fresh(b)'
      BY <1>2, FreshStays DEF network
    <2>2. Kept
      BY DEF Kept
    <2>3. QED
      BY <1>2, <1>3, <2>1, <2>2, ToldStays
  <1>5. \A m \in Managers : work[m].stage # "none" =>
          \/ work[m].by \in Clients \ {c}
          \/ asks' = asks /\ client'[c] = "ended" /\ work[m].by = c
    <2>1. CASE EndClient(c)
      BY <1>1, <2>1 DEF EndClient, OnceInv, TypeInv, Asked
    <2>2. CASE ~EndClient(c)
      BY <2>2 DEF ClientStart, ClientAsk, ClientNew, ClientClosed, OnceInv, Turn, TypeInv, Asked
    <2>3. QED
      BY <2>1, <2>2
  <1>6. Flight'
    BY <1>2, <1>5, FlightOthers DEF managers, network
  <1>7. Understood'
    BY <1>2, <1>5 DEF Understood, managers
  <1>8. QED
    BY <1>4, <1>6, <1>7

\* A manager starts.
LEMMA StartAnswer ==
  ASSUME AnswerInv, NEW m \in Managers,
         ManagerStart(m) \/ ManagerConnect(m) \/ ManagerReady(m)
  PROVE  Flight' /\ Understood' /\ Told'
  <1> USE DEF AnswerInv
  <1>1. UNCHANGED <<client, ask, asks, told, work, calls, answers, controller, done>>
    BY DEF ManagerStart, ManagerConnect, ManagerReady, clients, network
  <1>2. manager[m] \in {"off", "start"}
    BY DEF ManagerStart, ManagerConnect, ManagerReady
  <1>3. work[m].stage = "none"
    BY <1>2 DEF OnceInv, Turn
  <1>4. \A k \in Managers : k # m => manager'[k] = manager[k] /\ supervised'[k] = supervised[k]
    BY DEF ManagerStart, ManagerConnect, ManagerReady, OnceInv, TypeInv, TypeOK, ManagerTypeOK
  <1>5. \A q \in calls : q.from # m
    BY <1>2 DEF Flight
  <1>6. Flight'
    BY <1>1, <1>2, <1>3, <1>4, <1>5, Alone, FlightIdle
  <1>7. Understood'
    BY <1>1, <1>3, <1>4, UnderstoodStays
  <1>8. Told'
    BY <1>1 DEF Told, TrueAnswers, Fresh, Busy
  <1>9. QED
    BY <1>6, <1>7, <1>8

\* A manager goes on with its request, or ends; its client hears nothing.
LEMMA SilentAnswer ==
  ASSUME AnswerInv, NEW m \in Managers,
         UNCHANGED <<clients, supervised, controller, calls, done>>, answers' \subseteq answers,
         \A k \in Managers : k # m => work'[k] = work[k] /\ manager'[k] = manager[k],
         manager[m] \in {"up", "ended"} => manager'[m] \in {"up", "ended"},
         \A a \in answers' : a.to # m,
         \A q \in calls : q.from = m => ~Live(q)',
         work'[m].stage \in {"none", "pick"},
         work'[m].stage # "none" =>
           /\ work[m].stage # "none" /\ work'[m].by = work[m].by
           /\ work'[m].op = work[m].op /\ work'[m].name = work[m].name
  PROVE  Flight' /\ Understood' /\ Told'
  <1>1. Flight'
    BY FlightIdle DEF clients
  <1>2. Understood'
    BY UnderstoodStays DEF clients
  <1>3. Told'
    BY DEF AnswerInv, Told, TrueAnswers, Fresh, Busy, clients
  <1>4. QED
    BY <1>1, <1>2, <1>3

\* A manager sends a call.
LEMMA CallAnswer ==
  ASSUME AnswerInv, NEW m \in Managers, NEW k \in 1 .. N(m), NEW stage \in {"probe", "call"},
         NEW tries, NEW found, work[m].stage # "none",
         Call(m, k, CallOf(stage, work[m].op)),
         Proceed(m, stage, tries, k, found), answers' \subseteq answers,
         UNCHANGED <<clients, manager, supervised, controller, done>>,
         \A q \in calls : q.from = m => ~Live(q),
         \A a \in answers' : a.to # m,
         stage = "call" /\ work[m].op = "do" => supervised[m][k][1] = work[m].name
  PROVE  Flight' /\ Understood' /\ Told'
  <1>1. Flight'
    BY FlightCall DEF clients
  <1>2. /\ work'[m].by = work[m].by /\ work'[m].op = work[m].op
        /\ work'[m].name = work[m].name /\ work'[m].stage = stage /\ work'[m].at = k
        /\ \A j \in Managers : j # m => work'[j] = work[j]
    BY ProceedWork DEF AnswerInv, OnceInv
  <1>3. Understood'
    BY <1>2, UnderstoodStays DEF clients
  <1>4. Told'
    <2>1. told[work[m].by] = None
      BY DEF AnswerInv, Told, OnceInv, Turn, TypeInv, Asked
    <2>2. \A b \in Clients : b # work[m].by /\ Fresh(b) => Fresh(b)'
      BY FreshStays DEF clients
    <2>3. Kept
      BY DEF Kept
    <2>4. QED
      BY <2>1, <2>2, <2>3, ToldStays DEF clients
  <1>5. QED
    BY <1>1, <1>3, <1>4

\* A true answer to the request that a manager works on.
Truthful(m, a) == LET c == work[m].by IN
  /\ IF a.ok THEN \E p \in Controllers : done[<<c, asks[c]>>] = <<p>> /\ p[1] = a.from
            ELSE Fresh(c)
  /\ work[m].op = "do" => a.from \in {work[m].name, No}

\* A manager replies what is true.
LEMMA ReplyAnswer ==
  ASSUME AnswerInv, NEW m \in Managers, NEW a, work[m].stage # "none",
         Reply(m, a), calls' = calls, answers' \subseteq answers,
         \A q \in calls : q.from = m => ~Live(q),
         \A b \in answers' : b.to # m,
         work[m].op \in Listings \/ Truthful(m, a)
  PROVE  Flight' /\ Understood' /\ Told'
  <1> USE DEF AnswerInv
  <1> DEFINE c == work[m].by
  <1>1. c \in Clients /\ asks[c] > 0
    BY DEF OnceInv, TypeInv, Asked
  <1>2. work'[m].stage = "none" /\ \A k \in Managers : k # m => work'[k] = work[k]
    BY DEF Reply, Idle, OnceInv, TypeInv, TypeOK, WorkTypeOK
  <1>3. UNCHANGED <<link, ask, asks, manager, supervised, controller, done>>
    BY DEF Reply
  <1>4. /\ client \in [Clients -> {"off", "prompt", "offered", "waiting", "stalled", "ended"}]
        /\ told \in [Clients -> {None} \cup [from : Names \cup {No}, ok : BOOLEAN]]
    BY DEF OnceInv, TypeInv, TypeOK, ClientTypeOK
  <1>5. \/ client' = client /\ told' = told
        \/ /\ client[c] = "waiting"
           /\ \E next \in {"prompt", "offered", "stalled"} :
                client' = [client EXCEPT ![c] = next]
           /\ told' = [told EXCEPT ![c] = IF work[m].op \in Listings THEN None ELSE a]
           /\ work[m].op \notin Listings => client' = [client EXCEPT ![c] = "prompt"]
    <2>1. Hear(m, a)
      BY DEF Reply
    <2>2. QED
      BY <2>1, HearGoesOn DEF OnceInv, Listings
  <1>6. Flight'
    BY <1>2, <1>3, FlightIdle DEF Live
  <1>7. Understood'
    <2>1. \A b \in Clients : client'[b] = "waiting" => client[b] = "waiting"
      BY <1>1, <1>4, <1>5
    <2>2. QED
      BY <1>2, <1>3, <2>1, UnderstoodStays
  <1>8. Told'
    <2>1. Kept /\ \A b \in Clients : Fresh(b) => Fresh(b)'
      BY <1>3, FreshStays DEF Kept
    <2>2. CASE client' = client /\ told' = told
      BY <1>3, <2>1, <2>2, ToldStays
    <2>3. CASE /\ client[c] = "waiting" /\ told'[c] = None
               /\ \A b \in Clients : b # c => client'[b] = client[b] /\ told'[b] = told[b]
      BY <1>3, <2>1, <2>3, ToldStays
    <2>4. CASE /\ client[c] = "waiting" /\ work[m].op \notin Listings
               /\ client'[c] = "prompt" /\ told'[c] = a
               /\ \A b \in Clients : b # c => client'[b] = client[b] /\ told'[b] = told[b]
      <3>1. ask[c].op = work[m].op /\ ask[c].name = work[m].name
        BY <2>4 DEF Understood
      <3>2. Truthful(m, a)
        BY <2>4
      <3>3. ~a.ok => Fresh(c) /\ done[<<c, asks[c]>>] = <<>>
        BY <3>2 DEF Truthful, Fresh
      <3>4. /\ IF a.ok THEN \E p \in Controllers : done[<<c, asks[c]>>] = <<p>> /\ p[1] = a.from
                      ELSE done[<<c, asks[c]>>] = <<>>
            /\ ask[c].op = "do" => a.from \in {ask[c].name, No}
        BY <3>1, <3>2, <3>3 DEF Truthful
      <3>5. ASSUME NEW b \in Clients, told'[b] # None
            PROVE  /\ IF told'[b].ok
                        THEN \E p \in Controllers :
                               done'[<<b, asks'[b]>>] = <<p>> /\ p[1] = told'[b].from
                        ELSE done'[<<b, asks'[b]>>] = <<>>
                   /\ ask'[b].op = "do" => told'[b].from \in {ask'[b].name, No}
                   /\ client'[b] = "prompt" /\ asks'[b] > 0 /\ (~told'[b].ok => Fresh(b)')
        <4>1. CASE b = c
          <5> HIDE DEF c
          <5>1. ask' = ask /\ asks' = asks /\ done' = done
            BY <1>3
          <5>2. told'[b] = a /\ client'[b] = "prompt"
            BY <2>4, <4>1
          <5>3. ~a.ok => Fresh(b)'
            BY <2>1, <3>3, <4>1
          <5>4. QED
            BY <1>1, <3>4, <4>1, <5>1, <5>2, <5>3
        <4>2. CASE b # c
          BY <1>3, <2>1, <2>4, <3>5, <4>2 DEF Told, TrueAnswers
        <4>3. QED
          BY <4>1, <4>2
      <3>6. QED
        BY <3>5 DEF Told, TrueAnswers
    <2>5. QED
      BY <1>1, <1>4, <1>5, <2>2, <2>3, <2>4
  <1>9. QED
    BY <1>6, <1>7, <1>8

\* A handler takes a request.
LEMMA TakeAnswer ==
  ASSUME AnswerInv, NEW m \in Managers, NEW c \in Clients, Take(m, c)
  PROVE  Flight' /\ Understood' /\ Told'
  <1> USE DEF AnswerInv
  <1>1. /\ work[m].stage = "none"
        /\ work'[m].by = c /\ work'[m].op = ask[c].op /\ work'[m].name = ask[c].name
        /\ work'[m].stage = "pick" /\ \A k \in Managers : k # m => work'[k] = work[k]
    BY DEF Take, CanTake, Idle, OnceInv, TypeInv, TypeOK, WorkTypeOK
  <1>2. /\ ask'[c].op = ask[c].op /\ ask'[c].name = ask[c].name
        /\ \A b \in Clients : b # c => ask'[b] = ask[b]
    BY DEF Take, CanTake, OnceInv, TypeInv, TypeOK, ClientTypeOK
  <1>3. UNCHANGED <<client, asks, told, manager, supervised, controller, calls, answers, done>>
    BY DEF Take, CanTake, network
  <1>4. Flight'
    BY <1>1, <1>3, Alone, FlightIdle DEF Live
  <1>5. \A k \in Managers : work[k].stage # "none" => work[k].by \in Clients
    BY DEF OnceInv, TypeInv, Asked
  <1>6. Understood'
    BY <1>1, <1>2, <1>3, <1>5 DEF Understood
  <1>7. Told'
    <2>1. \A b \in Clients : ask'[b].op = ask[b].op /\ ask'[b].name = ask[b].name
      BY <1>2
    <2>2. Kept /\ \A b \in Clients : Fresh(b) => Fresh(b)'
      BY <1>3, FreshStays DEF Kept
    <2>3. QED
      BY <1>3, <2>1, <2>2, ToldStays
  <1>8. QED
    BY <1>4, <1>6, <1>7

\* A handler works on its request.
LEMMA WorkAnswer ==
  ASSUME AnswerInv, NEW m \in Managers,
         Probe(m) \/ ProbesEnd(m) \/ Find(m) \/ Probed(m) \/ Called(m)
  PROVE  Flight' /\ Understood' /\ Told'
  <1> USE DEF AnswerInv
  <1>1. work[m].stage \in {"probe", "call"} => work[m].at \in 1 .. N(m)
    BY DEF OnceInv, TypeInv, TypeOK, ManagerTypeOK, WorkTypeOK, IndexOK, N
  <1>2. work[m].found \in BOOLEAN /\ work[m].op \in Ops
    BY DEF OnceInv, TypeInv, TypeOK, WorkTypeOK
  <1>3. work[m].stage # "none" => work[m].op # "none"
    BY DEF OnceInv, TypeInv, Asked
  <1>4. CASE Probe(m)
    <2>1. NextAt(m) \in 1 .. N(m) /\ work[m].stage = "pick"
      BY <1>4, NextAtType DEF Probe, OnceInv
    <2>2. /\ Proceed(m, "probe", work[m].tries - 1, NextAt(m), work[m].found)
          /\ Call(m, NextAt(m), ListingFor(work[m].op))
          /\ UNCHANGED <<clients, manager, supervised, controller, answers, done>>
      BY <1>4 DEF Probe
    <2>3. QED
      BY <2>1, <2>2, Alone, CallAnswer DEF CallOf
  <1>5. CASE ProbesEnd(m)
    <2> DEFINE a == Answer(No, work[m].op \in Listings /\ work[m].found)
    <2>1. work[m].stage = "pick" /\ UNCHANGED network /\ Reply(m, a)
      BY <1>5 DEF ProbesEnd
    <2>2. work[m].op \in Listings \/ Truthful(m, a)
      BY <2>1 DEF Answer, Truthful, OnceInv, FreshUntilCalled
    <2> HIDE DEF a
    <2>3. QED
      BY <2>1, <2>2, Alone, ReplyAnswer DEF network
  <1>6. CASE Find(m)
    <2>1. work[m].stage = "pick" /\ work[m].op = "do"
      BY <1>6 DEF Find
    <2>2. CASE Reply(m, Answer(No, FALSE)) /\ UNCHANGED network
      <3>1. Truthful(m, Answer(No, FALSE))
        BY <2>1 DEF Answer, Truthful, OnceInv, FreshUntilCalled
      <3>2. QED
        BY <2>1, <2>2, <3>1, Alone, ReplyAnswer DEF network
    <2>3. ASSUME NEW k \in 1 .. N(m), IsNamed(m, k, work[m].name),
                 Call(m, k, "do"), Goto(m, "call", k),
                 UNCHANGED <<clients, manager, supervised, controller, answers, done>>
          PROVE  Flight' /\ Understood' /\ Told'
      BY <2>1, <2>3, Alone, CallAnswer DEF Goto, IsNamed, CallOf
    <2>4. QED
      BY <1>6, <2>2, <2>3 DEF Find
  <1>7. CASE Probed(m)
    <2>1. PICK a \in From(m, work[m].at) : answers' = answers \ {a}
      BY <1>7 DEF Probed
    <2>2. /\ \A q \in calls : q.from = m => ~Live(q)
          /\ \A b \in answers' : b.to # m
      BY <2>1, Taken
    <2>3. /\ work[m].stage = "probe"
          /\ UNCHANGED <<clients, manager, supervised, controller, done>>
      BY <1>7 DEF Probed
    <2>4. CASE work[m].op = "new" /\ Call(m, work[m].at, "new") /\ Goto(m, "call", work[m].at)
      BY <1>1, <2>1, <2>2, <2>3, <2>4, CallAnswer DEF Goto, CallOf
    <2>5. ASSUME NEW b, calls' = calls,
                 Proceed(m, "pick", work[m].tries, work[m].at, work[m].found \/ b.ok)
          PROVE  Flight' /\ Understood' /\ Told'
      <3>1. /\ work'[m].by = work[m].by /\ work'[m].op = work[m].op
            /\ work'[m].name = work[m].name /\ work'[m].stage = "pick"
            /\ \A k \in Managers : k # m => work'[k] = work[k]
        BY <2>5, ProceedWork DEF OnceInv
      <3>2. \A q \in calls : Live(q)' <=> Live(q)
        BY <2>3 DEF Live
      <3>3. QED
        BY <2>1, <2>2, <2>3, <2>5, <3>1, <3>2, SilentAnswer
    <2>6. QED
      BY <1>7, <2>4, <2>5 DEF Probed
  <1>8. CASE Called(m)
    <2>1. PICK a \in From(m, work[m].at) :
            /\ answers' = answers \ {a}
            /\ Reply(m, Answer(supervised[m][work[m].at][1], a.ok))
      BY <1>8 DEF Called
    <2>2. /\ \A q \in calls : q.from = m => ~Live(q)
          /\ \A b \in answers' : b.to # m
      BY <2>1, Taken
    <2>3. work[m].stage = "call" /\ calls' = calls
      BY <1>8 DEF Called
    <2>4. a \in answers /\ a.from = supervised[m][work[m].at] /\ a.to = m
      BY DEF From
    <2>5. a.from \in Controllers
      BY <2>4 DEF OnceInv, TypeInv, TypeOK, NetworkTypeOK
    <2>6. Says(a)
      BY <2>3, <2>4 DEF Flight
    <2>7. work[m].op = "do" => supervised[m][work[m].at][1] = work[m].name
      BY <2>3 DEF Understood
    <2>8. Truthful(m, Answer(supervised[m][work[m].at][1], a.ok))
      BY <2>4, <2>5, <2>6, <2>7 DEF Truthful, Answer, Says
    <2>9. answers' \subseteq answers
      BY <2>1
    <2>10. QED
      BY <2>1, <2>2, <2>3, <2>8, <2>9, ReplyAnswer
  <1>9. QED
    BY <1>4, <1>5, <1>6, <1>7, <1>8

\* A manager ends, for any reason.
LEMMA EndManagerAnswer ==
  ASSUME AnswerInv, NEW m \in Managers, EndManager(m),
         UNCHANGED <<clients, controller, calls, done>>
  PROVE  Flight' /\ Understood' /\ Told'
  <1>1. /\ manager'[m] = "ended" /\ work'[m].stage = "none"
        /\ \A k \in Managers : k # m => work'[k] = work[k] /\ manager'[k] = manager[k]
    BY DEF EndManager, Idle, AnswerInv, OnceInv, TypeInv, TypeOK, ManagerTypeOK, WorkTypeOK
  <1>2. supervised' = supervised /\ answers' \subseteq answers /\ \A a \in answers' : a.to # m
    BY DEF EndManager
  <1>3. \A q \in calls : q.from = m => ~Live(q)'
    BY <1>1 DEF Live
  <1>4. QED
    BY <1>1, <1>2, <1>3, SilentAnswer

\* A manager notices that another process has ended.
LEMMA ManagerEndAnswer ==
  ASSUME AnswerInv, NEW m \in Managers,
         ControllerClosed(m) \/ \E c \in Clients : HandlerClosed(m, c)
  PROVE  Flight' /\ Understood' /\ Told'
  <1>1. CASE EndManager(m)
    BY <1>1, EndManagerAnswer DEF ControllerClosed, HandlerClosed
  <1>2. CASE ControllerClosed(m) /\ ~EndManager(m)
    <2>1. /\ work[m].stage = "probe" /\ Goto(m, "pick", work[m].at) /\ From(m, work[m].at) = {}
          /\ controller[supervised[m][work[m].at]] = "ended"
          /\ UNCHANGED <<clients, manager, supervised, controller, calls, answers, done>>
      BY <1>2 DEF ControllerClosed
    <2>2. \A a \in answers : a.to # m
      BY <2>1 DEF AnswerInv, Flight, Awaits, From
    <2>3. \A q \in calls : q.from = m => ~Live(q)'
      BY <2>1 DEF AnswerInv, Flight, Awaits, Live
    <2>4. work[m].found \in BOOLEAN
      BY DEF AnswerInv, OnceInv, TypeInv, TypeOK, WorkTypeOK
    <2>5. /\ work'[m].by = work[m].by /\ work'[m].op = work[m].op
          /\ work'[m].name = work[m].name /\ work'[m].stage = "pick"
          /\ \A k \in Managers : k # m => work'[k] = work[k]
      BY <2>1, <2>4, ProceedWork DEF AnswerInv, OnceInv, Goto
    <2>6. QED
      BY <2>1, <2>2, <2>3, <2>5, SilentAnswer
  <1>3. QED
    BY <1>1, <1>2 DEF HandlerClosed

\* A controller, a VM, or an end without a cause.
LEMMA ControllerAnswer ==
  ASSUME AnswerInv,
         \/ \E p \in Controllers : \/ ControllerStart(p) \/ ControllerRuns(p) \/ VmExit(p)
                                   \/ \E m \in Managers : ManagerClosed(p, m)
         \/ Crash
  PROVE  Flight' /\ Understood' /\ Told'
  <1>1. ASSUME UNCHANGED <<clients, managers, calls, done>>, answers' \subseteq answers,
               \A p \in Controllers : controller[p] = "ended" => controller'[p] = "ended"
        PROVE  Flight' /\ Understood' /\ Told'
    <2>1. Flight'
      BY <1>1, FlightOthers DEF clients, managers
    <2>2. QED
      BY <1>1, <2>1 DEF AnswerInv, Understood, Told, TrueAnswers, Fresh, Busy, clients, managers
  <1>2. controller \in [Controllers -> {"off", "up", "ended"}]
    BY DEF AnswerInv, OnceInv, TypeInv, TypeOK, NetworkTypeOK
  <1>3. ASSUME NEW p \in Controllers, NEW q \in calls, Execute(p, q)
        PROVE  Flight' /\ Understood' /\ Told'
    <2>1. UNCHANGED <<clients, managers>>
      BY <1>3 DEF Execute
    <2>2. \A c \in Clients : told[c] # None /\ Fresh(c) => Fresh(c)'
      BY <1>3, ExecuteFresh DEF AnswerInv, Told
    <2>3. Told'
      BY <1>3, <2>1, <2>2, ExecuteKeeps, ToldStays DEF AnswerInv, clients
    <2>4. QED
      BY <1>3, <2>1, <2>3, FlightExecute DEF AnswerInv, Understood, clients, managers
  <1>4. ASSUME NEW p \in Controllers, ControllerStart(p) \/ VmExit(p)
        PROVE  Flight' /\ Understood' /\ Told'
    BY <1>1, <1>2, <1>4 DEF ControllerStart, VmExit, network
  <1>5. ASSUME NEW p \in Controllers, EndController(p), UNCHANGED <<clients, managers, calls, done>>
        PROVE  Flight' /\ Understood' /\ Told'
    BY <1>1, <1>2, <1>5 DEF EndController
  <1>6. CASE Crash
    <2>1. UNCHANGED <<calls, done>>
      BY <1>6 DEF Crash
    <2>2. ASSUME NEW m \in Managers, EndManager(m), UNCHANGED <<clients, controller>>
          PROVE  Flight' /\ Understood' /\ Told'
      BY <2>1, <2>2, EndManagerAnswer
    <2>3. ASSUME NEW c \in Clients, EndClient(c), UNCHANGED <<managers, controller, answers>>
          PROVE  Flight' /\ Understood' /\ Told'
      BY <2>1, <2>3, ClientAnswer DEF network
    <2>4. QED
      BY <1>5, <1>6, <2>1, <2>2, <2>3 DEF Crash, ManagersThere
  <1>7. QED
    BY <1>3, <1>4, <1>5, <1>6 DEF ControllerRuns, ManagerClosed

\* Every step keeps the answers true.
LEMMA AnswerNext ==
  ASSUME AnswerInv, [Next]_vars
  PROVE  AnswerInv'
  <1>1. OnceInv'
    BY OnceNext DEF AnswerInv
  <1>2. CASE UNCHANGED vars
    <2>1. Flight'
      BY <1>2, FlightOthers DEF vars
    <2>2. Understood'
      BY <1>2 DEF vars, AnswerInv, Understood
    <2>3. Told'
      BY <1>2 DEF vars, AnswerInv, Told, TrueAnswers, Fresh, Busy
    <2>4. QED
      BY <1>1, <2>1, <2>2, <2>3 DEF AnswerInv
  <1>3. ASSUME NEW c \in Clients,
               ClientStart(c) \/ ClientAsk(c) \/ ClientNew(c) \/ ClientExit(c) \/ ClientClosed(c)
        PROVE  Flight' /\ Understood' /\ Told'
    <2>1. UNCHANGED <<managers, controller, network, done>>
      BY <1>3 DEF ClientStart, ClientAsk, ClientNew, ClientExit, ClientClosed
    <2>2. QED
      BY <1>3, <2>1, ClientAnswer DEF ClientExit
  <1>4. CASE Next
    BY <1>1, <1>3, <1>4, StartAnswer, TakeAnswer, WorkAnswer, ManagerEndAnswer, ControllerAnswer
    DEF Next, ManagerRuns, AnswerInv
  <1>5. QED
    BY <1>2, <1>4

\* A client that is told of a success was served once, by the controller that its
\* request or its answer names; one that is told of none, the number 0 of an instance
\* included, was not served and will not be.
THEOREM TrueAnswersCorrect == Spec => []TrueAnswers
  <1>1. Init => AnswerInv
    BY TypeInit, OnceInit, AnswerInit DEF AnswerInv, OnceInv
  <1>2. AnswerInv /\ [Next]_vars => AnswerInv'
    BY AnswerNext
  <1>3. AnswerInv => TrueAnswers
    BY DEF AnswerInv, Told
  <1>4. QED
    BY <1>1, <1>2, <1>3, PTL DEF Spec

-----------------------------------------------------------------------------
(* Nobody is stuck *)

\* Who is connected to, has started: the managers of the clients, the controllers
\* of the managers, whose VMs may listen for them.  A request is taken by a manager
\* that is up.
Reached ==
  /\ \A c \in Clients :
       /\ client[c] # "off" => link[c] \in Managers /\ manager[link[c]] # "off"
       /\ ask[c].stage = "taken" => client[c] # "off" /\ manager[link[c]] \in {"up", "ended"}
  /\ \A m \in Managers : \A k \in 1 .. N(m) : controller[supervised[m][k]] # "off"
  /\ \A p \in Controllers : vm[p] => controller[p] # "off"

\* The mutex is free, or the handler that has it has a call on its connections, or
\* an answer, or comes to one: its loop has found templates after the first answer.
OnTheWay(m) ==
  /\ work[m].stage = "none" => work[m] = Idle
  /\ ~SomeEnded /\ work[m].stage = "pick" /\ work[m].op = "templates" =>
       work[m].found \/ work[m].tries = N(m)
  /\ ~SomeEnded /\ work[m].stage \in {"probe", "call"} =>
       (\E q \in calls : q.from = m) \/ From(m, work[m].at) # {}

\* The request of a client that waits is on its connection, or a handler works on it;
\* one that stalls has had a listing of nothing.
Held(c) ==
  ~SomeEnded =>
    /\ client[c] = "waiting" =>
         ask[c].stage = "sent" \/ (ask[c].stage = "taken" /\ work[link[c]].by = c)
    /\ client[c] = "stalled" =>
         ask[c].stage = "taken" /\ (ask[c].op = "instances" \/ N(link[c]) = 0)

Served == (\A m \in Managers : OnTheWay(m)) /\ (\A c \in Clients : Held(c))

StuckInv == AnswerInv /\ Reached /\ Served

\* Nobody waits at the start.
LEMMA StuckInit == Init => Reached /\ Served
  <1> SUFFICES ASSUME Init PROVE Reached /\ Served
    OBVIOUS
  <1>1. Reached
    BY DEF Init, Reached, NoAsk, N
  <1>2. Served
    BY DEF Init, Served, OnTheWay, Held, Idle
  <1>3. QED
    BY <1>1, <1>2

\* Managers and controllers go from their start to their end, and no way back.
Onward ==
  /\ \A m \in Managers : /\ manager[m] # "off" => manager'[m] # "off"
                         /\ manager[m] \in {"up", "ended"} => manager'[m] \in {"up", "ended"}
                         /\ manager[m] = "ended" => manager'[m] = "ended"
  /\ \A p \in Controllers : /\ controller[p] # "off" => controller'[p] # "off"
                            /\ controller[p] = "ended" => controller'[p] = "ended"

\* The end of a manager or of a controller is the end of a process that lived.
LEMMA EndOnward ==
  ASSUME TypeInv,
         \/ controller' = controller /\ \E m \in Managers : manager' = [manager EXCEPT ![m] = "ended"]
         \/ manager' = manager /\ \E p \in Controllers : controller' = [controller EXCEPT ![p] = "ended"]
  PROVE  Onward
  BY DEF TypeInv, TypeOK, ManagerTypeOK, NetworkTypeOK, Onward

\* Every step leads onward.
LEMMA OnwardNext ==
  ASSUME TypeInv, Next
  PROVE  Onward
  <1>1. /\ manager \in [Managers -> {"off", "start", "up", "ended"}]
        /\ controller \in [Controllers -> {"off", "up", "ended"}]
    BY DEF TypeInv, TypeOK, ManagerTypeOK, NetworkTypeOK
  <1>2. CASE UNCHANGED <<manager, controller>>
    BY <1>2 DEF Onward
  <1>3. ASSUME NEW m \in Managers, ManagerStart(m) \/ ManagerReady(m)
        PROVE  Onward
    BY <1>1, <1>3 DEF ManagerStart, ManagerReady, Onward
  <1>4. ASSUME NEW p \in Controllers, ControllerStart(p)
        PROVE  Onward
    BY <1>1, <1>4 DEF ControllerStart, managers, Onward
  <1>5. ASSUME NEW m \in Managers, EndManager(m), controller' = controller
        PROVE  Onward
    BY <1>5, EndOnward DEF EndManager
  <1>6. ASSUME NEW p \in Controllers, EndController(p), manager' = manager
        PROVE  Onward
    BY <1>6, EndOnward DEF EndController
  <1>7. ASSUME NEW c \in Clients,
               ClientStart(c) \/ ClientAsk(c) \/ ClientNew(c) \/ ClientExit(c) \/ ClientClosed(c)
        PROVE  Onward
    BY <1>2, <1>7 DEF ClientStart, ClientAsk, ClientNew, ClientExit, ClientClosed, managers
  <1>8. ASSUME NEW m \in Managers,
               ManagerConnect(m) \/ (\E c \in Clients : Take(m, c)) \/ Probe(m) \/ Probed(m)
        PROVE  Onward
    BY <1>2, <1>8 DEF ManagerConnect, Take, Probe, Probed
  <1>9. ASSUME NEW m \in Managers, ProbesEnd(m) \/ Find(m) \/ Called(m)
        PROVE  Onward
    BY <1>2, <1>9 DEF ProbesEnd, Find, Called, Reply
  <1>10. ASSUME NEW m \in Managers,
                ControllerClosed(m) \/ \E c \in Clients : HandlerClosed(m, c)
         PROVE  Onward
    BY <1>2, <1>5, <1>10 DEF ControllerClosed, HandlerClosed
  <1>11. ASSUME NEW p \in Controllers,
                ControllerRuns(p) \/ VmExit(p) \/ \E m \in Managers : ManagerClosed(p, m)
         PROVE  Onward
    BY <1>2, <1>6, <1>11 DEF ControllerRuns, Execute, VmExit, ManagerClosed, managers
  <1>12. CASE Crash
    BY <1>2, <1>5, <1>6, <1>12 DEF Crash, ManagersThere, managers
  <1>13. QED
    BY <1>3, <1>4, <1>7, <1>8, <1>9, <1>10, <1>11, <1>12 DEF Next, ManagerRuns

\* What nobody disturbs stays reached.
LEMMA ReachedStays ==
  ASSUME TypeInv, Reached, Onward,
         \A c \in Clients :
           client'[c] # "off" => \/ client[c] # "off" /\ link'[c] = link[c]
                                 \/ link'[c] \in Managers /\ manager[link'[c]] # "off",
         \A c \in Clients :
           ask'[c].stage = "taken" =>
             /\ client'[c] # "off"
             /\ \/ client[c] # "off" /\ ask[c].stage = "taken" /\ link'[c] = link[c]
                \/ link'[c] \in Managers /\ manager[link'[c]] = "up",
         \A m \in Managers : \A k \in 1 .. N(m)' :
           \/ k \in 1 .. N(m) /\ supervised'[m][k] = supervised[m][k]
           \/ supervised'[m][k] \in Controllers /\ controller[supervised'[m][k]] # "off",
         \A p \in Controllers : vm'[p] => vm[p] \/ controller[p] # "off"
  PROVE  Reached'
  <1>1. ASSUME NEW c \in Clients
        PROVE  /\ client'[c] # "off" => link'[c] \in Managers /\ manager'[link'[c]] # "off"
               /\ ask'[c].stage = "taken" =>
                    client'[c] # "off" /\ manager'[link'[c]] \in {"up", "ended"}
    BY DEF Reached, Onward
  <1>2. ASSUME NEW m \in Managers, NEW k \in 1 .. N(m)'
        PROVE  controller'[supervised'[m][k]] # "off"
    <2>1. k \in 1 .. N(m) => supervised[m][k] \in Controllers
      BY DEF TypeInv, TypeOK, ManagerTypeOK, N
    <2>2. QED
      BY <2>1 DEF Reached, Onward
  <1>3. \A p \in Controllers : vm'[p] => controller'[p] # "off"
    BY DEF Reached, Onward
  <1>4. QED
    BY <1>1, <1>2, <1>3 DEF Reached

\* The steps of the clients.
LEMMA ClientReached ==
  ASSUME TypeInv, Reached, Onward, NEW c \in Clients,
         ClientStart(c) \/ ClientAsk(c) \/ ClientNew(c) \/ ClientExit(c) \/ ClientClosed(c)
         \/ (EndClient(c) /\ client[c] # "off" /\ UNCHANGED <<managers, controller, vm>>)
  PROVE  Reached'
  <1>1. /\ client \in [Clients -> {"off", "prompt", "offered", "waiting", "stalled", "ended"}]
        /\ link \in [Clients -> Managers \cup {None}]
        /\ ask \in [Clients -> [op : Ops, name : Names \cup {None},
                                stage : {"none", "sent", "taken"}]]
    BY DEF TypeInv, TypeOK, ClientTypeOK
  <1>2. UNCHANGED <<supervised, vm>>
    BY DEF ClientStart, ClientAsk, ClientNew, ClientExit, ClientClosed, managers
  <1>3. \A m \in Managers : \A k \in 1 .. N(m)' :
          k \in 1 .. N(m) /\ supervised'[m][k] = supervised[m][k]
    BY <1>2 DEF N
  <1>4. CASE ClientStart(c)
    <2>1. PICK m \in Managers : Alive(manager[m]) /\ client' = [client EXCEPT ![c] = "prompt"]
                                /\ link' = [link EXCEPT ![c] = m]
      BY <1>4 DEF ClientStart, ManagersThere
    <2>2. ask' = ask /\ client[c] = "off" /\ manager[m] # "off"
      BY <1>4, <2>1 DEF ClientStart, Alive
    <2>3. \A b \in Clients : ask[b].stage = "taken" => client[b] # "off"
      BY DEF Reached
    <2>4. QED
      BY <1>1, <1>2, <1>3, <2>1, <2>2, <2>3, ReachedStays
  <1>5. CASE EndClient(c) /\ client[c] # "off"
    <2>1. /\ \A b \in Clients : client'[b] # "off" => client[b] # "off"
          /\ \A b \in Clients : client[b] # "off" => client'[b] # "off"
          /\ \A b \in Clients : ask'[b].stage = "taken" => ask[b].stage = "taken"
          /\ link' = link
      BY <1>1, <1>5 DEF EndClient, NoAsk
    <2>2. \A b \in Clients : ask[b].stage = "taken" => client[b] # "off"
      BY DEF Reached
    <2>3. QED
      BY <1>2, <1>3, <2>1, <2>2, ReachedStays
  <1>6. ASSUME link' = link, client[c] # "off",
               \E s \in {"prompt", "waiting"} : client' = [client EXCEPT ![c] = s],
               \A b \in Clients : ask'[b].stage = "taken" => ask[b].stage = "taken"
        PROVE  Reached'
    <2>1. \A b \in Clients : client'[b] # "off" <=> client[b] # "off"
      BY <1>1, <1>6
    <2>2. \A b \in Clients : ask[b].stage = "taken" => client[b] # "off"
      BY DEF Reached
    <2>3. QED
      BY <1>2, <1>3, <1>6, <2>1, <2>2, ReachedStays
  <1>7. CASE ClientAsk(c) \/ ClientNew(c)
    <2>1. PICK op, name : Send(c, op, name)
      BY <1>7 DEF ClientAsk, ClientNew
    <2>2. \A b \in Clients : ask'[b].stage = "taken" => ask[b].stage = "taken"
      BY <1>1, <2>1 DEF Send
    <2>3. link' = link /\ client[c] # "off"
      BY <1>7 DEF ClientAsk, ClientNew
    <2>4. QED
      BY <1>6, <2>1, <2>2, <2>3 DEF Send
  <1>8. CASE ClientExit(c) \/ ClientClosed(c)
    BY <1>5, <1>6, <1>8 DEF ClientExit, ClientClosed
  <1>9. QED
    BY <1>4, <1>5, <1>7, <1>8

\* The steps of the others.
LEMMA ManagerReached ==
  ASSUME OnceInv, Reached, Onward, NEW m \in Managers,
         \/ ManagerStart(m) \/ ManagerRuns(m) \/ ControllerClosed(m)
         \/ \E c \in Clients : HandlerClosed(m, c)
         \/ EndManager(m) /\ UNCHANGED <<clients, vm>>
  PROVE  Reached'
  <1> USE DEF OnceInv
  <1>1. /\ client \in [Clients -> {"off", "prompt", "offered", "waiting", "stalled", "ended"}]
        /\ ask \in [Clients -> [op : Ops, name : Names \cup {None},
                                stage : {"none", "sent", "taken"}]]
        /\ supervised \in [Managers -> Seq(Controllers)]
    BY DEF TypeInv, TypeOK, ClientTypeOK, ManagerTypeOK
  <1>2. \A b \in Clients : ask[b].stage = "taken" => client[b] # "off"
    BY DEF Reached
  <1>3. ASSUME UNCHANGED <<link, ask, supervised, vm>>,
               \A b \in Clients : client'[b] # "off" <=> client[b] # "off"
        PROVE  Reached'
    <2>1. \A j \in Managers : \A k \in 1 .. N(j)' :
            k \in 1 .. N(j) /\ supervised'[j][k] = supervised[j][k]
      BY <1>3 DEF N
    <2>2. QED
      BY <1>2, <1>3, <2>1, ReachedStays
  <1>4. CASE ManagerConnect(m)
    <2>1. UNCHANGED <<client, link, ask, vm>>
      BY <1>4 DEF ManagerConnect, clients
    <2>2. CASE supervised' = supervised
      BY <1>3, <2>1, <2>2
    <2>3. ASSUME NEW p \in Controllers, Listens(p),
                 supervised' = [supervised EXCEPT ![m] = Append(@, p)]
          PROVE  Reached'
      <3>1. controller[p] # "off"
        BY <2>3 DEF Listens, Alive, Reached
      <3>2. supervised'[m] = Append(supervised[m], p)
            /\ \A j \in Managers : j # m => supervised'[j] = supervised[j]
        BY <1>1, <2>3
      <3>3. ASSUME NEW j \in Managers, NEW k \in 1 .. N(j)'
            PROVE  \/ k \in 1 .. N(j) /\ supervised'[j][k] = supervised[j][k]
                   \/ supervised'[j][k] \in Controllers /\ controller[supervised'[j][k]] # "off"
        <4>1. CASE j # m
          BY <3>2, <4>1 DEF N
        <4>2. CASE j = m /\ k = Len(supervised[m]) + 1
          <5>1. supervised'[j][k] = p
            BY <1>1, <3>2, <4>2
          <5>2. QED
            BY <3>1, <5>1
        <4>3. CASE j = m /\ k # Len(supervised[m]) + 1
          <5>1. k \in 1 .. Len(supervised[m]) /\ supervised'[m][k] = supervised[m][k]
            BY <1>1, <3>2, <4>3 DEF N
          <5>2. QED
            BY <4>3, <5>1 DEF N
        <4>4. QED
          BY <4>1, <4>2, <4>3
      <3>4. QED
        BY <1>2, <2>1, <3>3, ReachedStays
    <2>4. QED
      BY <1>4, <2>2, <2>3 DEF ManagerConnect, ListensFor
  <1>5. ASSUME NEW c \in Clients, Take(m, c)
        PROVE  Reached'
    <2>1. /\ manager[m] = "up" /\ link[c] = m /\ ask[c].stage = "sent"
          /\ UNCHANGED <<client, link, supervised, vm>>
          /\ \A b \in Clients : b # c => ask'[b] = ask[b]
      BY <1>1, <1>5 DEF Take, CanTake
    <2>2. client[c] # "off"
      BY <2>1 DEF Turn
    <2>3. \A j \in Managers : \A k \in 1 .. N(j)' :
            k \in 1 .. N(j) /\ supervised'[j][k] = supervised[j][k]
      BY <2>1 DEF N
    <2>4. QED
      BY <1>2, <2>1, <2>2, <2>3, ReachedStays
  <1>6. ASSUME NEW a, Reply(m, a)
        PROVE  Reached'
    <2>1. \A b \in Clients : client'[b] # "off" <=> client[b] # "off"
      BY <1>1, <1>6 DEF Reply, Hear, Hears
    <2>2. UNCHANGED <<link, ask, supervised, vm>>
      BY <1>6 DEF Reply
    <2>3. QED
      BY <1>3, <2>1, <2>2
  <1>7. CASE ProbesEnd(m) \/ (Find(m) /\ \E a : Reply(m, a)) \/ Called(m)
    BY <1>6, <1>7 DEF ProbesEnd, Called
  <1>8. CASE UNCHANGED <<clients, supervised, vm>>
    BY <1>3, <1>8 DEF clients
  <1>9. QED
    BY <1>4, <1>5, <1>7, <1>8
    DEF ManagerRuns, ManagerStart, ManagerReady, Probe, Probed, Find, ControllerClosed,
        HandlerClosed, EndManager

\* Every step leaves what is connected started.
LEMMA ReachedNext ==
  ASSUME OnceInv, Reached, [Next]_vars
  PROVE  Reached'
  <1>1. CASE UNCHANGED vars
    BY <1>1 DEF vars, Reached, N
  <1>2. ASSUME Next PROVE Onward
    BY <1>2, OnwardNext DEF OnceInv
  <1>3. ASSUME NEW c \in Clients,
               ClientStart(c) \/ ClientAsk(c) \/ ClientNew(c) \/ ClientExit(c) \/ ClientClosed(c),
               Onward
        PROVE  Reached'
    BY <1>3, ClientReached DEF OnceInv
  <1>4. ASSUME UNCHANGED <<clients, supervised>>, Onward,
               \A p \in Controllers : vm'[p] => vm[p] \/ controller[p] # "off"
        PROVE  Reached'
    <2>1. \A m \in Managers : \A k \in 1 .. N(m)' :
            k \in 1 .. N(m) /\ supervised'[m][k] = supervised[m][k]
      BY <1>4 DEF N
    <2>2. UNCHANGED <<client, link, ask>>
      BY <1>4 DEF clients
    <2>3. \A c \in Clients : ask[c].stage = "taken" => client[c] # "off"
      BY DEF Reached
    <2>4. QED
      BY <1>4, <2>1, <2>2, <2>3, ReachedStays DEF OnceInv
  <1>5. ASSUME NEW p \in Controllers,
               \/ ControllerStart(p) \/ ControllerRuns(p) \/ VmExit(p)
               \/ \E m \in Managers : ManagerClosed(p, m),
               Onward
        PROVE  Reached'
    <2>1. vm \in [Controllers -> BOOLEAN]
      BY DEF OnceInv, TypeInv, TypeOK, NetworkTypeOK
    <2>2. UNCHANGED <<clients, supervised>>
      BY <1>5 DEF ControllerStart, ControllerRuns, Execute, VmExit, ManagerClosed, managers
    <2>3. \/ vm' = vm
          \/ vm' = [vm EXCEPT ![p] = FALSE]
          \/ vm' = [vm EXCEPT ![p] = TRUE] /\ controller[p] = "up"
      BY <1>5 DEF ControllerStart, ControllerRuns, Execute, VmExit, ManagerClosed
    <2>4. \A r \in Controllers : vm'[r] => vm[r] \/ controller[r] # "off"
      BY <2>1, <2>3
    <2>5. QED
      BY <1>4, <1>5, <2>2, <2>4
  <1>6. CASE Crash /\ Onward
    <2>1. vm' = vm
      BY <1>6 DEF Crash
    <2>2. ASSUME NEW m \in Managers, EndManager(m), UNCHANGED clients
          PROVE  Reached'
      BY <1>6, <2>1, <2>2, ManagerReached
    <2>3. ASSUME NEW c \in Clients, EndClient(c), client[c] # "off",
                 UNCHANGED <<managers, controller>>
          PROVE  Reached'
      BY <1>6, <2>1, <2>3, ClientReached DEF OnceInv
    <2>4. CASE UNCHANGED <<clients, managers>>
      BY <1>4, <1>6, <2>1, <2>4 DEF managers
    <2>5. QED
      BY <1>6, <2>2, <2>3, <2>4 DEF Crash, ManagersThere
  <1>7. ASSUME NEW m \in Managers,
               \/ ManagerStart(m) \/ ManagerRuns(m) \/ ControllerClosed(m)
               \/ \E c \in Clients : HandlerClosed(m, c),
               Onward
        PROVE  Reached'
    BY <1>7, ManagerReached
  <1>8. QED
    BY <1>1, <1>2, <1>3, <1>5, <1>6, <1>7 DEF Next

\* What ended stays so.
LEMMA EndedStays ==
  ASSUME Onward, SomeEnded
  PROVE  SomeEnded'
  BY DEF Onward, SomeEnded

\* After an end nothing is said of requests.
LEMMA AfterEnd ==
  ASSUME SomeEnded', \A m \in Managers : work'[m].stage = "none" => work'[m] = Idle
  PROVE  Served'
  BY DEF Served, OnTheWay, Held

\* Who is not concerned by a step stays on the way.
LEMMA OtherOnTheWay ==
  ASSUME Onward, NEW m \in Managers, OnTheWay(m),
         work'[m] = work[m], supervised'[m] = supervised[m],
         \A q \in calls : q.from = m => q \in calls',
         \A a \in answers : a.to = m => a \in answers'
  PROVE  OnTheWay(m)'
  <1>1. ~SomeEnded' => ~SomeEnded
    BY EndedStays
  <1>2. From(m, work[m].at) # {} => From(m, work[m].at)' # {}
    BY DEF From
  <1>3. QED
    BY <1>1, <1>2 DEF OnTheWay, N

\* The same for a client.
LEMMA OtherHeld ==
  ASSUME Onward, NEW c \in Clients, Held(c),
         client'[c] \in {"waiting", "stalled"} => client'[c] = client[c],
         ask'[c].stage = ask[c].stage, ask'[c].op = ask[c].op, link'[c] = link[c],
         client[c] = "stalled" => supervised'[link[c]] = supervised[link[c]],
         client[c] = "waiting" /\ work[link[c]].by = c => work'[link[c]].by = c
  PROVE  Held(c)'
  BY EndedStays DEF Held, N

\* The steps of the clients.
LEMMA ClientServed ==
  ASSUME StuckInv, Onward, NEW c \in Clients, UNCHANGED <<managers, network>>,
         ClientStart(c) \/ ClientAsk(c) \/ ClientNew(c) \/ ClientExit(c) \/ ClientClosed(c)
         \/ EndClient(c)
  PROVE  Served'
  <1>1. /\ client \in [Clients -> {"off", "prompt", "offered", "waiting", "stalled", "ended"}]
        /\ link \in [Clients -> Managers \cup {None}]
        /\ ask \in [Clients -> [op : Ops, name : Names \cup {None},
                                stage : {"none", "sent", "taken"}]]
    BY DEF StuckInv, AnswerInv, OnceInv, TypeInv, TypeOK, ClientTypeOK
  <1>2. UNCHANGED <<supervised, work, calls, answers>>
    BY DEF managers, network
  <1>3. \A m \in Managers : OnTheWay(m)'
    BY <1>2, OtherOnTheWay DEF StuckInv, Served
  <1>4. ASSUME NEW b \in Clients, b # c
        PROVE  Held(b)'
    <2>1. client'[b] = client[b] /\ ask'[b] = ask[b] /\ link'[b] = link[b]
      BY <1>1, <1>4 DEF ClientStart, ClientAsk, ClientNew, ClientExit, ClientClosed, EndClient, Send
    <2>2. QED
      BY <1>2, <2>1, OtherHeld DEF StuckInv, Served
  <1>5. Held(c)'
    <2>1. CASE \E op, name : Send(c, op, name)
      BY <1>1, <2>1 DEF Send, Held
    <2>2. CASE client'[c] \notin {"waiting", "stalled"}
      BY <2>2 DEF Held
    <2>3. QED
      BY <1>1, <2>1, <2>2
      DEF ClientStart, ClientAsk, ClientNew, ClientExit, ClientClosed, EndClient
  <1>6. QED
    BY <1>3, <1>4, <1>5 DEF Served

\* A manager starts.  It has taken no request before it is up.
LEMMA StartServed ==
  ASSUME StuckInv, Onward, NEW m \in Managers,
         ManagerStart(m) \/ ManagerConnect(m) \/ ManagerReady(m)
  PROVE  Served'
  <1>1. UNCHANGED <<client, link, ask, work, calls, answers>>
    BY DEF ManagerStart, ManagerConnect, ManagerReady, clients, network
  <1>2. supervised \in [Managers -> Seq(Controllers)]
    BY DEF StuckInv, AnswerInv, OnceInv, TypeInv, TypeOK, ManagerTypeOK
  <1>3. \A k \in Managers : k # m => supervised'[k] = supervised[k]
    BY <1>2 DEF ManagerStart, ManagerConnect, ManagerReady
  <1>4. ASSUME NEW k \in Managers
        PROVE  OnTheWay(k)'
    <2>1. CASE k # m
      BY <1>1, <1>3, <2>1, OtherOnTheWay DEF StuckInv, Served
    <2>2. CASE k = m
      <3>1. manager[m] # "up"
        BY DEF ManagerStart, ManagerConnect, ManagerReady
      <3>2. work[m].stage = "none"
        BY <3>1 DEF StuckInv, AnswerInv, OnceInv, Turn
      <3>3. QED
        BY <1>1, <2>2, <3>2 DEF StuckInv, Served, OnTheWay
    <2>3. QED
      BY <2>1, <2>2
  <1>5. ASSUME NEW c \in Clients
        PROVE  Held(c)'
    <2>1. CASE link[c] = m
      <3>1. manager[m] \notin {"up", "ended"}
        BY DEF ManagerStart, ManagerConnect, ManagerReady
      <3>2. ask[c].stage # "taken"
        BY <2>1, <3>1 DEF StuckInv, Reached
      <3>3. \/ SomeEnded
            \/ client[c] # "stalled" /\ (client[c] = "waiting" => ask[c].stage = "sent")
        BY <3>2 DEF StuckInv, Served, Held
      <3>4. QED
        BY <1>1, <3>3, EndedStays DEF Held
    <2>2. CASE link[c] # m
      <3>1. client[c] # "off" => link[c] \in Managers
        BY DEF StuckInv, Reached
      <3>2. QED
        BY <1>1, <1>3, <2>2, <3>1, OtherHeld DEF StuckInv, Served
    <2>3. QED
      BY <2>1, <2>2
  <1>6. QED
    BY <1>4, <1>5 DEF Served

\* A step of the handler that holds the mutex, which goes on with its request.
LEMMA ProceedServed ==
  ASSUME StuckInv, Onward, NEW m \in Managers,
         UNCHANGED <<client, link, ask, supervised>>,
         work'[m].by = work[m].by,
         \A k \in Managers : k # m => work'[k] = work[k],
         \A q \in calls : q.from # m => q \in calls',
         \A a \in answers : a.to # m => a \in answers',
         OnTheWay(m)'
  PROVE  Served'
  <1>1. ASSUME NEW k \in Managers
        PROVE  OnTheWay(k)'
    <2>1. CASE k = m
      BY <2>1
    <2>2. CASE k # m
      BY <2>2, OtherOnTheWay DEF StuckInv, Served
    <2>3. QED
      BY <2>1, <2>2
  <1>2. ASSUME NEW c \in Clients
        PROVE  Held(c)'
    <2>1. client[c] = "waiting" => link[c] \in Managers
      BY DEF StuckInv, Reached
    <2>2. client[c] = "waiting" => work'[link[c]].by = work[link[c]].by
      BY <2>1
    <2>3. QED
      BY <2>2, OtherHeld DEF StuckInv, Served
  <1>3. QED
    BY <1>1, <1>2 DEF Served

\* The reply wakes its client, or stalls it with a listing of nothing.
LEMMA ReplyServed ==
  ASSUME StuckInv, Onward, NEW m \in Managers, NEW a, work[m].stage # "none",
         Reply(m, a),
         \A q \in calls : q.from # m => q \in calls',
         \A b \in answers : b.to # m => b \in answers',
         SomeEnded \/ work[m].op # "templates" \/ a.ok \/ N(m) = 0
  PROVE  Served'
  <1> DEFINE c == work[m].by
  <1>1. c \in Clients /\ link[c] = m
    BY DEF StuckInv, AnswerInv, OnceInv, Turn, TypeInv, Asked
  <1>2. /\ client \in [Clients -> {"off", "prompt", "offered", "waiting", "stalled", "ended"}]
        /\ work'[m] = Idle /\ \A k \in Managers : k # m => work'[k] = work[k]
    BY DEF Reply, StuckInv, AnswerInv, OnceInv, TypeInv, TypeOK, ClientTypeOK, WorkTypeOK
  <1>3. UNCHANGED <<link, ask, supervised>>
    BY DEF Reply
  <1>4. ASSUME NEW k \in Managers
        PROVE  OnTheWay(k)'
    <2>1. CASE k = m
      BY <1>2, <2>1 DEF OnTheWay, Idle
    <2>2. CASE k # m
      BY <1>2, <1>3, <2>2, OtherOnTheWay DEF StuckInv, Served
    <2>3. QED
      BY <2>1, <2>2
  <1>5. \/ client' = client /\ client[c] # "waiting"
        \/ /\ client[c] = "waiting"
           /\ \E next \in {"prompt", "offered", "stalled"} :
                /\ client' = [client EXCEPT ![c] = next]
                /\ next = "stalled" => work[m].op \in Listings /\ ~a.ok
    BY DEF Reply, Hear, Hears
  <1>6. ASSUME NEW b \in Clients
        PROVE  Held(b)'
    <2>1. CASE b = c /\ client[c] = "waiting"
      <3>1. client'[c] # "waiting"
        BY <1>1, <1>2, <1>5, <2>1
      <3>2. client'[c] = "stalled" => work[m].op \in Listings /\ ~a.ok
        BY <1>1, <1>2, <1>5, <2>1
      <3>3. ask[c].op = work[m].op
        BY <2>1 DEF StuckInv, AnswerInv, Understood
      <3>4. client'[c] = "stalled" => SomeEnded \/ ask[c].op = "instances" \/ N(m) = 0
        BY <3>2, <3>3 DEF Listings
      <3>5. SomeEnded \/ ask[c].stage = "taken"
        <4>1. ask[c].stage # "sent"
          BY DEF StuckInv, AnswerInv, OnceInv, Turn
        <4>2. QED
          BY <1>1, <2>1, <4>1 DEF StuckInv, Served, Held
      <3>6. N(m)' = N(m)
        BY <1>3 DEF N
      <3>7. QED
        BY <1>1, <1>3, <2>1, <3>1, <3>4, <3>5, <3>6, EndedStays DEF Held
    <2>2. CASE b # c \/ client[c] # "waiting"
      <3>1. client[b] # "off" => link[b] \in Managers
        BY DEF StuckInv, Reached
      <3>2. client'[b] = client[b]
        BY <1>1, <1>2, <1>5, <2>2
      <3>3. client[b] = "waiting" /\ work[link[b]].by = b => work'[link[b]].by = b
        BY <1>1, <1>2, <2>2, <3>1
      <3>4. QED
        BY <1>3, <3>2, <3>3, OtherHeld DEF StuckInv, Served
    <2>3. QED
      BY <2>1, <2>2
  <1>7. QED
    BY <1>4, <1>6 DEF Served

\* A handler takes a request: no other has the mutex.
LEMMA TakeServed ==
  ASSUME StuckInv, Onward, NEW m \in Managers, NEW c \in Clients, Take(m, c)
  PROVE  Served'
  <1>1. /\ link[c] = m /\ work[m].by = None
        /\ work'[m].by = c /\ work'[m].stage = "pick" /\ work'[m].tries = N(m)
        /\ \A k \in Managers : k # m => work'[k] = work[k]
    BY DEF Take, CanTake, Idle, StuckInv, AnswerInv, OnceInv, TypeInv, TypeOK, WorkTypeOK
  <1>2. /\ ask[c].stage = "sent" /\ ask'[c].stage = "taken"
        /\ \A b \in Clients : b # c => ask'[b] = ask[b]
    BY DEF Take, CanTake, StuckInv, AnswerInv, OnceInv, TypeInv, TypeOK, ClientTypeOK
  <1>3. UNCHANGED <<client, link, supervised, calls, answers>>
    BY DEF Take, network
  <1>4. ASSUME NEW k \in Managers
        PROVE  OnTheWay(k)'
    <2>1. CASE k = m
      BY <1>1, <1>3, <2>1 DEF OnTheWay, N
    <2>2. CASE k # m
      BY <1>1, <1>3, <2>2, OtherOnTheWay DEF StuckInv, Served
    <2>3. QED
      BY <2>1, <2>2
  <1>5. ASSUME NEW b \in Clients
        PROVE  Held(b)'
    <2>1. CASE b = c
      <3>1. client[c] # "stalled"
        BY <1>2 DEF StuckInv, AnswerInv, OnceInv, Turn
      <3>2. QED
        BY <1>1, <1>2, <1>3, <2>1, <3>1 DEF Held
    <2>2. CASE b # c
      <3>1. work[m].by # b
        BY <1>1, ClusterAssumption
      <3>2. client[b] = "waiting" => link[b] \in Managers
        BY DEF StuckInv, Reached
      <3>3. client[b] = "waiting" /\ work[link[b]].by = b => work'[link[b]].by = b
        BY <1>1, <3>1, <3>2
      <3>4. ask'[b] = ask[b]
        BY <1>2, <2>2
      <3>5. QED
        BY <1>3, <3>3, <3>4, OtherHeld DEF StuckInv, Served
    <2>3. QED
      BY <2>1, <2>2
  <1>6. QED
    BY <1>4, <1>5 DEF Served

\* A handler that sends a call has one on its connections.
LEMMA CallServed ==
  ASSUME StuckInv, Onward, NEW m \in Managers, NEW k, NEW op, Call(m, k, op),
         NEW stage \in {"probe", "call"}, NEW tries, NEW found,
         Proceed(m, stage, tries, k, found),
         UNCHANGED <<clients, supervised>>,
         \A a \in answers : a.to # m => a \in answers'
  PROVE  Served'
  <1>1. /\ work'[m].by = work[m].by /\ work'[m].stage = stage
        /\ \A j \in Managers : j # m => work'[j] = work[j]
    BY ProceedWork DEF StuckInv, AnswerInv, OnceInv
  <1>2. PICK q : q.from = m /\ calls' = calls \cup {q}
    BY DEF Call
  <1>3. OnTheWay(m)'
    BY <1>1, <1>2 DEF OnTheWay
  <1>4. UNCHANGED <<client, link, ask>>
    BY DEF clients
  <1>5. QED
    BY <1>1, <1>2, <1>3, <1>4, ProceedServed

\* A handler works on its request.
LEMMA WorkServed ==
  ASSUME StuckInv, Onward, NEW m \in Managers,
         Probe(m) \/ ProbesEnd(m) \/ Find(m) \/ Probed(m) \/ Called(m)
  PROVE  Served'
  <1>1. CASE Probe(m)
    <2>1. /\ Proceed(m, "probe", work[m].tries - 1, NextAt(m), work[m].found)
          /\ Call(m, NextAt(m), ListingFor(work[m].op))
          /\ UNCHANGED <<clients, supervised, answers>>
      BY <1>1 DEF Probe
    <2>2. QED
      BY <2>1, CallServed
  <1>2. CASE ProbesEnd(m)
    <2>1. /\ work[m].stage = "pick" /\ work[m].tries = 0 /\ UNCHANGED <<calls, answers>>
          /\ Reply(m, Answer(No, work[m].op \in Listings /\ work[m].found))
      BY <1>2 DEF ProbesEnd, network
    <2>2. SomeEnded \/ work[m].op # "templates" \/ work[m].found \/ N(m) = 0
      BY <2>1 DEF StuckInv, Served, OnTheWay
    <2>3. /\ work[m].stage # "none"
          /\ \/ SomeEnded \/ work[m].op # "templates" \/ N(m) = 0
             \/ Answer(No, work[m].op \in Listings /\ work[m].found).ok
      BY <2>1, <2>2 DEF Answer, Listings
    <2>4. QED
      BY <2>1, <2>3, ReplyServed
  <1>3. CASE Find(m)
    <2>1. work[m].stage = "pick" /\ work[m].op = "do"
      BY <1>3 DEF Find
    <2>2. CASE Reply(m, Answer(No, FALSE)) /\ UNCHANGED network
      <3>1. work[m].stage # "none" /\ work[m].op # "templates"
        BY <2>1
      <3>2. QED
        BY <2>2, <3>1, ReplyServed DEF network
    <2>3. ASSUME NEW k \in 1 .. N(m), Call(m, k, "do"), Goto(m, "call", k),
                 UNCHANGED <<clients, supervised, answers>>
          PROVE  Served'
      BY <2>3, CallServed DEF Goto
    <2>4. QED
      BY <1>3, <2>2, <2>3 DEF Find
  <1>4. CASE Probed(m)
    <2>1. PICK a \in From(m, work[m].at) : answers' = answers \ {a}
      BY <1>4 DEF Probed
    <2>2. /\ a.to = m /\ \A b \in answers : b.to # m => b \in answers'
          /\ UNCHANGED <<clients, supervised>>
      BY <1>4, <2>1 DEF Probed, From
    <2>3. CASE Call(m, work[m].at, "new") /\ Goto(m, "call", work[m].at)
      BY <2>2, <2>3, CallServed DEF Goto
    <2>4. ASSUME NEW b \in From(m, work[m].at), calls' = calls,
                 Proceed(m, "pick", work[m].tries, work[m].at, work[m].found \/ b.ok)
          PROVE  Served'
      <3>1. /\ work'[m].by = work[m].by /\ work'[m].stage = "pick"
            /\ \A k \in Managers : k # m => work'[k] = work[k]
        BY <2>4, ProceedWork DEF StuckInv, AnswerInv, OnceInv
      <3>2. work'[m].op = work[m].op /\ (b.ok => work'[m].found)
        BY <2>4 DEF Proceed, StuckInv, AnswerInv, OnceInv, TypeInv, TypeOK, WorkTypeOK
      <3>3. work[m].op = "templates" => b.ok
        BY <1>4 DEF Probed, From, StuckInv, AnswerInv, Flight
      <3>4. OnTheWay(m)'
        BY <3>1, <3>2, <3>3 DEF OnTheWay
      <3>5. UNCHANGED <<client, link, ask>>
        BY <2>2 DEF clients
      <3>6. QED
        BY <2>2, <2>4, <3>1, <3>4, <3>5, ProceedServed
    <2>5. QED
      BY <1>4, <2>3, <2>4 DEF Probed
  <1>5. CASE Called(m)
    <2>1. PICK a \in From(m, work[m].at) :
            /\ answers' = answers \ {a}
            /\ Reply(m, Answer(supervised[m][work[m].at][1], a.ok))
      BY <1>5 DEF Called
    <2>2. a.to = m /\ \A b \in answers : b.to # m => b \in answers'
      BY <2>1 DEF From
    <2>3. work[m].stage = "call" /\ calls' = calls
      BY <1>5 DEF Called
    <2>4. work[m].stage # "none" /\ work[m].op # "templates"
      BY <2>3 DEF StuckInv, AnswerInv, OnceInv, Turn
    <2>5. QED
      BY <2>1, <2>2, <2>3, <2>4, ReplyServed
  <1>6. QED
    BY <1>1, <1>2, <1>3, <1>4, <1>5

\* A manager notices that another process has ended, or ends.
LEMMA ManagerEndServed ==
  ASSUME StuckInv, Onward, NEW m \in Managers,
         \/ ControllerClosed(m) \/ EndManager(m)
         \/ \E c \in Clients : HandlerClosed(m, c)
  PROVE  Served'
  <1>1. \A k \in Managers : work[k].stage = "none" => work[k] = Idle
    BY DEF StuckInv, Served, OnTheWay
  <1>2. CASE EndManager(m)
    <2>1. work'[m] = Idle /\ \A k \in Managers : k # m => work'[k] = work[k]
      BY <1>2 DEF EndManager, StuckInv, AnswerInv, OnceInv, TypeInv, TypeOK, WorkTypeOK
    <2>2. manager'[m] = "ended"
      BY <1>2 DEF EndManager, StuckInv, AnswerInv, OnceInv, TypeInv, TypeOK, ManagerTypeOK
    <2>3. SomeEnded'
      BY <2>2 DEF SomeEnded
    <2>4. QED
      BY <1>1, <2>1, <2>3, AfterEnd
  <1>3. CASE ControllerClosed(m) /\ ~EndManager(m)
    <2>1. /\ work[m].stage = "probe" /\ Goto(m, "pick", work[m].at)
          /\ controller[supervised[m][work[m].at]] = "ended"
      BY <1>3 DEF ControllerClosed
    <2>2. supervised[m][work[m].at] \in Controllers
      BY <2>1 DEF StuckInv, AnswerInv, OnceInv, TypeInv, TypeOK, ManagerTypeOK, WorkTypeOK,
                  IndexOK, N
    <2>3. SomeEnded'
      BY <2>1, <2>2, EndedStays DEF SomeEnded
    <2>4. work'[m].stage = "pick" /\ \A k \in Managers : k # m => work'[k] = work[k]
      BY <2>1, ProceedWork DEF Goto, StuckInv, AnswerInv, OnceInv
    <2>5. QED
      BY <1>1, <2>3, <2>4, AfterEnd
  <1>4. QED
    BY <1>2, <1>3 DEF HandlerClosed

\* A call that is carried out is answered, unless its manager has ended.
LEMMA ExecuteServed ==
  ASSUME StuckInv, Onward, NEW p \in Controllers, NEW q \in calls, Execute(p, q)
  PROVE  Served'
  <1>1. UNCHANGED <<client, link, ask, manager, supervised, work>> /\ calls' = calls \ {q}
    BY DEF Execute, clients, managers
  <1>2. q.from \in Managers /\ q.to = p /\ controller[p] = "up"
    BY DEF Execute, StuckInv, AnswerInv, OnceInv, TypeInv, TypeOK, NetworkTypeOK
  <1>3. answers \subseteq answers'
    BY DEF Execute
  <1>4. ASSUME NEW k \in Managers
        PROVE  OnTheWay(k)'
    <2>1. CASE k # q.from
      BY <1>1, <1>3, <2>1, OtherOnTheWay DEF StuckInv, Served
    <2>2. CASE manager[q.from] = "ended"
      <3>1. SomeEnded'
        BY <1>1, <1>2, <2>2 DEF SomeEnded
      <3>2. QED
        BY <1>1, <3>1 DEF OnTheWay, StuckInv, Served
    <2>3. CASE k = q.from /\ manager[q.from] # "ended"
      <3>1. Live(q) /\ Awaits(k, p)
        BY <1>2, <2>3 DEF StuckInv, AnswerInv, Flight, Live
      <3>2. PICK a : a \in answers' /\ a.from = p /\ a.to = k
        <4>1. PICK ok : answers' = answers \cup {[from |-> p, to |-> q.from, ok |-> ok]}
          BY <2>3 DEF Execute
        <4>2. [from |-> p, to |-> q.from, ok |-> ok] \in answers'
          BY <4>1
        <4>3. QED
          BY <2>3, <4>2
      <3>3. From(k, work[k].at)' # {}
        BY <1>1, <3>1, <3>2 DEF Awaits, From
      <3>4. QED
        BY <1>1, <3>1, <3>3 DEF Awaits, OnTheWay
    <2>4. QED
      BY <2>1, <2>2, <2>3
  <1>5. \A c \in Clients : Held(c)'
    BY <1>1, OtherHeld DEF StuckInv, Served
  <1>6. QED
    BY <1>4, <1>5 DEF Served

\* A controller, a VM, or an end without a cause.
LEMMA ControllerServed ==
  ASSUME StuckInv, Onward,
         \/ \E p \in Controllers : \/ ControllerStart(p) \/ ControllerRuns(p) \/ VmExit(p)
                                   \/ \E m \in Managers : ManagerClosed(p, m)
         \/ Crash
  PROVE  Served'
  <1>1. CASE UNCHANGED <<clients, managers, network>>
    <2>1. UNCHANGED <<client, link, ask, supervised, work, calls, answers>>
      BY <1>1 DEF clients, managers, network
    <2>2. (\A m \in Managers : OnTheWay(m)') /\ (\A c \in Clients : Held(c)')
      BY <2>1, OtherOnTheWay, OtherHeld DEF StuckInv, Served
    <2>3. QED
      BY <2>2 DEF Served
  <1>2. ASSUME NEW p \in Controllers, EndController(p), UNCHANGED managers
        PROVE  Served'
    <2>1. controller'[p] = "ended"
      BY <1>2 DEF EndController, StuckInv, AnswerInv, OnceInv, TypeInv, TypeOK, NetworkTypeOK
    <2>2. SomeEnded'
      BY <2>1 DEF SomeEnded
    <2>3. work' = work
      BY <1>2 DEF managers
    <2>4. QED
      BY <2>2, <2>3, AfterEnd DEF StuckInv, Served, OnTheWay
  <1>3. CASE Crash
    <2>1. calls' = calls
      BY <1>3 DEF Crash
    <2>2. ASSUME NEW m \in Managers, EndManager(m)
          PROVE  Served'
      BY <2>2, ManagerEndServed
    <2>3. ASSUME NEW c \in Clients, EndClient(c), UNCHANGED <<managers, controller, answers>>
          PROVE  Served'
      BY <2>1, <2>3, ClientServed DEF network
    <2>4. QED
      BY <1>2, <1>3, <2>2, <2>3 DEF Crash, ManagersThere
  <1>4. ASSUME NEW p \in Controllers,
               ControllerStart(p) \/ VmExit(p) \/ \E m \in Managers : ManagerClosed(p, m)
        PROVE  Served'
    BY <1>1, <1>2, <1>4 DEF ControllerStart, VmExit, ManagerClosed
  <1>5. QED
    BY <1>3, <1>4, ExecuteServed DEF ControllerRuns

\* Every step leaves each waiting client a way to its answer.
LEMMA StuckNext ==
  ASSUME StuckInv, [Next]_vars
  PROVE  StuckInv'
  <1>1. AnswerInv' /\ Reached'
    BY AnswerNext, ReachedNext DEF StuckInv, AnswerInv
  <1>2. CASE UNCHANGED vars
    <2>1. Served'
      BY <1>2 DEF vars, StuckInv, Served, OnTheWay, Held, SomeEnded, From, N
    <2>2. QED
      BY <1>1, <2>1 DEF StuckInv
  <1>3. ASSUME Next PROVE Onward
    BY <1>3, OnwardNext DEF StuckInv, AnswerInv, OnceInv
  <1>4. ASSUME NEW c \in Clients, Onward,
               ClientStart(c) \/ ClientAsk(c) \/ ClientNew(c) \/ ClientExit(c) \/ ClientClosed(c)
        PROVE  Served'
    <2>1. UNCHANGED <<managers, network>>
      BY <1>4 DEF ClientStart, ClientAsk, ClientNew, ClientExit, ClientClosed
    <2>2. QED
      BY <1>4, <2>1, ClientServed
  <1>5. ASSUME NEW m \in Managers, Onward,
               \/ ManagerStart(m) \/ ManagerRuns(m) \/ ControllerClosed(m)
               \/ \E c \in Clients : HandlerClosed(m, c)
        PROVE  Served'
    BY <1>5, StartServed, TakeServed, WorkServed, ManagerEndServed DEF ManagerRuns
  <1>6. CASE Next
    <2>1. Served'
      BY <1>3, <1>4, <1>5, <1>6, ControllerServed DEF Next
    <2>2. QED
      BY <1>1, <2>1 DEF StuckInv
  <1>7. QED
    BY <1>2, <1>6

\* The invariant says of every client that waits what NobodyStuck says.
LEMMA StuckGivesNobody ==
  ASSUME StuckInv
  PROVE  NobodyStuck
  <1> SUFFICES ASSUME NEW c \in Clients, client[c] = "waiting", ~SomeEnded
               PROVE  GoesOn(link[c])
    BY DEF NobodyStuck, StuckInv, Served, Held
  <1> DEFINE m == link[c]
  <1>1. m \in Managers /\ manager[m] \in {"start", "up"}
    <2>1. m \in Managers /\ manager[m] # "off"
      BY DEF StuckInv, Reached
    <2>2. manager[m] \in {"off", "start", "up", "ended"}
      BY <2>1 DEF StuckInv, AnswerInv, OnceInv, TypeInv, TypeOK, ManagerTypeOK
    <2>3. QED
      BY <2>1, <2>2 DEF SomeEnded
  <1>2. work[m].stage \in {"none", "pick", "probe", "call"}
    BY <1>1 DEF StuckInv, AnswerInv, OnceInv, TypeInv, TypeOK, WorkTypeOK
  <1> HIDE DEF m
  <1>3. CASE manager[m] = "start"
    BY <1>3 DEF GoesOn, m
  <1>4. CASE manager[m] = "up" /\ work[m].stage = "none"
    <2>1. work[m] = Idle
      BY <1>1, <1>4 DEF StuckInv, Served, OnTheWay
    <2>2. work[m].by # c
      BY <2>1, ClusterAssumption DEF Idle
    <2>3. Held(c)
      BY DEF StuckInv, Served
    <2>4. ask[c].stage = "sent"
      BY <2>2, <2>3 DEF Held, m
    <2>5. CanTake(m, c)
      BY <1>4, <2>1, <2>4 DEF CanTake, m
    <2>6. QED
      BY <2>5 DEF GoesOn, m
  <1>5. CASE work[m].stage = "pick"
    BY <1>5 DEF GoesOn, m
  <1>6. CASE work[m].stage \in {"probe", "call"}
    <2>1. CASE From(m, work[m].at) # {}
      BY <1>6, <2>1 DEF GoesOn, m
    <2>2. ASSUME NEW q \in calls, q.from = m
          PROVE  GoesOn(m)
      <3>1. q.to \in Controllers
        BY DEF StuckInv, AnswerInv, OnceInv, TypeInv, TypeOK, NetworkTypeOK
      <3>2. controller[q.to] # "ended" /\ manager[m] # "ended"
        BY <1>1, <3>1 DEF SomeEnded
      <3>3. Live(q)
        BY <2>2, <3>2 DEF Live, StuckInv, AnswerInv, Flight
      <3>4. q.to = supervised[m][work[m].at]
        BY <2>2, <3>3 DEF StuckInv, AnswerInv, Flight, Awaits
      <3>5. work[m].at \in 1 .. N(m)
        BY <1>1, <1>6
        DEF StuckInv, AnswerInv, OnceInv, TypeInv, TypeOK, WorkTypeOK, ManagerTypeOK, IndexOK, N
      <3>6. controller[q.to] # "off"
        BY <1>1, <3>4, <3>5 DEF StuckInv, Reached
      <3>7. controller[q.to] = "up"
        BY <3>1, <3>2, <3>6 DEF StuckInv, AnswerInv, OnceInv, TypeInv, TypeOK, NetworkTypeOK
      <3>8. QED
        BY <2>2, <3>7 DEF GoesOn
    <2>3. QED
      BY <1>1, <1>6, <2>1, <2>2 DEF StuckInv, Served, OnTheWay, m
  <1>7. QED
    BY <1>1, <1>2, <1>3, <1>4, <1>5, <1>6 DEF m

\* As long as no manager or controller ends, the manager of a client that waits goes
\* on, and no client stalls but after a listing of nothing, in every interleaving of any number of clients, and whatever the bound on
\* their requests.
THEOREM NobodyStuckCorrect == Spec => []NobodyStuck
  <1>1. Init => StuckInv
    BY TypeInit, OnceInit, AnswerInit, StuckInit DEF StuckInv, AnswerInv, OnceInv
  <1>2. StuckInv /\ [Next]_vars => StuckInv'
    BY StuckNext
  <1>3. StuckInv => NobodyStuck
    BY StuckGivesNobody
  <1>4. QED
    BY <1>1, <1>2, <1>3, PTL DEF Spec

-----------------------------------------------------------------------------
(* How ends spread *)

\* No client ends: the sessions of all clients go on.
SessionsLast == \A c \in Clients : client[c] # "ended"

\* Who ends because another process has ended, is not the first.
LEMMA FirstEnd ==
  ASSUME TypeInv, SessionsLast, ~SomeEnded, Next, ~crashed'
  PROVE  ~SomeEnded'
  <1>1. /\ manager \in [Managers -> {"off", "start", "up", "ended"}]
        /\ controller \in [Controllers -> {"off", "up", "ended"}]
    BY DEF TypeInv, TypeOK, ManagerTypeOK, NetworkTypeOK
  <1>2. CASE UNCHANGED <<manager, controller>>
    BY <1>2 DEF SomeEnded
  <1>3. ASSUME NEW m \in Managers, ManagerStart(m) \/ ManagerReady(m)
        PROVE  ~SomeEnded'
    BY <1>1, <1>3 DEF ManagerStart, ManagerReady, SomeEnded
  <1>4. ASSUME NEW p \in Controllers, ControllerStart(p)
        PROVE  ~SomeEnded'
    BY <1>1, <1>4 DEF ControllerStart, managers, SomeEnded
  <1>5. ASSUME NEW m \in Managers,
               ControllerClosed(m) \/ \E c \in Clients : HandlerClosed(m, c)
        PROVE  FALSE
    <2>1. CASE ControllerClosed(m)
      <3>1. supervised[m][work[m].at] \in Controllers
        BY <2>1 DEF ControllerClosed, TypeInv, TypeOK, ManagerTypeOK, WorkTypeOK, IndexOK, N
      <3>2. QED
        BY <2>1, <3>1 DEF ControllerClosed, SomeEnded
    <2>2. QED
      BY <1>5, <2>1 DEF HandlerClosed, SessionsLast
  <1>6. ASSUME NEW p \in Controllers, NEW m \in Managers, ManagerClosed(p, m)
        PROVE  FALSE
    BY <1>6 DEF ManagerClosed, SomeEnded
  <1>7. ASSUME NEW c \in Clients,
               ClientStart(c) \/ ClientAsk(c) \/ ClientNew(c) \/ ClientExit(c) \/ ClientClosed(c)
        PROVE  ~SomeEnded'
    BY <1>2, <1>7 DEF ClientStart, ClientAsk, ClientNew, ClientExit, ClientClosed, managers
  <1>8. ASSUME NEW m \in Managers,
               ManagerConnect(m) \/ (\E c \in Clients : Take(m, c)) \/ Probe(m) \/ Probed(m)
        PROVE  ~SomeEnded'
    BY <1>2, <1>8 DEF ManagerConnect, Take, Probe, Probed
  <1>9. ASSUME NEW m \in Managers, ProbesEnd(m) \/ Find(m) \/ Called(m)
        PROVE  ~SomeEnded'
    BY <1>2, <1>9 DEF ProbesEnd, Find, Called, Reply
  <1>10. ASSUME NEW p \in Controllers, ControllerRuns(p) \/ VmExit(p)
         PROVE  ~SomeEnded'
    BY <1>2, <1>10 DEF ControllerRuns, Execute, VmExit, managers
  <1>11. ~Crash
    BY DEF Crash
  <1>12. QED
    BY <1>3, <1>4, <1>5, <1>6, <1>7, <1>8, <1>9, <1>10, <1>11 DEF Next, ManagerRuns

\* SessionsLastEnds: find_exit is the only way to lose the cloud without a crash.
\* For any number of processes, as long as no client ends its session, every
\* manager and controller lives on, until one ends for a reason of its own.
THEOREM SessionsLastEnds == Spec /\ []SessionsLast => []ExitEndsOnlyClient
  <1> DEFINE Inv == TypeInv /\ ExitEndsOnlyClient
  <1>1. Init => Inv
    BY TypeInit DEF Init, ExitEndsOnlyClient, SomeEnded
  <1>2. Inv /\ SessionsLast /\ [Next]_vars => Inv'
    <2> SUFFICES ASSUME Inv, SessionsLast, [Next]_vars PROVE Inv'
      OBVIOUS
    <2>1. TypeInv'
      BY TypeNext
    <2>2. CASE UNCHANGED vars
      BY <2>1, <2>2 DEF vars, ExitEndsOnlyClient, SomeEnded
    <2>3. CASE Next
      <3>1. Crash => (crashed => crashed')
        BY DEF Crash
      <3>2. ASSUME NEW c \in Clients,
                   ClientStart(c) \/ ClientAsk(c) \/ ClientNew(c) \/ ClientExit(c) \/ ClientClosed(c)
            PROVE  crashed => crashed'
        BY <3>2 DEF ClientStart, ClientAsk, ClientNew, ClientExit, ClientClosed
      <3>3. ASSUME NEW m \in Managers, ManagerStart(m) \/ ManagerRuns(m) \/ ControllerClosed(m)
                   \/ \E c \in Clients : HandlerClosed(m, c)
            PROVE  crashed => crashed'
        BY <3>3
        DEF ManagerRuns, ManagerStart, ManagerConnect, ManagerReady, Take, Probe, ProbesEnd,
            Probed, Find, Called, Reply, ControllerClosed, HandlerClosed
      <3>4. ASSUME NEW p \in Controllers, ControllerStart(p) \/ ControllerRuns(p) \/ VmExit(p)
                   \/ \E m \in Managers : ManagerClosed(p, m)
            PROVE  crashed => crashed'
        BY <3>4 DEF ControllerRuns, ControllerStart, Execute, VmExit, ManagerClosed
      <3>5. crashed => crashed'
        BY <2>3, <3>1, <3>2, <3>3, <3>4 DEF Next
      <3>6. QED
        BY <2>1, <2>3, <3>5, FirstEnd DEF ExitEndsOnlyClient
    <2>4. QED
      BY <2>2, <2>3
  <1>3. Inv => ExitEndsOnlyClient
    OBVIOUS
  <1> HIDE DEF Inv
  <1>4. QED
    BY <1>1, <1>2, <1>3, PTL DEF Spec
=============================================================================
