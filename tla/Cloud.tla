------------------------------- MODULE Cloud --------------------------------
(***************************************************************************)
(* What the clients of a manager are promised: each request is answered    *)
(* once, as if the cloud had served it in one step between the request and *)
(* the answer.                                                             *)
(***************************************************************************)
CONSTANTS
  Clients,
  Requests,  \* [cmd, ...], as in Manager
  VmIds,     \* ids of instances on one controller
  NotMade,   \* the id in the answer when the controller made no instance
  NoRequest, NoAnswer  \* between requests

VARIABLES
  turn, request, answer, \* per client: "idle", "asked" or "answered"
  before,                \* per client: the instances when it asked
  vms,                   \* instances of the cloud: <<controller name, id>>
  offers                 \* templates of each controller, by name; never changes

cloud == <<turn, request, answer, before, vms, offers>>

Names == DOMAIN offers

Init ==
  /\ turn = [c \in Clients |-> "idle"] /\ answer = [c \in Clients |-> NoAnswer]
  /\ vms = {}

Ask(c) ==
  /\ turn[c] = "idle" /\ turn' = [turn EXCEPT ![c] = "asked"]
  /\ \E r \in Requests : request' = [request EXCEPT ![c] = r]
  /\ before' = [before EXCEPT ![c] = vms]
  /\ UNCHANGED <<answer, vms, offers>>

\* New: an instance under a name of its own, on a controller with the template.
Create(c) ==
  /\ request[c].cmd = "new"
  /\ \E n \in Names, i \in VmIds :
       /\ request[c].templ \in offers[n] /\ <<n, i>> \notin vms
       /\ vms' = vms \cup {<<n, i>>}
       /\ answer' = [answer EXCEPT ![c] = [vm |-> <<n, i>>]]

\* The controller could not make the instance: the answer has no real id.
Fail(c) ==
  /\ request[c].cmd = "new" /\ UNCHANGED vms
  /\ \E n \in Names : /\ request[c].templ \in offers[n]
                      /\ answer' = [answer EXCEPT ![c] = [vm |-> <<n, NotMade>>]]

\* New is refused only when no controller has the template.
Refuse(c) ==
  /\ request[c].cmd = "new" /\ UNCHANGED vms
  /\ \A n \in Names : request[c].templ \notin offers[n]
  /\ answer' = [answer EXCEPT ![c] = [echo |-> request[c].templ]]

\* Run and kill succeed only on an instance that exists, and kill always does.
Obey(c) ==
  /\ request[c].cmd \in {"run", "kill"} /\ UNCHANGED vms
  /\ \E b \in BOOLEAN :
       /\ b => request[c].vm \in vms
       /\ ~b => request[c].cmd = "run" \/ request[c].vm \notin vms
       /\ answer' = [answer EXCEPT ![c] = [ok |-> b]]

\* A listing shows every instance that existed when it was asked for, and no
\* instance that does not exist.
List(c) ==
  /\ request[c].cmd = "instances" /\ UNCHANGED vms
  /\ \E s \in SUBSET vms : before[c] \subseteq s /\ answer' = [answer EXCEPT ![c] = [all |-> s]]

ListTemplates(c) ==
  /\ request[c].cmd = "templates" /\ UNCHANGED vms
  /\ answer' = [answer EXCEPT ![c] = [all |-> UNION {offers[n] : n \in Names}]]

Unknown(c) ==
  /\ request[c].cmd = "other" /\ UNCHANGED vms
  /\ answer' = [answer EXCEPT ![c] = [ok |-> FALSE]]

Answer(c) ==
  /\ turn[c] = "asked" /\ turn' = [turn EXCEPT ![c] = "answered"]
  /\ Create(c) \/ Fail(c) \/ Refuse(c) \/ Obey(c) \/ List(c)
     \/ ListTemplates(c) \/ Unknown(c)
  /\ UNCHANGED <<request, before, offers>>

Return(c) ==
  /\ turn[c] = "answered" /\ turn' = [turn EXCEPT ![c] = "idle"]
  /\ answer' = [answer EXCEPT ![c] = NoAnswer]
  /\ request' = [request EXCEPT ![c] = NoRequest] /\ before' = [before EXCEPT ![c] = {}]
  /\ UNCHANGED <<vms, offers>>

\* Somebody uses a controller without the manager.
Direct ==
  /\ \E n \in Names, i \in VmIds : vms' = vms \cup {<<n, i>>}
  /\ UNCHANGED <<turn, request, answer, before, offers>>

Next == Direct \/ \E c \in Clients : Ask(c) \/ Answer(c) \/ Return(c)

Spec == Init /\ [][Next]_cloud
=============================================================================
