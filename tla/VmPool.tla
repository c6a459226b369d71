------------------------------- MODULE VmPool -------------------------------
(***************************************************************************)
(* What a controller promises its clients, with no threads, ports or       *)
(* files: instances are created under new ids and stay, a client is told   *)
(* the id of an instance that exists, and an instance has at most one VM.  *)
(***************************************************************************)
CONSTANTS
  Ids,  \* instance ids
  Runs  \* names of the runs of VMs

VARIABLES
  known,  \* instances that exist
  told,   \* ids that clients were given
  online  \* VMs that run: <<instance, run>>

pool == <<known, told, online>>

Init == known = {} /\ told = {} /\ online = {}

Create(i)   == i \notin known /\ known' = known \cup {i} /\ UNCHANGED <<told, online>>
Tell(i)     == i \in known \ told /\ told' = told \cup {i} /\ UNCHANGED <<known, online>>
Start(i, r) == /\ i \in known /\ \A v \in online : v[1] # i
               /\ online' = online \cup {<<i, r>>} /\ UNCHANGED <<known, told>>
Stop(v)     == v \in online /\ online' = online \ {v} /\ UNCHANGED <<known, told>>

Next ==
  \/ \E i \in Ids : Create(i) \/ Tell(i) \/ \E r \in Runs : Start(i, r)
  \/ \E v \in online : Stop(v)

Spec == Init /\ [][Next]_pool
=============================================================================
