-------------------------------- MODULE Rpc ---------------------------------
(***************************************************************************)
(* What the two ends of a connection may rely on: a call delivers one      *)
(* request, gets one answer to it, and only then the next call begins.     *)
(***************************************************************************)
CONSTANTS Requests, Answers

VARIABLES turn, request, answer

call == <<turn, request, answer>>

Init == turn = "idle" /\ request \in Requests /\ answer \in Answers

Ask    == turn = "idle" /\ turn' = "asked" /\ request' \in Requests /\ UNCHANGED answer
Answer == turn = "asked" /\ turn' = "answered" /\ answer' \in Answers /\ UNCHANGED request
Return == turn = "answered" /\ turn' = "idle" /\ UNCHANGED <<request, answer>>

Next == Ask \/ Answer \/ Return

Spec == Init /\ [][Next]_call
=============================================================================
