------------------------- MODULE ManagerRefinement --------------------------
(* A manager and its controllers implement the cloud of Cloud. *)
EXTENDS Manager

NoAnswer == [none |-> TRUE]

\* A request is served when the controller has answered the last call it
\* takes, or when the manager has decided that it takes none.
Served(h) == pc[h] = "send" \/ (pc[h] \in {"create", "result"} /\ HasAnswer(h))

AnswerOf(h) ==
  IF ~Served(h) THEN NoAnswer
  ELSE CASE pc[h] = "send"   -> reply[h]
         [] pc[h] = "create" -> [vm |-> <<NameOf(at[h]), Got(h)>>]
         [] pc[h] = "result" -> [ok |-> Got(h)]

TurnOf(h) == IF pc[h] = "read" THEN "idle" ELSE IF Served(h) THEN "answered" ELSE "asked"

OffersOf(n) == offers[CHOOSE k \in Controllers : NameOf(k) = n]

TheCloud == INSTANCE Cloud WITH
  Clients <- Handlers,
  turn    <- [h \in Handlers |-> TurnOf(h)],
  answer  <- [h \in Handlers |-> AnswerOf(h)],
  vms     <- Vms,
  offers  <- [n \in {NameOf(k) : k \in Controllers} |-> OffersOf(n)]

\* Every request takes effect once, between its arrival and its answer: an
\* instance is made at most once per request and under a new name, a template
\* is refused only if no controller has it, run and kill reach the instance
\* that was named, and a listing misses nothing that existed before it.
ImplementsCloud == TheCloud!Spec
=============================================================================
