---------------------------- MODULE MCController ----------------------------
(* TLC instances of Controller: handlers and pids are interchangeable. *)
EXTENDS ControllerRefinement, TLC

Symmetric == Permutations(Handlers) \cup Permutations(Pids)
=============================================================================
