------------------------ MODULE ControllerRefinement ------------------------
(* A controller implements the abstract pool of VmPool. *)
EXTENDS Controller

\* An instance exists once its last cookie is written: from then on a restart
\* restores it.  Its VM is whatever process was forked for it.
Pool == INSTANCE VmPool WITH
  Runs   <- Pids,
  known  <- {i \in DOMAIN disk : Restorable(i)},
  told   <- issued,
  online <- {<<procs[p].vm, p>> : p \in DOMAIN procs}

\* Every step of the controller, its machine and its VMs is a step of the pool
\* or changes nothing of it: ids are created once and kept, clients are told
\* existing ids only, only existing instances run, and a fork never adds a
\* second process to a running instance (restore, findNextId, Process::run).
ImplementsPool == Pool!Spec
=============================================================================
