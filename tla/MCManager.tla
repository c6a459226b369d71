----------------------------- MODULE MCManager ------------------------------
(* TLC instances of Manager: two controllers, and a request that names a third. *)
EXTENDS ManagerRefinement

MCName == <<"s1", "s2">>

\* One template; an instance on each controller and one on no controller; a
\* command that the manager does not know.
MCRequests ==
  {[cmd |-> "new", templ |-> "cirros"],
   [cmd |-> "run", vm |-> <<"s2", 1>>], [cmd |-> "run", vm |-> <<"s3", 1>>],
   [cmd |-> "kill", vm |-> <<"s1", 1>>],
   [cmd |-> "instances"], [cmd |-> "templates"], [cmd |-> "other"]}
=============================================================================
