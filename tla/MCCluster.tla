----------------------------- MODULE MCCluster ------------------------------
(* TLC instances of Cluster: two controllers, one of them started twice. *)
EXTENDS Cluster, TLC

MCList == <<"s1", "s2">>
MCControllers == {<<"s1", 1>>, <<"s1", 2>>, <<"s2", 1>>}

Symmetric == Permutations(Clients) \cup Permutations(Managers)
=============================================================================
