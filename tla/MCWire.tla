------------------------------- MODULE MCWire -------------------------------
(* TLC instances of Wire: messages as the proxy and the handlers send them. *)
EXTENDS Listings
LOCAL INSTANCE SequencesExt

Vm1 == [id |-> "5", templ |-> "cirros", memory |-> 128, cpus |-> 1,
        sshPort |-> 2301, running |-> TRUE]
Vm2 == [id |-> "6", templ |-> "cirros", memory |-> 128, cpus |-> 2,
        sshPort |-> 2302, running |-> FALSE]

MCStores == {<<>>, <<Vm1>>, <<Vm1, Vm2>>}

\* Two controllers with the same initial id.
MCClouds == {<<[name |-> "s1", instances |-> <<Vm1>>],
               [name |-> "s2", instances |-> <<Vm1>>]>>}

MCTemplates ==
  <<[name |-> "cirros", description |-> "CirrOS", kernelPath |-> "kernel", rootfsPath |-> "img"],
    [name |-> "wheezy", description |-> "Debian", kernelPath |-> "-none-", rootfsPath |-> "qcow2"]>>

MCOrders == {[templ |-> "cirros", memory |-> 128, cpus |-> 2]}

MCNumbers == {0, 1, 2, 128, 2301, 2302}

MCRequests ==
  {<<"getInstances">>, RunRequest("5")} \cup
  {InstantiateRequest(o.templ, o.memory, o.cpus) : o \in MCOrders}

\* Answers to run and kill, listings, and to instantiate a listing of one.  The
\* empty listing of a controller is one empty line.
MCReplies ==
  {<<"1">>, TemplateListing(MCTemplates)} \cup {ControllerListing(s) : s \in MCStores} \cup
  {CloudListing(c) : c \in MCClouds}

\* The manager writes no line at all for a listing without instances.
ManagerReplies == {<<"1">>, <<>>}

MCTexts == UNION {ToSet(m) : m \in MCRequests \cup MCReplies} \ {""}
=============================================================================
