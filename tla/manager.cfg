\* Two clients, two controllers that have the template or not.
SPECIFICATION FairSpec
CONSTANTS
  Handlers = {h1, h2}
  Nobody = nobody
  Name <- MCName
  Templates = {"cirros"}
  Requests <- MCRequests
  VmIds = {1}
  MaxNew = 2
INVARIANTS TypeOK PairedCalls HolderGoesOn Balanced
PROPERTIES ImplementsCloud LockReturned
