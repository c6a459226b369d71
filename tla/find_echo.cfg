\* One client asks for new instances; a controller fails to make one.
SPECIFICATION Spec
CONSTANTS
  Handlers = {h1}
  Nobody = nobody
  Name <- MCName
  Templates = {"cirros"}
  Requests <- MCRequests
  VmIds = {1}
  MaxNew = 2
INVARIANTS ToldExists
