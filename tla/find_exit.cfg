\* One client, one manager, two controllers, no crash.
SPECIFICATION Spec
CONSTANTS
  Clients = {c1}
  List <- MCList
  Managers = {m1}
  Controllers <- MCControllers
  MaxAsks = 1
  None = none
  No = no
CHECK_DEADLOCK FALSE
INVARIANT ExitEndsOnlyClient
