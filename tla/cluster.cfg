\* Two clients; two managers, one after the other, and two controllers, one of
\* them started twice.  The system stops when the clients have ended, so TLC
\* does not look for deadlocks.
SPECIFICATION Spec
CONSTANTS
  Clients = {c1, c2}
  List <- MCList
  Managers = {m1, m2}
  Controllers <- MCControllers
  MaxAsks = 2
  None = none
  No = no
SYMMETRY Symmetric
CHECK_DEADLOCK FALSE
INVARIANTS TypeOK TrueAnswers DoneOnce NobodyStuck
