\* One connection, no crash, every fault but files that do not open.
SPECIFICATION Spec
CONSTANTS
  Handlers = {h1}
  Main = main
  Nobody = nobody
  Pids = {p1, p2, p3}
  InitialId = 1
  MaxId = 3
  InitialPort = 0
  MaxPort = 8
  ForeignPorts = {1}
  Faults = {"pidReuse", "forkFails", "mkdirFails"}
  ScanRoom = 3
  MaxCrashes = 0
SYMMETRY Symmetric
INVARIANTS SingleVm DistinctPorts CookieMatches ForwardsUnlessTaken
PROPERTY ImplementsPool
