\* One connection, another program that takes a port, no crash.
SPECIFICATION Spec
CONSTANTS
  Handlers = {h1}
  Main = main
  Nobody = nobody
  Pids = {p1, p2}
  InitialId = 1
  MaxId = 2
  InitialPort = 0
  MaxPort = 6
  ForeignPorts = {1}
  Faults = {}
  ScanRoom = 3
  MaxCrashes = 0
SYMMETRY Symmetric
INVARIANT ForwardsAdvertised
