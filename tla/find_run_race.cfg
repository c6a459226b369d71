\* Two connections, a sound machine.
SPECIFICATION Spec
CONSTANTS
  Handlers = {h1, h2}
  Main = main
  Nobody = nobody
  Pids = {p1, p2}
  InitialId = 1
  MaxId = 2
  InitialPort = 0
  MaxPort = 6
  ForeignPorts = {}
  Faults = {}
  ScanRoom = 3
  MaxCrashes = 0
SYMMETRY Symmetric
INVARIANT SingleVm
