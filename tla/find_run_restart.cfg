\* One connection, a sound machine, one crash, a restart at another
\* control port.
SPECIFICATION Spec
CONSTANTS
  Handlers = {h1}
  Main = main
  Nobody = nobody
  Pids = {p1, p2}
  InitialId = 1
  MaxId = 2
  InitialPort = 0
  MaxPort = 6
  ForeignPorts = {}
  Faults = {"otherPort"}
  ScanRoom = 3
  MaxCrashes = 1
SYMMETRY Symmetric
INVARIANT SingleVm
