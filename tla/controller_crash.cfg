\* Two connections, a crash at any point, files that may not open,
\* restarts at another control port.
SPECIFICATION Spec
CONSTANTS
  Handlers = {h1, h2}
  Main = main
  Nobody = nobody
  Pids = {p1, p2}
  InitialId = 1
  MaxId = 2
  InitialPort = 0
  MaxPort = 5
  ForeignPorts = {}
  Faults = {"mkdirFails", "writeFails", "otherPort"}
  ScanRoom = 3
  MaxCrashes = 1
SYMMETRY Symmetric
INVARIANTS TypeOK CreationExclusive IssuedDurable ListingFramed
PROPERTY KillHitsOwnVm
