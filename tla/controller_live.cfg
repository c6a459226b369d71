\* A crash, a restart at the same control port, forks that fail and a process
\* that runs out of descriptors; every thread that can go on does.
SPECIFICATION FairSpec
CONSTANTS
  Handlers = {h1}
  Main = main
  Nobody = nobody
  Pids = {p1, p2}
  InitialId = 1
  MaxId = 2
  InitialPort = 0
  MaxPort = 4
  ForeignPorts = {1}
  Faults = {"forkFails", "noDescriptors"}
  ScanRoom = 2
  MaxCrashes = 1
INVARIANTS IssuedDurable SingleVm
PROPERTIES LockReleased BootFinishes
