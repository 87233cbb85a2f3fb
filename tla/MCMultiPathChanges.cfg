SPECIFICATION Spec
CONSTANTS
  Nic = {n1}
  Addr = {a1, a2}
  RTTs = {1}
  Modes <- BothModes
  MaxAttempts = 1
  MaxPaths = 3
  MaxLoops = 2
  MaxChanges = 2
  Faults <- NicFaults
INVARIANTS
  TypeOK
  SocketsAccounted
  PathsFollowScan
  RemovedLoopsEnd
CHECK_DEADLOCK FALSE
