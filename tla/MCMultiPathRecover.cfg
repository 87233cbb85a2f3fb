SPECIFICATION FairSpec
CONSTANTS
  Nic = {n1, n2}
  Addr = {a1}
  RTTs = {1}
  Modes <- Failover
  MaxAttempts = 1
  MaxPaths = 2
  MaxLoops = 1
  MaxChanges = 2
  Faults <- StopFaults
INVARIANTS
  UsablePathsOpen
PROPERTIES
  PathsRecover
  StopEnds
  FailoverLeavesSilentPaths
CHECK_DEADLOCK FALSE
