SPECIFICATION Spec
CONSTANTS
  Nic = {n1}
  Addr = {a1}
  RTTs = {1}
  Modes <- Redundant
  MaxAttempts = 1
  MaxPaths = 3
  MaxLoops = 2
  MaxChanges = 2
  Faults <- NicSilence
INVARIANT
  NeverPanics
CHECK_DEADLOCK FALSE
