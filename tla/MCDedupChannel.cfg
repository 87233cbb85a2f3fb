SPECIFICATION Spec
CONSTANTS
  SeqMod = 12
  Window = 3
  Path = {p1, p2}
  Lag = 3
  MaxGap = 4
  MaxSent = 13
  MaxRestarts = 1
  RestartAt <- FarRestart
INVARIANTS
  TypeOK
  NoPacketTwice
  NoFreshPacketDropped
CHECK_DEADLOCK FALSE
