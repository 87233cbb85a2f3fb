SPECIFICATION FairSpec
CONSTANTS
  MaxClients = 2
  Refuses = TRUE
INVARIANTS
  TypeOK
  DevicesNotShared
  StopReachesNewest
PROPERTIES
  ClientsEnd
  TrafficStarts
  AppIsTold
