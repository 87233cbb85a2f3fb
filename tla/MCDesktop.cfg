SPECIFICATION FairSpec
CONSTANTS
  IP = {"a", "b"}
  MaxConnects = 2
  MaxChanges = 3
INVARIANTS
  TypeOK
  OneClientRuns
  ClientInReach
PROPERTY
  ClientFollowsNic
