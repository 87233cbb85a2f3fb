SPECIFICATION FairSpec
CONSTANTS
  NIC = {"n1", "n2"}
  Named = {"n1", "n2"}
  MaxPort <- OneRebinds
  AddrTimeout = 1
  ClientTimeout = 2
  MaxHeartbeats = 3
  MaxPackets = 1
  MaxChanges = 1
INVARIANTS
  TypeOK
  OneAddressPerNic
PROPERTIES
  AddressesConverge
  RepliesReachClient
  SilentSessionsEnd
