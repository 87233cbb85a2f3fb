SPECIFICATION FairSpec
CONSTANTS
  Client = {c1, c2}
  MaxHost = 2
  ServerHost = 1
  Admin = {h1}
  AdminOps <- AllOps
  Faults <- TornFile
  Senders = {}
  MaxAcks = 1
INVARIANT
  ServerAddressReserved
PROPERTY
  OperationsEnd
