SPECIFICATION Spec
CONSTANTS
  Client = {c1, c2, c3}
  MaxHost = 3
  ServerHost = 1
  Admin = {}
  AdminOps <- NoAdmin
  Faults <- AllFaults
  Senders = {c1}
  MaxAcks = 3
INVARIANTS
  TypeOK
  RegistryAgrees
PROPERTY
  AddressesAreStable
