SPECIFICATION Spec
CONSTANTS
  Client = {c1, c2}
  MaxHost = 4
  ServerHost = 1
  Admin = {h1}
  AdminOps <- UpdateOp
  Faults <- NoFaults
  Senders = {}
  MaxAcks = 2
INVARIANTS
  PoolIsInjective
  SessionsFollowPool
