SPECIFICATION Spec
CONSTANTS
  Client = {c1, c2}
  SeqMod = 8
  Window = 4
INVARIANTS
  TypeOK
  WindowInv
PROPERTY
  ImplementsExactWindow
