SPECIFICATION Spec
CONSTANTS
  a = a
  b = b
  v1 = v1
  v2 = v2
  Replica = {r1, r2}
  Account = {a, b}
  Foreign = {f}
  Rev = {v1, v2}
  None = None
  Config <- Both
  Initial <- Older
  MaxFaults = 1
INVARIANTS
  TypeOK
  DoneMeansMatch
  ApplyInv
PROPERTIES
  ForeignUntouched
  KeepsConfigured
  PauseIsKept
  KeepsContract
SYMMETRY Symmetry
CHECK_DEADLOCK FALSE
