SPECIFICATION Spec
CONSTANTS
  a = a
  b = b
  v1 = v1
  v2 = v2
  Replica = {r1, r2}
  Account = {a, b}
  Foreign = {}
  Rev = {v1, v2}
  None = None
  Config <- OnlyFirst
  Initial <- Anything
  MaxFaults = 0
INVARIANTS
  NeverFails
CHECK_DEADLOCK FALSE
