SPECIFICATION Spec
CONSTANTS
  Account <- MCAccount
  Region = {"global", "r1", "r2"}
  GlobalRegion = "global"
  BaseRegion = "r1"
INVARIANTS
  OwnConfig
CHECK_DEADLOCK FALSE
