SPECIFICATION Spec
CONSTANTS
  N = 1
  Object = {o1}
  MaxAttempts = 2
  MaxChanges = 1
  MaxReplays = 0
  MaxInFlight = 1
INVARIANTS
  IndexIsSnapshot
CHECK_DEADLOCK FALSE
