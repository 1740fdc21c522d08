SPECIFICATION Spec
CONSTANTS
  N = 2
  Object = {o1}
  MaxAttempts = 2
  MaxChanges = 1
  MaxReplays = 1
  MaxInFlight = 0
INVARIANTS
  TypeOK
  ResultIsFaithful
PROPERTIES
  WorkflowFinishes
  KeepsContract
CHECK_DEADLOCK FALSE
