SPECIFICATION Spec
CONSTANTS
  N = 1
  Object = {o1, o2}
  MaxAttempts = 3
  MaxChanges = 1
  MaxReplays = 0
  MaxInFlight = 2
INVARIANTS
  DenialDecides
  ReportedMeansStored
PROPERTIES
  StaleWriteHasCause
CHECK_DEADLOCK FALSE
