SPECIFICATION Spec
CONSTANTS
  Object = {o1, o2, o3}
  BatchSize = 2
  MaxEmits = 5
INVARIANTS
  TypeOK
  SuccessIsComplete
  ProgressIsWritten
  BatchesAreFull
PROPERTIES
  KeepsContract
CHECK_DEADLOCK FALSE
