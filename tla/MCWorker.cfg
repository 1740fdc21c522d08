SPECIFICATION Spec
CONSTANTS
  Task = {t1}
  Interval = 2
  Horizon = 7
  MaxFaults = 2
INVARIANTS
  TypeOK
  ReadyMeansWorking
  DetectsInTime
  HealthyIsReady
PROPERTIES
  BlipTolerated
  NoTaskIsStranded
  SignalEnds
  BecomesReady
CHECK_DEADLOCK FALSE
