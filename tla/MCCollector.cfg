SPECIFICATION Spec
CONSTANTS
  Cluster = {c1, c2}
  Home = home
  Last = 3
  PageSize = 2
  MaxChanges = 3
  MaxFaults = 1
  LastDay = 3
  FirstOf <- MCFirstOf
INVARIANTS
  TypeOK
  StableIsEmitted
  EmittedOnce
  FailsOnlyForCause
  MonthOfFigures
PROPERTIES
  CollectEnds
CHECK_DEADLOCK FALSE
