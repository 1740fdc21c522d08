SPECIFICATION Spec
CONSTANTS
  GlobalTypes = {"iam", "billing"}
  RegionalTypes = {"rds", "ecs"}
  BillingType = "billing"
  BaseRegion = "r1"
  File <- MCFile
  Env <- MCEnv
  Listed <- MCListed
  Flags <- MCFlags
INVARIANTS
  TypeOK
  ValidIsRunnable
  OneWriterPerUnit
  CommandDoesWhatWasAsked
  OwnConfig
CHECK_DEADLOCK FALSE
