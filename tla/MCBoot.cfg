SPECIFICATION FairSpec
CONSTANTS
  user = user
  merchant = merchant
  i1 = i1
  i2 = i2
  Instances = {i1, i2}
  Apps = {user, merchant, other}
  EnvApps <- TwoApps
  MaxCrashes = 2
  Retention = TRUE
  MaxOpen = 1
  MaxStops = 1
  MaxChanges = 3
  other = other
INVARIANTS
  SeedIsWhole
  ShutdownsLoseNoRequest
PROPERTIES
  ImplementsAtomicImport
  ServesASeededDatabase
  EveryInstanceComesUp
  OldLogsGo
CHECK_DEADLOCK FALSE
