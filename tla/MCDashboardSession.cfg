SPECIFICATION FairSessionSpec
CONSTANTS
  t1 = t1
  t2 = t2
  Tabs = {t1, t2}
  MaxLogins = 2
  MaxCalls = 2
  MaxEvents = 1
INVARIANTS
  OwnRefusalsCloseTheGate
PROPERTIES
  RemovedAdministratorsLeave
CHECK_DEADLOCK FALSE
