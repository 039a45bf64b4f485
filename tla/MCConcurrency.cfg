SPECIFICATION FairSpec
CONSTANTS
  Sizes <- MCSizes
  Limits <- MCLimits
INVARIANTS
  AtMostOnce
  ResolvedInInputOrder
  HolesAreFailures
PROPERTIES
  ImplementsParallelMap
\* a map that has finished takes no further step
CHECK_DEADLOCK FALSE
