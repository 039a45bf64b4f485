SPECIFICATION FairSpec
CONSTANTS
  ann = ann
  e1 = e1
  s1 = s1
  s2 = s2
  Everyone = Everyone
  NoRow = NoRow
  Endpoints = {e1}
  Users = {ann}
  Sends = {s1, s2}
  Queries <- DoubledAndSingle
  Limit = 2
  MaxFailures = 2
  MaxId = 2
  DbFaults = TRUE
INVARIANTS
  DisabledAtThreshold
  SummaryMatchesLog
  LogTellsAnswer
  ExpiredMeansPruned
PROPERTIES
  MarksHitTheRowRead
  SendsAreAnswered
  OnlyDeadChannelsPruned
  SendsArePools
CHECK_DEADLOCK FALSE
