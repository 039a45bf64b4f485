SPECIFICATION Spec
CONSTANTS
  ann = ann
  e1 = e1
  s1 = s1
  s2 = s2
  Everyone = Everyone
  NoRow = NoRow
  Endpoints = {e1}
  Users = {ann}
  Sends = {s1, s2}
  Queries <- BroadcastOnly
  Limit = 1
  MaxFailures = 2
  MaxId = 1
  DbFaults = TRUE
INVARIANTS
  DisabledAfterRefusals
CHECK_DEADLOCK FALSE
