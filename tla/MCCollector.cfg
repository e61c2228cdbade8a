SPECIFICATION FairSpec
CONSTANTS
  Gathers = {g}
  Backups = {b}
  Requests <- MCRequests
  Pods = {p1, p2}
  None = None
  AllNodes = 2
  Masters = 1
  MaxLost = 1
INVARIANTS
  TypeOK
  PodsAreDeleted
  FailuresAreReported
  PlanIsCovered
PROPERTY
  StopEnds
CHECK_DEADLOCK FALSE
