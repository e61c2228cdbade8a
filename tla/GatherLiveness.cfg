SPECIFICATION SpecWithOc
CONSTANTS
  Gathers = {g1}
  Downloads = {d1}
  Requests <- AllRequests
  MaxActive = 1
  GatherTimeout = 1
  JobRetention = 2
  MaxSteps = 2
  LastStart = 0
  MaxRestarts = 1
  SameMillisecond = FALSE
  LongLines = FALSE
  None = None
PROPERTIES
  EveryGatherEnds
  DoneContextFails
  EveryJobIsForgotten
