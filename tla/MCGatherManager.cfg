SYMMETRY Symmetry
SPECIFICATION Spec
CONSTANTS
  Gathers = {g1, g2}
  Downloads = {d1}
  Requests <- TwoRequests
  MaxActive = 2
  GatherTimeout = 1
  JobRetention = 2
  MaxSteps = 2
  LastStart = 0
  MaxRestarts = 1
  SameMillisecond = FALSE
  LongLines = TRUE
  None = None
INVARIANTS
  TypeOK
  GaugeCountsGoroutines
  RunningIsStoppable
  CompleteIsDownloadable
  ServedWhole
  ForgottenIsReclaimed
  NativeCompleteIsTidy
PROPERTY
  ImplementsLifecycle
