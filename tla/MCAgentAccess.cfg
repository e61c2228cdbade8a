SPECIFICATION FairSpec
CONSTANTS
  h1 = h1
  h2 = h2
  c1 = c1
  Handlers = {h1, h2}
  Callers = {c1}
  MaxDeletionPolls = 1
  MaxTokenPolls = 1
  MaxImages = 1
  MaxPods = 2
  None = None
CHECK_DEADLOCK FALSE
INVARIANTS
  TypeOK
  PodReplacementIsMasked
PROPERTIES
  NoOlderImage
  StaleTokenIsForgotten
