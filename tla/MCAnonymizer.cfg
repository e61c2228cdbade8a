SPECIFICATION Spec
CONSTANTS
  Clusters <- MCClusters
  Domains <- MCDomains
  OwnDomain <- MCOwn
  Callers = {"oc", "native", "hub"}
  Options <- MCOptions
  Roots <- MCRoots
CHECK_DEADLOCK FALSE
INVARIANTS
  TypeOK
  PseudonymsDiffer
  CompleteIsMasked
  CompleteIsRenamed
