SPECIFICATION Spec
CONSTANTS
  Clusters <- MCNumbered
  Domains <- MCOwnOnly
  OwnDomain <- MCOwn
  Callers = {"native"}
  Options <- MCAll
  Roots <- MCRoots
CHECK_DEADLOCK FALSE
INVARIANT NodesStayApart
