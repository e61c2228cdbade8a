SPECIFICATION Spec
CONSTANTS
  Gathers = {}
  Backups = {b}
  Requests <- MCRequests
  Pods = {p1}
  None = None
  AllNodes = 1
  Masters = 1
  MaxLost = 0
INVARIANT
  CompleteBackupIsSnapshot
CHECK_DEADLOCK FALSE
