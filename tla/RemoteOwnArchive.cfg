SPECIFICATION Spec
CONSTANTS
  t1 = t1
  t2 = t2
  Tasks = {t1, t2}
  None = None
  LastSecond = 2
  Anonymized = {}
  MaxConsecErrors = 2
  Deadline = 2
  MaxRestarts = 0
INVARIANT CompleteHasOwnArchive
