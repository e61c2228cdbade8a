SPECIFICATION SpecWithCollections
CONSTANTS
  t1 = t1
  t2 = t2
  Tasks = {t1, t2}
  None = None
  LastSecond = 1
  Anonymized <- OneAnonymized
  MaxConsecErrors = 2
  Deadline = 2
  MaxRestarts = 0
PROPERTIES
  RemoteJobEnds
