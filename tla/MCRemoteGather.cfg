SPECIFICATION Spec
CONSTANTS
  t1 = t1
  t2 = t2
  Tasks = {t1, t2}
  None = None
  LastSecond = 2
  Anonymized <- OneAnonymized
  MaxConsecErrors = 1
  Deadline = 1
  MaxRestarts = 1
INVARIANTS
  TypeOK
  GatheringMeansWorking
  ServingHasArchive
  CompleteIsCopied
  NamedAnonymizedIsMasked
PROPERTY
  ImplementsRemoteLifecycle
