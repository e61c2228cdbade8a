SPECIFICATION FairSpec
CONSTANTS
  app = app
  Apps = {app}
  Limit = 2
INVARIANTS
  TypeOK
  DriftIsUnbroken
  DeletionRestartsTime
PROPERTIES
  GoneIsNotShown
  LastingDriftIsAnError
