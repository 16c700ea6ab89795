SPECIFICATION ManagerSpec
CONSTANTS
  r1 = r1
  r2 = r2
  s1 = s1
  s2 = s2
  db = db
  api = api
  RunIds <- MCRuns
  Steps <- MCSteps
  Names <- MCNames
  MaxAttempts = 2
  Modes <- MCModes
  Nothing = Nothing
INVARIANTS
  CacheIsSound
  UndisturbedScopes
PROPERTIES
  EveryTaskEnds
