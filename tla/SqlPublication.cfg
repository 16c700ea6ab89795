SPECIFICATION Spec
CONSTANTS
  r1 = r1
  r2 = r2
  Runs <- MCRuns
  MaxAttempts = 2
  Modes <- MCModes
  MaxFaults = 4
  Previous = Previous
  Missing = Missing
INVARIANTS
  PublishedAsReported
  StagingLivesAsItsRun
PROPERTIES
  TargetStays
