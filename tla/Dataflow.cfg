SPECIFICATION Spec
CONSTANTS
  Nodes <- MCNodes
  Family <- MCFamily
  Named <- MCNamed
  Projects <- MCProjects
  MaxAttempts = 2
  InPlace = TRUE
  FetchFaults = TRUE
INVARIANTS StrictPlansRun FormsFit
  NoWriteLeavesTargets RowsLostOnlyAtFetch WritesStayNear
PROPERTY EveryPlanEnds
CHECK_DEADLOCK FALSE
