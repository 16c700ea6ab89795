SPECIFICATION Spec
CONSTANTS
  a = a
  b = b
  c = c
  d = d
  Nodes <- MCNodes
  Plans <- MCPlans
  Requests <- MCRequests
INVARIANTS
  GraphRespected
  AttemptsPermitted
  ReportIsTrue
PROPERTIES
  UnknownNotRetried
  RunEnds
  KeepsContract
