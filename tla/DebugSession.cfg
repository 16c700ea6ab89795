SPECIFICATION Spec
CONSTANTS
  s = s
  t = t
  u = u
  k = k
  x = x
  y = y
  Keys <- MCKeys
  Nodes <- MCNodes
  Plans <- MCPlans
  MaxRuns = 2
CHECK_DEADLOCK FALSE
INVARIANTS
  SelectionIsClosed
  OneRunPerArtifact
PROPERTIES
  InvalidationIsExact
