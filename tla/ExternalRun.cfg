SPECIFICATION Spec
CONSTANTS
  Nodes <- MCNodes
  Family <- MCFamily
  Named <- MCNamed
  Projects <- MCProjects
  MaxPolls = 2
  MaxDeliveries = 3
INVARIANTS DagKeepsPlan ReportedAsHappened
PROPERTY OnlyLateAnswersRegress
CHECK_DEADLOCK FALSE
