\* Definitions of two actions; a definition that ran is done.
SPECIFICATION Spec
CONSTANTS
  Null = Null
  Infinite = Infinite
  Fraction = Fraction
  Failure = Failure
  Inputs <- MCInputs
  Actions <- MCActions
  Dialects = {"sqlite", "postgresql"}
  MaxActions = 2
INVARIANTS
  PortableResults
  DeclaredSchema
CHECK_DEADLOCK FALSE
