SPECIFICATION Spec
CONSTANTS
  orders = orders
  refunds = refunds
  rates = rates
  db = db
  api = api
  Readers <- MCReaders
  Refs <- MCRefs
  RefOf <- MCRefOf
  Declared <- MCDeclared
  Offered <- MCOffered
  Policies <- MCPolicies
  Sizes <- MCSizes
  TTL = 1
  StepSeconds = 1
  MaxAttempts <- MCMaxAttempts
  MaxClock = 2
CHECK_DEADLOCK FALSE
INVARIANTS
  CacheIsBoundedAndFresh
  DriftNeedsRetry
