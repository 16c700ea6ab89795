CONSTANTS
  None = None
  AnyVersion = AnyVersion
  Unreadable = Unreadable
  Sites <- MCSites
  Profiles <- MCProfiles
  HandMade <- MCHandMade
  MaxCalls = 2
SPECIFICATION DiscoverySpec
INVARIANTS
  ProductionUsesAllowed
  LoadedIsAuthorized
  ForecastsHold
CHECK_DEADLOCK FALSE
