SPECIFICATION FairSpec
CONSTANTS
  FailureThreshold = 50
  MinRequests = 3
  WindowTicks = 3
  ResetTicks = 2
  MaxCalls = 4
INVARIANTS TypeOK HalfIsAProbe
PROPERTIES TripsOnRecentCalls OpenIsProbed ImplementsContract
