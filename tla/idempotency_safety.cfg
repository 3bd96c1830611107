SPECIFICATION FairSpec
CONSTANTS
  r1 = r1
  r2 = r2
  r3 = r3
  Requests = {r1, r2, r3}
  Stores = {"memory", "redis"}
  TtlOutlasts = TRUE
  Ttl = 2
  MaxFailures = 1
  MaxCrashes = 1
INVARIANTS
  SingleFlightInMemory
  PendingOwned
  ReplayIsGenuine
PROPERTIES
  NoRepeat
  PendingResolved
CHECK_DEADLOCK FALSE
