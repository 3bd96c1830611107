SPECIFICATION FairSpec
CONSTANTS
  a = a
  b = b
  Runs = {a, b}
  MaxAttempts = 3
  MinRequests = 2
  RatioPct = 30
  HasFallback = TRUE
  CustomConditions = TRUE
  Keyed = TRUE
  MaxFaults = 1
INVARIANTS
  RetriesBounded
  OneVerdict
PROPERTIES
  NothingAfterGlobal
  RunsSettle
CHECK_DEADLOCK FALSE
