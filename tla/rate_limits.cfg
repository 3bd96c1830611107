SPECIFICATION Spec
CONSTANTS
  Limit = 2
  Window = 4
  TokenTicks = 2
  InitialTokens = 1
  Kinds = {"memory", "redis", "redis+memory"}
  InUse = {"fixed-window", "sliding-window-log", "sliding-window-counter", "token-bucket"}
  Weights = {1, 2}
  Concurrency = 2
  MaxTime = 6
  MaxRequests = 5
  MaxFaults = 1
  MaxResets = 1
  MaxEvictions = 1
INVARIANTS
  WithinLimit
  RetryAfterHonest
CHECK_DEADLOCK FALSE
