SPECIFICATION Spec
CONSTANTS
  r1 = r1
  r2 = r2
  r3 = r3
  k1 = k1
  NoKey = NoKey
  Requests = {r1, r2, r3}
  Keys = {k1}
  Attempts = 1
  BreakerConfig <- Nervous
  MaxCancels = 1
  MaxTime = 1
SYMMETRY RequestSymmetry
INVARIANTS
  EachCountedOnce
  CancelledAsAsked
  TokensReleased
CHECK_DEADLOCK FALSE
