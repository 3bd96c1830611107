SPECIFICATION Spec
CONSTANTS
  c1 = c1
  c2 = c2
  c3 = c3
  Callers = {c1, c2, c3}
  N = 4
  Groups <- MiddleGroup
  Operations <- AllCalls
  CheckedStore = FALSE
  LockOutlasts = TRUE
  Ttl = 1
  MaxTime = 1
  MaxCrashes = 1
SYMMETRY CallerSymmetry
INVARIANTS
  OneExecutor
  RecordSound
  NothingSkipped
  CompensationComplete
PROPERTIES
  InOrder
CHECK_DEADLOCK FALSE
