SPECIFICATION Spec
CONSTANTS
  c1 = c1
  c2 = c2
  c3 = c3
  c4 = c4
  Calls = {c1, c2, c3, c4}
  DirectCalls = {}
  Configs <- NoConfigs
  InitConfig <- Small
  MaxTime = 2
  MaxResets = 1
SYMMETRY CallSymmetry
INVARIANTS
  HalfOpenNotWedged
  ClosedIsHealthy
PROPERTIES
  HalfOpenVerdictIsTheCohorts
  ImplementsContract
CHECK_DEADLOCK FALSE
