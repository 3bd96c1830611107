SPECIFICATION FairSpec
CONSTANTS
  c1 = c1
  c2 = c2
  c3 = c3
  Calls = {c1, c2, c3}
  SyncThrowers = {}
  Configs <- Switching
  InitConfig <- Narrow
  MaxTime = 2
  MaxResets = 1
INVARIANTS
  Accounted
PROPERTIES
  StartsInOrder
  ReleaseHandsOver
  CallsSettle
CHECK_DEADLOCK FALSE
