SPECIFICATION FairSpec
CONSTANTS
  c1 = c1
  c2 = c2
  d1 = d1
  Calls = {c1, c2}
  DirectCalls = {d1}
  Configs <- AnyConfigs
  InitConfig <- Nervous
  MaxTime = 2
  MaxResets = 0
INVARIANTS
  OpenIsQuiet
PROPERTIES
  CallsSettle
CHECK_DEADLOCK FALSE
