SPECIFICATION FairTuner
CONSTANTS
  Traffics <- SomeTraffics
  Storages = {"memory", "file", "redis"}
  MinSamples = 2
  MinTimeout = 10
  MaxTimeout = 70
  Step = 5
  Smoothing = 3
  DeviationLimit = 25
  ErrorRateLimit = 500
  Default <- Start0
  MaxShifts = 2
  MaxFaults = 1
  MaxInterventions = 1
INVARIANTS
  ChangesReachEverybody
PROPERTIES
  TimeoutSettles
  LoopComesToRest
CHECK_DEADLOCK FALSE
