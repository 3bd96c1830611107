SPECIFICATION FairSpec
CONSTANTS
  GroupSize = 4
  Timed <- AllTimed
  MaxConcurrent = 1
  MaxQueue = 2
  MaxAttempts = 2
INVARIANTS
  SlotsAccounted
  OnlyLateWorkGoesOn
PROPERTIES
  GroupSettles
