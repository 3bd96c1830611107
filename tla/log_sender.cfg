SPECIFICATION FairSpec
CONSTANTS
  f1 = f1
  f2 = f2
  Senders = {"transport", "metrics"}
  BatchSize = 2
  MaxBufferSize = 3
  MaxRetries = 1
  MaxAge = 1
  CircuitConfig <- Lenient
  Flights = {f1, f2}
  MaxEntries = 4
  MaxClock = 1
INVARIANTS
  EntriesAccounted
PROPERTIES
  EntriesLeave
CHECK_DEADLOCK FALSE
