CONSTANTS
  Reader = {r1}
  r1 = r1
  r2 = r2
  Page = {r1}
  Batch = {b1}
  b1 = b1
  None = None
  QueueSize = 1
  MaxChannels = 2
  MaxEdits = 1
  MaxFaults = 2
SPECIFICATION EventsSpec
CHECK_DEADLOCK FALSE
INVARIANTS
  FingerprintIsTold
