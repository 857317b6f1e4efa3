CONSTANTS
  c1 = c1  c2 = c2  c3 = c3  c4 = c4  c5 = c5
  Calls = {c1, c2}
  Capacity = 1
  MaxAttempts = 2
  BackoffBase = 1
  BackoffMax = 1
  MaxLag = 2
  MaxTime = 4
SPECIFICATION FairSpec
INVARIANTS TypeOK Throttled
PROPERTIES EveryCallEnds
