CONSTANTS
  l1 = l1  l2 = l2  w1 = w1  w2 = w2
  Links = {l1}
  Workers = {w1, w2}
  MaxBacklog = 1
  MaxCrashes = 1
  MaxRebalances = 1
  MaxOutages = 1
  ColdStart = FALSE
  Nobody = Nobody
SPECIFICATION FairSpec
INVARIANT TypeOK
PROPERTIES NothingDropped DueIsAttempted QueuedIsAttempted
