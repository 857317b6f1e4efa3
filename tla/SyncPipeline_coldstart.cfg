CONSTANTS
  l1 = l1  l2 = l2  w1 = w1  w2 = w2
  Links = {l1}
  Workers = {w1}
  MaxBacklog = 1
  MaxCrashes = 0
  MaxRebalances = 0
  MaxOutages = 1
  ColdStart = TRUE
  Nobody = Nobody
SPECIFICATION FairSpec
PROPERTIES DueIsAttempted
