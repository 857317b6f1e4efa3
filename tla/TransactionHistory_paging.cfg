CONSTANTS
  s1 = s1  s2 = s2
  Syncs = {s1, s2}
  Seed = 1
  MaxPosted = 4
  MaxRestarts = 1
  PageSize = 2
SPECIFICATION FairSpec
INVARIANTS TypeOK ExportSlack
PROPERTIES EveryIdIsStored
CHECK_DEADLOCK FALSE
