CONSTANTS
  l1 = l1  l2 = l2  c1 = c1  c2 = c2  c3 = c3
  Links = {l1}
  Calls = {c1, c2}
  Limit = 1
  Window = 2
  MaxCommits = 1
  Followed = {"transactions"}
SPECIFICATION FairSpec
INVARIANTS TypeOK ExpiryIsSet FinishedIsShown
PROPERTIES RefusalsEnd
