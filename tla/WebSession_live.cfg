CONSTANTS
  u1 = u1  u2 = u2  s1 = s1  s2 = s2  p1 = p1
  Users = {u1, u2}
  SignIns = {s1, s2}
  Posts = {p1}
  None = None
SPECIFICATION FairSpec
INVARIANTS TypeOK AtMostOnce StoreIsOne ShownHoldsTokens
PROPERTIES EveryRequestEnds LoadingEnds
