CONSTANTS
  u1 = u1  u2 = u2  b1 = b1  b2 = b2  j1 = j1  j2 = j2
  Users = {u1}
  Banks = {b1}
  Plaid = Plaid
  Jobs = {j1}
  MaxRows = 2
  MaxDeletes = 1
  None = None
SPECIFICATION FairSpec
INVARIANTS TypeOK ListIsRight
PROPERTIES WorkingEnds
