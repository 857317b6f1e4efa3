CONSTANTS
  all = all  week = week
  Filters = {all, week}
  NoDates = all
  PageSize = 1
  MaxTotal = 2
  None = None
SPECIFICATION Spec
INVARIANTS EmptyMeansNothing
