SPECIFICATION Spec
CONSTANTS
  Pair = {p, q}
  Sizes = {1, 2}
  Null = Null
  Window = 1
  MaxRows = 2
  MaxDays = 2
INVARIANT LastWeekIsCounted
CHECK_DEADLOCK FALSE
