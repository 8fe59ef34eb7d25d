\* Two accounts measured within 20 ms of each other.
SPECIFICATION Spec
CONSTANTS
  Account = {1, 2}
  Figures = {1000, 1020}
  Limit = 2000
  MinAvailable = 1
  PriorityStart = 1000
  PriorityStep = 100
  BadLimit = 2
  GoodLimit = 2
  Hold = 2
  Fresh = 1
  MaxEvents = 0
INVARIANT NearSpeedsKeepTheirOrder
CHECK_DEADLOCK FALSE
