\* One account: its latency state, the last resort and the actions they lead to.
SPECIFICATION FairSpec
CONSTANTS
  Account = {1}
  Figures = {900, 1700, 2500}
  Limit = 2000
  MinAvailable = 1
  PriorityStart = 1000
  PriorityStep = 100
  BadLimit = 2
  GoodLimit = 2
  Hold = 3
  Fresh = 1
  MaxEvents = 1
INVARIANT PolicyTypeOK
PROPERTIES SlowIsConfirmed HoldLasts  
CHECK_DEADLOCK FALSE
