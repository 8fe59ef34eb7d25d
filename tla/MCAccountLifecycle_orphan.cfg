CONSTANTS
  Groups = {11}
  Slots = {1, 2}
  Jobs = {1}
  Kits <- OrphanKits
SPECIFICATION Spec
INVARIANT
  Tracked
CHECK_DEADLOCK FALSE
