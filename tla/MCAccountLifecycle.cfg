CONSTANTS
  Groups = {11, 12}
  Slots = {1, 2}
  Jobs = {1, 2}
  Kits <- MCKits
SPECIFICATION FairSpec
INVARIANTS
  SagaTypeOK
  Tracked
  
  OneBinding
  DeletedHasNothing
PROPERTIES
  
  RetiredAreDeleted
  LedgerSpec
CHECK_DEADLOCK FALSE
