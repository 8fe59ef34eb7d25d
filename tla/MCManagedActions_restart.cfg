\* A restart between the approval and the execution of an intent.
SPECIFICATION FairSpec
CONSTANTS
  Account = {a1}
  Intent = {i1, i2, i3}
  Priority = {p1}
  Evaluator = {e1}
  Api = api
  Free = free
  NoGoal = nogoal
  Inputs = {"health"}
  Faults = {"restart"}
  MaxInputs = 1
  MaxFaults = 1
  MaxEvents = 2

PROPERTY RowsConverge
CHECK_DEADLOCK FALSE
