\* The queue, the corrector and a priority edit: rows and node converge.
SPECIFICATION FairTargetSpec
CONSTANTS
  Account = {a1}
  Intent = {i1, i2}
  Priority = {p1, p2}
  Evaluator = {e1}
  Api = api
  Free = free
  NoGoal = nogoal
  Inputs = {"trust", "plan", "manual", "drift"}
  Faults = {"lost", "refused"}
  MaxInputs = 2
  MaxFaults = 1
  MaxEvents = 2
INVARIANT ApprovedHasExecutor
PROPERTIES RowsConverge RemoteConverges
CHECK_DEADLOCK FALSE
