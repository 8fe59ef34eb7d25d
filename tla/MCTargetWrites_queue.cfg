\* The queue beside the corrector, with every fault: its invariants and the register it implements.
SPECIFICATION TargetSpec
CONSTANTS
  Account = {a1}
  Intent = {i1, i2}
  Priority = {p1, p2}
  Evaluator = {e1}
  Api = api
  Free = free
  NoGoal = nogoal
  Inputs = {"emergency_freeze", "shadow_mode", "write_disabled", "health", "plan", "evidence", "pause", "trust", "drift"}
  Faults = {"refused", "gone", "lost", "database", "restart"}
  MaxInputs = 2
  MaxFaults = 1
  MaxEvents = 3
SYMMETRY Symmetry
INVARIANTS TypeOK  LockInv OneGoal InFlightIsNewest
  
CHECK_DEADLOCK FALSE
