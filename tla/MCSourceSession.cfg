\* Scans, keepalives, deployments and edits with every fault.
SPECIFICATION Spec
CONSTANTS
  Worker = {w1, w2}
  Token = {t1, t2, t3, t4, t5}
  NoToken = notoken
  Free = free
  Inputs = {"edit", "retry", "deployment", "expiry", "revoke", "wall"}
  Faults = {"refused", "lost", "database", "verdict", "restart"}
  MaxInputs = 2
  MaxFaults = 1
SYMMETRY Symmetry
INVARIANTS SessionTypeOK OneRenewal NoTokenSpentTwice LoginsAreNeeded
CHECK_DEADLOCK FALSE
