\* Scans and keepalives go on through refusals, lost replies and restarts.
SPECIFICATION FairSpec
CONSTANTS
  Worker = {w1, w2}
  Token = {t1, t2, t3}
  NoToken = notoken
  Free = free
  Inputs = {"revoke", "retry"}
  Faults = {"refused", "lost", "database", "restart"}
  MaxInputs = 1
  MaxFaults = 1
INVARIANT RunningHasScan
PROPERTY ScansGoOn
CHECK_DEADLOCK FALSE
