SPECIFICATION Spec
CONSTANTS
  Check = {c1}
  Prober = {p1}
  Inputs = {"hold"}
  Faults = {}
  ConfirmationFailures = 2
  TransientFailures = 3
  RecoverySamples = 2
  MaxInputs = 3
  Births = {"old"}
INVARIANT HeldIsRejected
CHECK_DEADLOCK FALSE
