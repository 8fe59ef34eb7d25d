SPECIFICATION Spec
CONSTANTS
  Check = {c1, c2}
  Prober = {p1}
  Inputs = {"check", "map", "source", "settings", "override", "validate", "hold", "trust", "restart"}
  Faults = {"begin", "finish"}
  ConfirmationFailures = 1
  TransientFailures = 2
  RecoverySamples = 2
  MaxInputs = 4
  Births = {"new", "old", "slow"}
SYMMETRY Symmetry
CHECK_DEADLOCK FALSE
INVARIANTS HealthTypeOK  OneCheck NewChannelsAreGated
PROPERTY HoldYields
