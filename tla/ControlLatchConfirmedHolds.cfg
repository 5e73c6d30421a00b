SPECIFICATION Spec
CONSTANTS
  Modes = {"00", "03"}
  Calls = {1}
  MaxCalls = 2
  StrikeLimit = 1
  MaxFailures = 1
  MaxLate = 1
INVARIANTS
  ConfirmedHolds
CHECK_DEADLOCK FALSE
