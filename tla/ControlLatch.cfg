SPECIFICATION Spec
CONSTANTS
  Modes = {"00", "03"}
  Calls = {1, 2}
  MaxCalls = 2
  StrikeLimit = 1
  MaxFailures = 2
  MaxLate = 1
INVARIANTS
  EvidenceShown
PROPERTIES
  ControlsSettle
CHECK_DEADLOCK FALSE
