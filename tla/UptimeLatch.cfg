SPECIFICATION Spec
CONSTANTS
  Waits = {20, 400}
  MaxWaits = 4
  Losses = {0, 10}
  MinUptime = 20
  DRIFT_ACCUMULATOR_CAP = 700
  None = None
INVARIANTS
  TypeOK
  ResetNoticed
  AnchorTrue
PROPERTY
  MovesMeanReset
CHECK_DEADLOCK FALSE
