SPECIFICATION Spec
CONSTANTS
  Modes = {"00", "03"}
  Start <- MCStart
  MaxLate = 1
INVARIANTS
  CleanReport
  PutBack
CHECK_DEADLOCK FALSE
