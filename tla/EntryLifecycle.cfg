SPECIFICATION Spec
CONSTANTS
  Hosts = {"h1"}
  Passwords = {"p1", "p2"}
  Intervals = {30, 180}
  MaxEdits = 3
INVARIANTS
  IntervalKept
  
PROPERTIES
  ChangesTakeEffect
CHECK_DEADLOCK FALSE
