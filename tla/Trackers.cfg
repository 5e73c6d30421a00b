SPECIFICATION TrackersSpec
CONSTANTS
  e1 = e1
  e2 = e2
  Entries = {e1, e2}
  Macs = {m1, m2}
  m1 = m1
  m2 = m2
  Bare = Bare
INVARIANTS
  OneTracker
CHECK_DEADLOCK FALSE
