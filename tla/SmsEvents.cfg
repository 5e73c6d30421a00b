SPECIFICATION Spec
CONSTANTS
  m1 = m1
  m2 = m2
  m3 = m3
  i1 = i1
  i2 = i2
  Messages = {m1, m2, m3}
  Boxes = {"local", "sim"}
  Indexes = {i1, i2}
  Dates = {1, 2}
  PollCount = 2
SYMMETRY Symmetry
INVARIANTS
  TypeOK
  NothingSkipped
PROPERTY
  Delivers
