SPECIFICATION CleanupSpec
CONSTANTS
  m1 = m1
  m2 = m2
  m3 = m3
  m4 = m4
  i1 = i1
  i2 = i2
  i3 = i3
  Messages = {m1, m2, m3, m4}
  Boxes = {"local"}
  Indexes = {i1, i2, i3}
  Dates = {1, 2, 3}
  DeleteCount = 3
  MaxKeep = 2
SYMMETRY Symmetry
PROPERTIES
  OnlyListedRemoved
  NewestReadKept
