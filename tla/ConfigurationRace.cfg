\* Config commands alone: two editors, three commands, two models.
CONSTANTS
  None = None
  Inline = Inline
  w1 = w1
  w2 = w2
  k1 = k1
  k2 = k2
  Names = {m1, m2}
  Variables = {k1, k2}
  Editors = {e1, e2}
  Wrappers = {w1, w2}
  Environment <- Keys
  MaxEdits = 3
  MaxGenerations = 0
SPECIFICATION Spec
\* Commands are bounded.
CHECK_DEADLOCK FALSE
PROPERTY InitReplacesNothing
