\* Two wrappers that share a variable over two models, three config commands of two
\* editors and two lives of the daemon.
CONSTANTS
  None = None
  Inline = Inline
  w1 = w1
  w2 = w2
  k1 = k1
  k2 = k2
  Names = {m1, m2}
  Variables = {k1, k2}
  Editors = {e1, e2}
  Wrappers = {w1, w2}
  Environment <- Keys
  MaxEdits = 3
  MaxGenerations = 2
SPECIFICATION Spec
\* Wrappers run once and commands are bounded.
CHECK_DEADLOCK FALSE
INVARIANTS
  TypeOK
  OwnKeyIsUsed
  StopRevokesKeys
