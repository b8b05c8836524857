\* Three run requests and a stream over three IDs, with room for one session.
CONSTANTS
  IDs = {i1, i2, i3}
  RunRequests = {r1, r2, r3}
  StreamRequests = {s1}
  MaxSessions = 1
  Retention = 2
  MaxClock = 3
  None = None
SPECIFICATION Spec
SYMMETRY Symmetry
INVARIANTS UnfinishedIsRegistered TableIsBounded
PROPERTIES DroppedForAReason RetryRunsNothing
CHECK_DEADLOCK FALSE
