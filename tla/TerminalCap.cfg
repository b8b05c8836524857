\* Two runs that are active at once in a table with room for one, and then end.
CONSTANTS
  None = None
  IDs = {i1, i2}
  RunRequests = {r1, r2}
  StreamRequests = {}
  MaxSessions = 1
  Retention = 2
  MaxClock = 0
SPECIFICATION Spec
INVARIANT TerminalSessionsAreCapped
CHECK_DEADLOCK FALSE
