\* Two wrappers of the newer version find a daemon of the older one.
CONSTANTS
  Wrappers = {w1, w2}
  Upgraded = {w1, w2}
  Stoppers = {}
  Daemons = {d1}
  None = None
SPECIFICATION Spec
INVARIANT UpgradeIsNotRefused
CHECK_DEADLOCK FALSE
