\* A wrapper of each version, a stop command and two daemon processes.
CONSTANTS
  Wrappers = {w1, w2}
  Upgraded = {w2}
  Stoppers = {s1}
  Daemons = {d1, d2}
  None = None
SPECIFICATION FairSpec
INVARIANTS HolderIsAlone StoppedMeansStopped
PROPERTIES ImplementsSharedDaemon LockIsNotLeaked
CHECK_DEADLOCK FALSE
