\* Three turns and a snapshot over two conversations, with room for one in the
\* registry and for two turns in a history: overflow, eviction and trimming occur.
CONSTANTS
  None = None
  IDs = {i1, i2}
  Turns = {t1, t2, t3}
  Snapshots = {q1}
  MaxConversations = 1
  MaxTurns = 2
SPECIFICATION FairSpec
\* Every caller runs once.
CHECK_DEADLOCK FALSE
INVARIANTS
  InUseIsRegistered
  OverflowIsActive
  TurnSeesHistory
PROPERTIES
  CommittedTurnsStay
  EveryCallerIsServed
