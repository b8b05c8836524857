\* Two calls of two fragments and two deltas of text or reasoning, over both endpoints;
\* an event may cost two lines, so that its framing fills the limit exactly.
CONSTANTS
  Indexes = {0, 1}
  MaxDeltas = 2
  MaxFragments = 2
  MaxEventBytes = 2
SPECIFICATION FairSpec
\* A pass that has ended does nothing more.
CHECK_DEADLOCK FALSE
INVARIANTS
  NoTruncatedSuccess
  WholeCalls
  ShownIsSaid
  ConformingIsUnderstood
PROPERTIES
  PassEnds
