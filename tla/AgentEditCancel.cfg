\* An Edit whose stream is dropped between its Read and its Write.
CONSTANTS
  None = None
  Runs = {r1}
  DiscoveringRuns = {}
  Calls = {c1}
  ReadCalls = {}
  EditCalls = {c1}
  ShellCalls = {}
  Streams = {d1}
  DirectStreams = {d1}
  Detached = {}
  MaxPasses = 1
  MaxCallsPerPass = 1
  MaxChatter = 0
SPECIFICATION Spec
CHECK_DEADLOCK FALSE
PROPERTIES
  NoEditWriteAfterCancellation
