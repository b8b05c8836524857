\* A native Run stream and a RunSSE stream share a session; two run requests, one
\* of which asks for MCP discovery, compete for it: refinement and liveness.
CONSTANTS
  None = None
  Runs = {r1, r2}
  DiscoveringRuns = {r1}
  Calls = {}
  ReadCalls = {}
  EditCalls = {}
  ShellCalls = {}
  Streams = {d1, s1}
  DirectStreams = {d1}
  Detached = {}
  MaxPasses = 1
  MaxCallsPerPass = 1
  MaxChatter = 0
SPECIFICATION FairSpec
\* The session is over when its streams are closed and the runner has exited.
CHECK_DEADLOCK FALSE
INVARIANTS
  OutcomeMatchesHistory
PROPERTIES
  ImplementsRunLog
  DiscoveryEnds
  StreamSeesEnd
  AbandonedRunEnds
