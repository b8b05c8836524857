\* Tools, and MCP discovery if the run is the other one, under results from three
\* requests: no stream, so only the daemon cancels; what is made of results.
CONSTANTS
  None = None
  Runs = {r1, r2}
  DiscoveringRuns = {r2}
  Calls = {c1, c2}
  ReadCalls = {}
  EditCalls = {c1}
  ShellCalls = {c2}
  Streams = {}
  DirectStreams = {}
  Detached = {x1, x2, x3}
  MaxPasses = 2
  MaxCallsPerPass = 2
  MaxChatter = 1
  MaxBytes = 6
  Deltas <- MCDeltas
  MaxDeltas = 3
  MaxItems = 3
  MaxMcpItems = 2
  MaxMcpBytes = 6
  DefaultDepth = 2
  Names <- MCNames
  Trees <- MCTrees
  Hits <- MCHits
  McpResults <- MCMcpResults
  Listings <- MCListings
  Searches <- MCSearches
SPECIFICATION ToolsSpec
\* The session is over when the runner has exited and every result was tried.
CHECK_DEADLOCK FALSE
INVARIANTS
  TypeOK
  PendingIndexesAgree
  ResultTravelsOnce
  TerminalHoldsNothing
  LogIsWellFormed
  ShellLossIsTold
  McpLossIsTold
  ListLossIsTold
  SearchIsHead
PROPERTIES
  CanceledRunEnds
