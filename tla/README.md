# A TLA+ model of cursor-cli-byok

`cursor-cli-byok` lets the official Cursor CLI talk to the user's own model
provider. A wrapper command starts (or finds) a local daemon, launches the
official CLI against it, and the daemon translates between Cursor's agent
protocol and an OpenAI-compatible provider, running tools on the client.

This directory holds TLA+ modules translated from the Go source, TLC
configurations that check them on small instances, and proofs for TLAPS. Line
numbers below and in comments are those of the files under `src/`.
`PROJECT.json` gives, for every definition, the source lines it stands for.

Contents: 1 inventory, 2 modules and how they correspond to the code, 3 runs,
4 fairness, 5 proofs, 6 disagreements found, 7 what is not modelled, 8 plan.

## 1. The system: parts, state, interaction

| Part | Source (`src/internal/`) | State | Operations | Hard because | Correct when |
| --- | --- | --- | --- | --- | --- |
| Agent session | `server/agent.go` 145-473, 579-1268 | run, outcome, replay log, one wakeup channel, subscriber count, pending tools under two indexes, pending MCP discovery, context | start, finish, publish, openTool, applyToolResult, enrichRunWithMCP, subscribe, unsubscribe, snapshot, streamSession, consumeDirectInputs | a runner, several streams, uploads and detached results share it; every one may be canceled, late or duplicated | one log that every reader sees a prefix of; results reach the runner once; the outcome agrees with the history; every run and every stream ends |
| Session table | `server/agent.go` 483-577 | request ID -> session, terminal times | session (prune, make room, create), applyDetachedToolResult | whether a session has ended is read under another mutex than the table's | an unfinished session keeps its ID; an ended one is dropped only for a reason; the table is bounded |
| Agent runner | `agent/runner.go` | messages of the turn, delivered call IDs, passes | Execute, runProviderPass | it blocks in the provider, on results, on the conversation | a turn is committed exactly when it is reported as successful |
| Conversation registry | `agent/conversation.go` | conversation -> turns, active count, last use | acquire, release, evict, Snapshot, appendTurn | eviction under use, queueing on a mutex | one history per conversation, serialized turns, a bound that only use exceeds |
| Provider client | `provider/openai/*` | line reader, decoder and accumulators of one response | Stream, readSSE | an arbitrary peer, cut anywhere | never a truncated success, whole calls, conforming responses understood |
| Daemon processes | `daemon/manager.go`, `starter.go`, `lock_unix.go`, `state.go`, `health.go`, `shutdown.go`, `service.go`; `command/serve.go`, `stop.go` | lock file, state file, child process, listener | Ensure, startUnderLock, waitForChild, stopChild, RunService, serve, stop | several processes, a lock shared by descriptor inheritance, crashes, timeouts | at most one daemon, found by everybody while it is ready, replaced and stopped as told |
| Configuration and keys | `config/*`, `command/config.go`, `command/agent.go`, `daemon/provider_environment.go` | config file; keys handed to the daemon | init, add, use, remove; Sync, Update, Getenv; ResolveModel | commands and wrappers share a file and a daemon without a lock | turns use keys handed to this daemon; nothing valid is lost |
| Idle monitor | `daemon/idle.go` | leases, last activity, wake channel | Begin and the end it returns, Wait | a timer against a lease, a signal between a look and a wait | idle only without a lease; idle at last when nobody uses the daemon |
| Certificates | `certs/manager.go` | four files | Ensure, generate, loadAndValidate | a crash or an error between the files, damage, expiry | what the server presents is what the CA file on disk vouches for |
| HTTP server of the daemon | `server/server.go`, `daemon/service.go`, `daemon/shutdown.go` | listener, connections, service context, drain goroutine | Start, Shutdown, Close, RunService's select, the Shutdown call | three reasons to stop and two goroutines that drain at once, requests admitted meanwhile | an idle exit cuts nobody off; a daemon that is told to stop ends |
| Bounded tool results | `server/agent.go` 1018-1060, 1145-1165; `protocol/tool_shell.go`, `tool_files.go`, `tool_mcp.go` | a Shell call's two buffers and one flag | appendBoundedShellOutput, FinalizeShellToolResult, summarizeMCPSuccess, flattenListTree, parseGrepResult | cuts within runes that add up over many messages, bounds checked at many places of a recursion | nothing is lost before the bound, and what is lost is marked |
| Protocol codec, tools | the rest of `protocol/*`, `tools/*` | none | encode, decode | pure | golden tests |
| Other commands, launcher | `command/*`, `cursorcli/*`, `paths`, `buildinfo` | none | status, doctor, discovery, launch | sequential | not modelled |

How they interact. The wrapper (`command/agent.go`) resolves its model with the
configuration file, calls `Manager.Ensure`, hands the model's key to the daemon
over HTTPS and runs the CLI. In the daemon an HTTP handler finds a session in
the table; the first run request starts a goroutine (`handler.execute`) that
calls the runner with a callback into the session. The runner holds the
conversation of the registry for the whole turn, resolves the model (file and
keys again), and alternates between a provider pass and tool calls. A tool call
is an event in the session's log and a pending entry; the CLI sees the event on
a response stream, runs the tool and sends the result on the stream's upload or
as a request of its own, and the session passes it to the runner through a
channel. Processes share the lock file, the state file and the config file;
goroutines share `session.mu`, `handler.mu`, `registry.mu`, one mutex per
conversation and the channels named above.

What can go wrong in these interactions is listed, line by line, under
`hazards` in `PROJECT.json`, each with the properties that would catch it.

## 2. Modules

Each module has the code's state as variables, and one action per critical
section, select or file operation: the granularity at which other goroutines
and processes can see, or come between, the steps of a function. Definitions
with an underscore and a suffix (`Lock_Shared`, `EnsureGiveUp_KeepsChild`) are
variants of the definition after them with a plausible bug; no specification
uses them. They are there to show that each property notices such a bug.

### RunLog, AgentSession

`AgentSession` is one session. `pc` is where `handler.execute` is, `phase[s]`
where stream `s` is in `streamSession`, `sender[q]` where an upload or a
detached request is in bringing a result.

| Actions | Code |
| --- | --- |
| `BidiAppend`, `OpenDirectRun`, `Start` | `serveBidiAppend`, `serveDirectRun`, `agentSession.start` |
| `Enrich` ... `DiscoveryTimeout` | `enrichRunWithMCP` and its helpers |
| `Precheck` ... `StopWaiting` | `Runner.Execute` with `publish` and `openTool` |
| `FinishTurn`, `FinishFailure`, `Finish` | the end of `handler.execute`, `agentSession.finish` |
| `Subscribe` ... `CancelRun`, `StartTimeout`, `DropStream` | `streamSession`, `subscribe`, `unsubscribe`, `snapshot` |
| `UploadResult`, `EndUpload`, `RejectUpload` | `consumeDirectInputs` |
| `MatchDetached`, `ApplyDetached`, `ApplyToolResult` | `applyDetachedToolResult`, `matchesToolResult`, `applyToolResult` |
| `SendResult`, `AbandonResult` | the selects after the unlock of `applyToolResult` |
| `CancelRoot` | the daemon's context ends |

Abstractions. An exec ID is random and drawn with a message ID, so it is
written as that message ID. Arguments and contents are left out: a result's
`body` says whether it decodes, is an error or is a Shell event that is not the
last. `finish` sets `done` under the lock and cancels after it; the two are one
step, as nothing looks at the context of a finished session in between except
selects that a later cancellation satisfies too. A message ID does not wrap.
Usage and heartbeats do not enter the log. `directHalfCloseTimeout` and the
content of HTTP error responses are left out.

`RunLog` is the abstract specification of what a client is promised: a log that
only grows and is closed once, of which each reader is given a prefix, and an
end envelope only after the whole closed log. `AgentSession` implements it
(`ImplementsRunLog`), with `cursor` as the readers' positions.

### SessionTable

The map of `agentHandler`. A session is named by the request that created it.
The clock is read before `handler.mu` is taken (`Arrive`, `Lookup`), and the
search for the oldest ended session looks at the sessions one by one while
others end, so `Evict` works on any set between those that had ended when the
search began (`scan`) and those that have ended now. What happens inside a
session is `AgentSession`; here a session is started and finished.

### ConversationRegistry

`registry.mu` guards `Acquire`, `AcquireExisting` (Snapshot) and `Release`; the
conversation's own mutex is taken (`Lock`) and freed (`Unlock`) outside of it.
A turn's name stands for its messages, so a history is a sequence of turns.

### SharedDaemon, DaemonLifecycle

The processes of one state directory: `pc[w]` is where a wrapper is in
`Manager.Ensure` and `startUnderLock`, `pc[s]` where a stop command is,
`phase[d]` where a daemon process is in `serve` and `RunService`. The lock is a
flock of an open file description: `lock` is the description that holds it,
`refs` who has it open. A background daemon has the description of the wrapper
that started it, so `Unlock` by either frees it and closing (`CloseFile`) frees
it only when nobody else has it. All processes may be killed at every step;
probes, waits and starts may time out; Save and Remove may fail.

Abstractions. Two versions. A PID stands for its process: reuse of PIDs is left
out. SIGKILL ends a process in one step. The idle exit, signals and server
errors are one action, `Cancel`. Errors of `close(2)` are left out.

`SharedDaemon` is the abstract promise: one daemon in service at a time, which
announces itself and is not withdrawn by others. `ImplementsSharedDaemon` maps
the living daemon process to `service` and the state file to `announced`.

### IdleMonitor, CertificateStore, DaemonService

`DaemonService` is the daemon process seen from the inside, one life after the
other: `main` is where `RunService` is, `drainer` the goroutine of
`server.Start` that waits for the context, `waiter` the idle monitor's `Wait`,
`handler[r]` and `conn[r]` a request and its connection. It composes two modules
that know nothing of each other, taken with `INSTANCE`: every action of the
process says which action of theirs it is.

| Actions | Code |
| --- | --- |
| `EnsureCertificates` (`Load`, `Generate`, `WriteFile`, `Sync`, `Validate`, `Fail`) | `certs.Manager.Ensure`, `loadAndValidate`, `generate`, `writeAtomic` |
| `Listen`, `SetupFails`, `Publish` | `server.Start`, the start of `RunService` |
| `ServeReturns`, `StartDraining`, `DrainerEnds`, `DrainerCloses`, `ServeFails` | the two goroutines of `server.Start` |
| `SelectServer`, `SelectIdle`, `SelectSignal`, `ShutDownDone`, `ShutDownLate`, `Collect`, `RemoveState`, `Exit` | the select of `RunService` and what follows, the end of `serve` |
| `MonitorIdle` (`Check`, `Wake`, `TimerFires`, `WaitCanceled`) | the loop of `IdleMonitor.Wait` |
| `BeginActivity`, `Serve`, `EndActivity`, `SignalEnd` | `IdleMonitor.Begin` and its end, counters under the mutex and signal after it, around a handler |
| `RequestShutdown`, `CancelRequested` | the handler of the Shutdown call and the goroutine it starts |
| `Signal`, `Crash`, `Damage`, `Age`, `Tick` | surroundings |

Abstractions. Time is counted in ticks, for the idle timeout only; every other
timeout may come at once. What a certificate file holds is told apart by the
run of `generate` it comes from, so that "signed by" and "matches" are equality.
A set expires with all the sets made before it, and between two lives of the
process (`Ensure` looks at the time once). `/healthz` holds no lease and changes
nothing. Of `net/http` the model has that `Shutdown` closes the listener, upon
which `Serve` returns at once, and waits for the connections in use, that
`Close` cuts them, and that an answer is sent as its handler returns. Power loss
is left out (`fsync` is), and `Touch`, which only tests call.

### ProviderStream

One provider pass: `Connect`, then the provider's events as lines on the wire
(`Say...`), cut or reset before any line or within one (`Cut`), read by
`readSSE` line by line (`CheckContext`, `ReadLine`, `ReadEOF`, `ReadError`), decoded (`ChatEvent`,
`ResponsesEvent`), gathered by `runProviderPass` (`Gather`, `PassOutcome`).
`fault` is set by every step of the provider or the connection after which a
failure is not the code's. Deltas are numbered, lines have a cost instead of a
length, arguments are valid when there are any. Token usage is left out.

Where the decoders differ the model does: an empty text is skipped in a chat
chunk and refused in a Responses event; any chat finish reason completes a
response with text; an error after `response.completed` still fails the pass.

### BoundedText, ShellOutput, ToolResults

`BoundedText` is text that is cut at a number of bytes: a sequence of runes of
one to four bytes, what `strings.ToValidUTF8` makes of bytes that are none, and
the longest prefix that fits. `ShellOutput` is one Shell call: `TakeDelta` and
`TakeTerminal` are `applyToolResult`'s Shell branch with
`FinalizeShellToolResult`; the progress event shows what is kept.
`AgentSession` has the same call as one entry among others and leaves its output
out. `said` is what the command wrote, for the properties. The Start event,
which only publishes itself, is left out.

`ToolResults` has the functions themselves: `SummarizeMcp` for
`summarizeMCPSuccess`, `List` and `Flatten` for `flattenListTree`, `Search` for
`parseGrepResult` and `appendGrepUnion`. The machine takes any message of the
instance and answers it, or lets `ShellOutput`, which it extends, take one of a
Shell call. A loop is a recursive function from the number of passes to what the
loop has by then. The recursion of a listing is one over levels: what a level
makes of every directory is a function of what the level below makes of it, and
a listing goes as many levels down as it asks for, where the code counts them
from 0 up to that depth. Each result is compared with what it would be without
bounds (`Said`, `Whole`, the concatenation of the unions). An MCP result that fills
its bytes exactly is marked as truncated although nothing is missing, and so is
a listing whose last directory ends at the bound; the properties say so. A
directory at the depth asked for is listed without its files and without a
mark, as the depth is the caller's choice.

### ProviderConfiguration

Config commands (`Begin`, `Finish`, `Abandon`), wrappers (`Launch`, `Ensure`,
`SyncCheck`, `SyncUpdate`, `Fail`, `Exit`) and turns (`TurnLoad`, `TurnKey`). A
key is known by the wrapper in whose environment it is and its variable. The
life of the daemon is `DaemonLifecycle`'s subject; here it is up or not, and
`generation` counts its lives. Model names and key sources are chosen when a
command begins, although the code asks for some after the load: nothing else
reads them before `Finish`. Validation keeps what relates models, the default
and key variables.

### MC modules

`MCSessionTable` declares the IDs, the run requests and the stream requests
interchangeable; `MCProviderConfiguration` gives each wrapper its environment,
`ToolMessages` defines the results of tools. `MCAgentTools` puts `ToolResults` beside `AgentSession`: converting a result reads nothing of the
session but its call, and the session nothing of the text, so a behaviour is one
of the session or one conversion. Symmetry is used for safety properties only.
The other configurations use the specifications directly, with model values.

## 3. Runs

| Run | Instance | Shows |
| --- | --- | --- |
| `AgentTools` | two run requests, one with MCP discovery; an Edit and a Shell, two passes, a text delta or a progress event, three result requests, no stream; the daemon may shut down at any point (1.38 million states). Beside them a Shell call of three deltas of up to two units on two streams (six bytes); MCP results of up to three items (two are looked at, six bytes); trees three levels deep (three entries, depth 1 to 3 or the default); searches of two workspaces and the active one (three results) (280,000 states) | `TypeOK`; `PendingIndexesAgree`: both indexes hold the same entries under current IDs; `ResultTravelsOnce`: a result is in one place, for the call asked for last; `TerminalHoldsNothing`: no pending call or discovery outlives the session; `LogIsWellFormed`: per-call order and a last `turnEnded`; liveness: `CanceledRunEnds`, wherever the runner is (publishing, in a pass, waiting for a result, a conversation or discovery); nothing is lost while a rune or an entry still fits, and the provider is told when something is: `ShellLossIsTold`, `McpLossIsTold`, `ListLossIsTold`, `SearchIsHead` |
| `AgentStreams` | two run requests, one with MCP discovery, a native stream with its upload and a RunSSE stream (234,000 states) | `OutcomeMatchesHistory`: reported as successful implies committed, as canceled implies not; `ImplementsRunLog`; liveness: `DiscoveryEnds`, `StreamSeesEnd`, `AbandonedRunEnds` |
| `AgentEditCancel` | one Edit | the violation of section 6 |
| `SessionTable` | three runs, one stream, three IDs, room for one, retention 2, clock to 3 (1.75 million states) | `UnfinishedIsRegistered`, `DroppedForAReason`; `TableIsBounded`: an overflow lasts no longer than to the first session created after enough have ended; `RetryRunsNothing`: a run starts in the session its ID leads to, and nothing that is retained ran under that ID before |
| `TerminalCap` | two runs, two IDs, room for one | the violation of section 6 |
| `Registry` | three turns, a snapshot, two IDs, room for one, two turns of history | `InUseIsRegistered`, `OverflowIsActive`, `TurnSeesHistory`, `CommittedTurnsStay`; liveness: `EveryCallerIsServed` |
| `Daemon` | a wrapper of each version, a stop command, two daemon processes (1.13 million states) | `HolderIsAlone`, `StoppedMeansStopped`, `ImplementsSharedDaemon`; liveness: `LockIsNotLeaked` |
| `DaemonUpgrade` | two wrappers of the newer version, one daemon | the violation of section 6 |
| `Service` | a request and a Shutdown call to each life of the process, a timeout of two ticks, two sets of certificates (536,000 states) | `CertificateIsTrusted`, `IdleExitCutsNothing`; liveness: `ServiceEnds`, `IdleServiceEnds` |
| `ProviderStream` | two calls of two fragments, two deltas of text or reasoning, two lines an event (1.72 million states) | `NoTruncatedSuccess`, `WholeCalls`, `ShownIsSaid`, `ConformingIsUnderstood`; liveness: `PassEnds` |
| `Configuration` | two editors, three commands, two wrappers with one shared variable, two lives of the daemon | `OwnKeyIsUsed`, `StopRevokesKeys` |
| `ConfigurationRace` | the editors alone | the violation of section 6 |

Why the bounds are enough. Each is the least at which the case a property is
about occurs, and the mutants in `PROJECT.json` show that it does: dropping the
guard or the step the property depends on is found with these very bounds.
Two calls in two passes let a late result meet another call, and the Edit
another phase of its own; three carriers allow a duplicate and a stranger at a
time. Two streams are what it takes to steal a wakeup and to be the last but
not the only one; two run requests compete for a start. A table with room for
one and three IDs overflows, evicts with two candidates and expires. A
registry with room for one and two IDs overflows and evicts, three turns queue
and fill a history of two. Two daemon processes and three clients allow a
start, a replacement and a stop at a time; a third daemon process would repeat
the roles of the first, which is gone by then. A timeout of two ticks can be
armed in full and for the rest; one request can be admitted by a daemon that
has decided to go while another, a Shutdown call, stops it; two sets of
certificates can be mixed on disk, by two lives of the process. Two indexes interleave, two
fragments and two deltas have an order, an event of at most two lines can fill the limit
exactly and exceed it. Three deltas leave a hole (most of the bound, one that is
cut, one that fits behind it). Trees are wider and deeper than the bounds of the
listing, and searches reach theirs within and across workspaces. Two lives of
the daemon and two wrappers let every key
come from oneself, another, or a past life.

`TypeOK` is an invariant of the runs of `AgentSession` and
`ProviderConfiguration`, where it says more than types (IDs below the counter,
valid configurations); elsewhere it is proved and in no run, and the two
modules of tool results, whose machines are a step or a few long, have none.

Deadlock checking is off where processes run once and end; in the others every
terminal state is such an end.

## 4. Fairness

- `AgentSession`: goroutines that can run do, timers fire, a select that stays
  ready is taken (the Go scheduler and runtime promise it). Of the surroundings
  it takes that the conversation is handed over, which `EveryCallerIsServed`
  shows of the registry if turns end, and that a provider stream ends once its
  context is done, which `PassEnds` shows of `ProviderStream`. Providers may
  otherwise stream for ever and clients owe nothing. `AgentTools` assumes only
  what a canceled run needs of this, that its runner is scheduled
  (`RunnerFairness`); nobody there has to bring a result.
- `ConversationRegistry`: callers that can run do, a free mutex is handed over
  (Go's mutex prevents starvation), turns end.
- `DaemonLifecycle`: processes that are not killed run, and waits end by their
  timeouts. Nobody is obliged to start, stop, cancel or crash anything.
- `DaemonService`: goroutines that can run do, timers fire and time passes.
  Handlers may run for ever: the drains of `server.Start` and of `RunService`
  have timeouts. Nobody has to boot a daemon, to connect or to answer; a handler
  that has its lease goes on to signal, and one that gave it back too.
- `ProviderStream`: only the runner's goroutine. The provider may fall silent
  for ever (the client sets no timeout) and `Connect` may not happen.
- The other specifications check safety only and assume none.

## 5. Proofs

TLAPS proves the following for all values of the constants that satisfy the
named assumptions (`SessionAssumption`, `TableAssumption`,
`RegistryAssumption`, `DaemonAssumption`, `ServiceAssumption`,
`StreamAssumption`, `ConfigurationAssumption`, `OutputAssumption`,
`ResultsAssumption`), which TLC also evaluates in the runs. Every proof has the
same form: an inductive invariant `IInv`, `Init => IInv`, `IInv /\ [Next]_vars
=> IInv'` with one step per action, and the property from it.

- **`AgentSessionProofs`**: `TypeCorrect`, `IndexesAgree`,
  `TerminalSessionsAreEmpty`, `ResultsTravelOnce`, `OutcomesMatchHistory`,
  `LogsAreWellFormed`, `SubscribersAreCounted`, `SessionImplementsLog`,
  `DiscoveriesAnsweredOnce`, `AbandonedRunsAreCanceled`. `IInv` is `TypeOK` with
  three parts: `QueueOK` (while a call is opened or waited for there is one in
  the queue), `ToolsInv` (the three tool properties, which are inductive only
  together: that nothing else is on its way is what makes a new entry the only
  one) and `TurnInv` (the turn is committed exactly when the runner is past its
  commit, and "ok" and "canceled" are only set by its last step). The
  refinement rests on `ReadersInv`, that a stream's position, its snapshot and
  the log never overtake each other and a snapshot taken as final is the whole
  of a closed log, and on `NextGrows`, that no step shortens or rewrites the
  log. That the log is well formed is about its whole content: `LogInv` says how
  often each event of a call is in it, for every state a call can be in (not yet
  asked for, pending, answered and on its way, completed, given up), and that
  `turnEnded` is last; it follows what a single append does to these counts.
  Discovery needs `CarryInv`, that a request carries either a tool's result or
  the answer to discovery and only while it is sending, and `AskInv`, that the
  one request is made when no answer to another can be around and is gone only
  because it was answered or because the run's context is done (`ContextStays`).
  That an abandoned run is canceled needs that a stream which was given an event
  serves a run (`WrittenByRun`, `ReadersInv`).
- **`SessionTableProofs`**: `TypeCorrect`, `UnfinishedSessionsStay`,
  `SessionsAreRetained`, `TableStaysBounded`, `RetriesRunNothing`. `TableInv`: an entry was created, under the ID it is
  found by. `RequestInv`: a clock that was read is not ahead, and a request that
  looks for room holds `handler.mu` while its ID leads nowhere, so that what it
  creates hides nothing. The bound is not inductive: `BoundInv` adds that, while
  a request looks for room, whatever the table holds had ended when the current
  round began, or had not when the first one did (`busy`); so when a round finds
  nothing to evict, all that is left is of the second kind. For a retry,
  `StartedInv`: what a request is about to start, and what was started, was
  created; so its ID leads to it until it has ended (`UnfinishedSessionsStay`),
  and to nothing else.
- **`ConversationRegistryProofs`**: `TypeCorrect`,
  `NoConversationInUseIsEvicted`, `OverflowOnlyWhileActive`,
  `TurnsAreSerialized`, `CommitsAreKept`, `HoldersUnlock`. `ActiveCounts`: the active count of a conversation is
  the number of its callers, by the library's cardinality theorems;
  `HolderHolds`: who is past `Lock` holds the conversation's mutex. An action
  property, `CommitsAreKept`, follows from the same invariant, as `TurnSeesHistory`
  makes the history a turn is added to the one its provider was shown; what is
  left to show is about `AppendTurn`, that it cuts at the old end only, and no
  more than it must (`IsEndOf`).
- **`DaemonLifecycleProofs`**: `TypeCorrect`, `OneDaemon`, `HoldersAreAlone`,
  `ReadyIsFound`, `StopTellsTheTruth`, `Implements`. The heart is `LockInv`: the
  description with the lock is a living daemon's own or that of the wrapper
  which started it, and the daemon has it open. `ClientInv` says that whoever
  changes something holds the lock and that a wrapper about to unlock has no
  living child; `StateInv` that a state file names a daemon that got as far as
  to publish; `FileInv` that a daemon has no other description open.
- **`DaemonServiceProofs`**: `TypeCorrect`, `CertificatesMatch`,
  `IdleWithoutLease`, `IdleExitIsGraceful`, `NoSignalIsLost`. `LeasesCounted`: the monitor's
  counter is the number of handlers between `Begin` and its end, by the
  library's cardinality theorems; so the monitor, which decides under the mutex
  of the counter, never decides under a lease. `FilesInv`: the files written so
  far by a run of `generate` are of that run, and those of a running server are
  all of one accepted run. `StopInv`: a process that is about to end has
  drained, or has failed, was told to stop, or ran into a timeout.
- **`ProviderStreamProofs`**: `TypeCorrect`, `NoResponseTruncated`,
  `CallsAreWhole`, `ShownIsPrefix`, `ConformingUnderstood`. `PassInvariant` is
  their common invariant. It relates what the runner read to what the provider
  said through the one event that can be between them: its lines are on the wire
  or held by the reader (`Carried`), and what was said before it is what the
  runner has (`Settled`), what was said with it is what the runner will have
  (`SaidBy`). The other case is an event cut off by a fault, of which what is
  left is no payload (`BrokenOff`). `ConnInv` and `EndInv` say which of the two
  a closed, broken or exhausted connection leaves, so that a pass which ends
  well was told so by the provider.
- **`ProviderConfigurationProofs`**: `TypeCorrect`, `OwnKeys`,
  `KeysDieWithTheDaemon`. `OverrideInv`: every override of the daemon that is
  up was synchronized in this generation; `HandedInv`: the variable of a running
  wrapper of this generation has an override, whosever; `CheckedInv` and
  `LifeInv`: a request past its check is of this wrapper, variable and
  generation.

- **`ToolResultsProofs`**: `ShellLossIsAlwaysTold`, `McpLossIsAlwaysTold`,
  `ListLossIsAlwaysTold`, `SearchIsAlwaysHead`, from `OutputAssumption` and
  `ResultsAssumption`. The machine is simple and its invariant (`ResultsInv`,
  `ShellInv`) says no more than that an answer is what the function makes of the
  message, and how what is kept of a stream relates to all of it (`Keeps`). The
  work is in what the functions compute, which is proved by induction over data.
  The library's induction theorems take an operator as a parameter, which no
  installed prover can instantiate; so induction is over a set of naturals
  instead, from the well-foundedness of `<` (`SetInduction`,
  `IntervalInduction`), and `LoopRuns` shows once that a loop's recursive
  function exists. On these rest, in the order of the module: the bytes of a
  text and its longest prefix that fits (`BytesSums`, `FitIs`); `Keeps`, that
  all is kept or everything up to the last rune's width of the bound, which
  later deltas preserve (`KeepsMore`, `KeepsWhenFull`); the loop over workspaces
  (`UnionKeepsHeads`: bounding at every step gives the bound of the whole); the
  sections of an MCP result against the concatenation of all texts
  (`SummaryOf`, `SummaryGrows`); and the listing, whose loops over files and
  directories keep that the entries are the beginning of what would be listed
  so far, so that one level more is right if the level below is (`LevelIs`,
  `LevelLists`, `LevelsList`).

Some theorems are about definitions no run lists. `OneDaemon` (`SingleService`)
and `ReadyIsFound` (`ReadyIsPublished`) are contained in
`ImplementsSharedDaemon`. The others are what liveness properties rest on, the
part of them that is safety and so in reach of the prover:

| Liveness, model-checked | rests on, proved |
| --- | --- |
| `DiscoveryEnds` | `DiscoveryAnsweredOnce`: a runner whose timer found its request taken has an answer under way, or its run is canceled |
| `AbandonedRunEnds` | `SubscribersCounted`: a count that is too high keeps an abandoned run alive; `AbandonedRunIsCanceled`: the last stream leaves a run canceled, or about to be |
| `EveryCallerIsServed` | `MutexIsNotLeaked`: who waits for a conversation waits for a caller that is about to unlock it |
| `IdleServiceEnds` | `MonitorIsWoken`: the monitor waits for a lease to end only while one is out or a wakeup is under way |

What fairness adds, that each of these steps is taken in the end, is left to TLC.

Only model-checked: all liveness properties (the prover does not handle
fairness or `ENABLED`).

## 6. Disagreements between code and documentation

- `AgentEditCancel` (`NoEditWriteAfterCancellation`): between the cancellation
  of a run and its runner's `finish`, an Edit's Read result still dispatches
  the Write (`server/agent.go` 883, 976-998); `docs/compatibility.md:148` says
  it does not.
- `DaemonUpgrade` (`UpgradeIsNotRefused`): of two newer wrappers that replace
  the same daemon the slower fails when the server is closed already
  (`daemon/manager.go:67`); `docs/getting-started.md:135` promises the
  replacement.
- `TerminalCap` (`TerminalSessionsAreCapped`): room is made only for a session
  that is created, and only by sessions that have ended
  (`server/agent.go:523`), so a table that went over its cap with active runs
  keeps them all when they end, until the next new session or their expiry;
  `docs/protocol.md:48-49` says that ended sessions are capped. That the next
  new session does bring the table back is `TableIsBounded`.
- `ConfigurationRace` (`InitReplacesNothing`): `config init` replaces a file
  that appeared during its prompts (`command/config.go:244`);
  `docs/configuration.md:135` says that it refuses.

Known and allowed by the models, without a document that says otherwise: the
start timer of a stream can end a run that was appended in that very moment
(`StartTimeout`); a search for the oldest ended session can miss one that ends
meanwhile; an upload error after the commit reports a failure of a turn that
stays in the history; an unstarted session that its stream left before the timeout
stays in the table; `config add`, `use` and `remove` can lose each other's changes.

Of a daemon that is told to stop by a Shutdown call: the call's goroutine cancels
the service context, the drain goroutine of `server.Start` closes the listener,
`Serve` returns, and the select of `RunService` may take that result
(`daemon/service.go` 167-172) before any drain is over. The process then exits
under requests that are still served, the Shutdown call's own answer included.
`docs/protocol.md:63` calls it a graceful cancellation of the daemon and promises
nothing about requests, and `Manager.Ensure` and `stop` go on when the health
check fails, so it is no disagreement; but it is why `IdleExitCutsNothing` leaves
out daemons that were told to stop.

Of the output of a Shell call: when a delta is cut on a rune boundary fewer bytes
than the bound are used, so a later, smaller delta is still accepted and what is
kept has a hole before it. The result is marked as truncated.

## 7. Not modelled, and why

Encoding and decoding of messages beyond the bounded results, request bodies and
schemas (pure, covered by golden tests); TLS, tokens and HTTP plumbing; prompts, output, discovery and
launching of the CLI (sequential, over strings and processes); file modes and
fsync; the compatibility handler's other RPCs, status and doctor (read only);
token usage (sums shown to the user); test harness and scripts.

Some hazards have no property, on purpose; the list in `PROJECT.json` says why
at each. The start timer of a stream ends a run appended at that moment
(`server/agent.go:459`), sessions nobody starts are not bounded (515), and a
daemon may take its idle exit between `Ensure` and the CLI's first request
(`command/agent.go:70`): the code lets each happen, the models allow it, and no
document says otherwise.

## 8. Plan

Written, in this order: `RunLog` and `AgentSession` with proofs (the heart of
the daemon), `SessionTable`, `ConversationRegistry`, `DaemonLifecycle` with
`SharedDaemon`, `ProviderStream`, `ProviderConfiguration`.

Then, in this order: `IdleMonitor`, `CertificateStore` and their composition
`DaemonService` with proofs; `LogIsWellFormed` and `TableIsBounded` as theorems;
the proofs about `ProviderStream`; `BoundedText` with `ShellOutput` and
`ToolResults`; `CommitsAreKept`; the proofs about `ToolResults`.

Then `RetryRunsNothing` and what four liveness properties rest on, as theorems.

Left: how a daemon that is stopped ends its sessions (`DaemonService` with
`AgentSession`, through the root context), and a wrapper that goes on with a
daemon which takes its idle exit meanwhile (`command/agent.go:70`), which no
property covers yet.
