---------------------------- MODULE AgentSession ----------------------------
(***************************************************************************)
(* One agentSession of internal/server/agent.go and every goroutine that   *)
(* touches it:                                                             *)
(*   - handler.execute with the agent runner inside it (MCP discovery,     *)
(*     provider passes, one tool call after the other, commit, finish);    *)
(*   - the response streams (native Run and legacy RunSSE), each a loop of *)
(*     snapshot, write, wait;                                              *)
(*   - the upload side of each native Run stream, and detached Run         *)
(*     requests, which bring tool results;                                 *)
(*   - BidiAppend, which starts the run without streaming it.              *)
(* A step is one critical section of session.mu, or one select.            *)
(***************************************************************************)
EXTENDS Naturals, Sequences, FiniteSets

CONSTANTS
  Runs,             \* run requests a client may send under this request ID
  DiscoveringRuns,  \* those that ask for MCP tools without listing any
  Calls,            \* tool call IDs the provider may use
  ReadCalls, EditCalls, ShellCalls,  \* the tools with a handling of their own
  Streams,          \* HTTP requests that stream the session
  DirectStreams,    \* those that are native Run calls (the others: RunSSE)
  Detached,         \* Run calls whose first envelope is a tool result
  MaxPasses,        \* provider passes of one turn (16 in the code)
  MaxCallsPerPass,  \* bound on the tool calls the provider asks for at once
  MaxChatter,       \* bound on text deltas and Shell progress events
  None

ASSUME SessionAssumption ==
  /\ DiscoveringRuns \subseteq Runs
  /\ DirectStreams \subseteq Streams /\ IsFiniteSet(Streams)
  /\ ReadCalls \subseteq Calls /\ EditCalls \subseteq Calls /\ ShellCalls \subseteq Calls
  /\ Streams \cap Detached = {}
  /\ None \notin Runs \cup Calls
  /\ MaxPasses \in Nat \ {0} /\ MaxCallsPerPass \in Nat

VARIABLES
  (* agentSession *)
  run,        \* the run it was started with, or None
  outcome,    \* "open" until finish, then how it ended
  canceled,   \* the session's own context is canceled
  rootDone,   \* the daemon's root context, parent of the session's, is done
  events,     \* the replay log
  notify,     \* the wakeup channel (capacity 1) holds a token
  subscribers,
  lastID,     \* the handler's message ID allocator
  pendingByMessage, pendingByExec,  \* sets of <<transport ID, call>>
  transport,  \* current message ID (and exec ID) of each opened call
  editPhase,
  discovery,  \* message ID of the pending MCP state request, 0 if none
  (* handler.execute and the runner *)
  pc, passes, queue, delivered, failure, committed,
  results,    \* result channels (capacity 1) that hold a result
  mcpResult,  \* content of the MCP result channel
  (* streamSession *)
  phase, cursor, seen, seenDone, armed,
  (* whoever carries tool results to the session *)
  sender, held, sending, answering

contextVars == <<canceled, rootDone>>
logVars == <<events, notify>>
toolVars == <<pendingByMessage, pendingByExec, transport, editPhase>>
sessionVars == <<run, outcome, contextVars, logVars, subscribers, lastID, toolVars, discovery>>
turnVars == <<passes, queue, delivered, committed, results>>
runnerVars == <<pc, failure, turnVars, mcpResult>>
streamVars == <<phase, cursor, seen, seenDone, armed>>
senderVars == <<sender, held, sending, answering>>
vars == <<sessionVars, runnerVars, streamVars, senderVars>>

(* Whoever brings tool results: an upload, or a request of its own. *)
Senders == DirectStreams \cup Detached

(* An exec ID is random and drawn together with a message ID: it is written  *)
(* as that message ID. 0 stands for an identity field left out.              *)
NoMessage == [id |-> 0, exec |-> 0, body |-> "bad"]
Bodies == {"ok", "error", "partial", "bad"}
Messages == [id : 0..lastID, exec : 0..lastID, body : Bodies]

Event(kind, call, id) == [kind |-> kind, call |-> call, id |-> id]
EventKinds == {"text", "mcpState", "exec", "started", "progress", "completed", "turnEnded"}
Events == [kind : EventKinds, call : Calls \cup {None}, id : Nat]

done == outcome # "open"
ctxDone == run # None /\ (canceled \/ rootDone)

IsChatter(e) == e.kind \in {"text", "progress"}
RoomForChatter == Len(SelectSeq(events, IsChatter)) < MaxChatter

TypeOK ==
  /\ run \in Runs \cup {None}
  /\ outcome \in {"open", "ok", "canceled", "failed", "invalid", "notAppended"}
  /\ canceled \in BOOLEAN /\ rootDone \in BOOLEAN /\ notify \in BOOLEAN
  /\ events \in Seq(Events)
  /\ subscribers \in Nat /\ lastID \in Nat /\ discovery \in 0..lastID
  /\ pendingByMessage \subseteq (1..lastID) \X Calls
  /\ pendingByExec \subseteq (1..lastID) \X Calls
  /\ transport \in [Calls -> 0..lastID]
  /\ editPhase \in [Calls -> {"none", "read", "write"}]
  /\ pc \in {"idle", "enrich", "discover", "discoverLate", "precheck", "acquire", "pass",
             "call", "wait", "commit", "ended", "fail", "exit"}
  /\ passes \in Nat
  /\ queue \in Seq(Calls)
  /\ delivered \subseteq Calls
  /\ failure \in {"none", "canceled", "failed"}
  /\ committed \in BOOLEAN
  /\ results \subseteq Calls
  /\ mcpResult \in {"empty", "ok", "error"}
  /\ phase \in [Streams -> {"idle", "joining", "top", "write", "select", "ended", "dropped",
                            "cancel", "finished", "closed"}]
  /\ cursor \in [Streams -> Nat] /\ seen \in [Streams -> Nat]
  /\ seenDone \in [Streams -> BOOLEAN] /\ armed \in [Streams -> BOOLEAN]
  /\ sender \in [Senders -> {"off", "reading", "matched", "sending", "rejected"}]
  /\ held \in [Senders -> [id : Nat, exec : Nat, body : Bodies]]
  /\ sending \in [Senders -> Calls \cup {None}]
  /\ answering \in [Senders -> {"empty", "ok", "error"}]

Init ==
  /\ run = None /\ outcome = "open" /\ canceled = FALSE /\ rootDone = FALSE
  /\ events = <<>> /\ notify = FALSE /\ subscribers = 0 /\ lastID = 0
  /\ pendingByMessage = {} /\ pendingByExec = {} /\ discovery = 0
  /\ transport = [c \in Calls |-> 0] /\ editPhase = [c \in Calls |-> "none"]
  /\ pc = "idle" /\ passes = 0 /\ queue = <<>> /\ delivered = {}
  /\ failure = "none" /\ committed = FALSE /\ results = {} /\ mcpResult = "empty"
  /\ phase = [s \in Streams |-> "idle"] /\ cursor = [s \in Streams |-> 0]
  /\ seen = [s \in Streams |-> 0] /\ seenDone = [s \in Streams |-> FALSE]
  /\ armed = [s \in Streams |-> FALSE]
  /\ sender = [q \in Senders |-> IF q \in Detached THEN "reading" ELSE "off"]
  /\ held = [q \in Senders |-> NoMessage]
  /\ sending = [q \in Senders |-> None]
  /\ answering = [q \in Senders |-> "empty"]

-----------------------------------------------------------------------------
(* start, finish and the log *)

(* agentSession.start for a session not started yet, and the goroutine it   *)
(* is followed by. Any other start changes nothing: the same run is told to *)
(* go on, a different run or a terminal session is refused.                 *)
Start(r) ==
  /\ run = None /\ ~done
  /\ run' = r
  /\ notify' = TRUE
  /\ pc' = "enrich"
  /\ UNCHANGED <<outcome, contextVars, events, subscribers, lastID, toolVars, discovery>>
  /\ UNCHANGED <<failure, turnVars, mcpResult>>

(* Mutant: one of the two indexes is not emptied. *)
Finish_KeepsExec(code, last) ==
  \/ done /\ UNCHANGED sessionVars
  \/ /\ ~done
     /\ outcome' = code
     /\ events' = events \o last
     /\ pendingByMessage' = {} /\ discovery' = 0
     /\ notify' = TRUE
     /\ canceled' = (run # None)
     /\ UNCHANGED <<run, rootDone, subscribers, lastID, transport, editPhase, pendingByExec>>

(* agentSession.finish: only the first call has an effect. *)
Finish(code, last) ==
  \/ done /\ UNCHANGED sessionVars
  \/ /\ ~done
     /\ outcome' = code
     /\ events' = events \o last
     /\ pendingByMessage' = {} /\ pendingByExec' = {} /\ discovery' = 0
     /\ notify' = TRUE
     /\ canceled' = (run # None)
     /\ UNCHANGED <<run, rootDone, subscribers, lastID, transport, editPhase>>

(* Appending to the log under the lock; always followed by signalLocked. *)
AppendToLog(new) == events' = events \o new /\ notify' = TRUE

(* serveBidiAppend *)
BidiAppend(r) == Start(r) /\ UNCHANGED <<streamVars, senderVars>>

(* The daemon shuts down: the parent of every session context is canceled. *)
CancelRoot ==
  /\ ~rootDone /\ rootDone' = TRUE
  /\ UNCHANGED <<run, outcome, canceled, logVars, subscribers, lastID, toolVars, discovery>>
  /\ UNCHANGED <<runnerVars, streamVars, senderVars>>

-----------------------------------------------------------------------------
(* handler.execute: MCP discovery (enrichRunWithMCP) *)

Fail(how) == pc' = "fail" /\ failure' = how
Goto(label) == pc' = label /\ UNCHANGED failure

(* Asks the client for its MCP tools, if the run wants some and lists none. *)
Enrich ==
  /\ pc = "enrich"
  /\ \/ /\ run \notin DiscoveringRuns
        /\ Goto("precheck")
        /\ UNCHANGED sessionVars
     \/ /\ run \in DiscoveringRuns /\ done
        /\ Fail("failed")
        /\ UNCHANGED sessionVars
     \/ /\ run \in DiscoveringRuns /\ ~done
        /\ lastID' = lastID + 1
        /\ discovery' = lastID'
        /\ AppendToLog(<<Event("mcpState", None, lastID')>>)
        /\ Goto("discover")
        /\ UNCHANGED <<run, outcome, contextVars, subscribers, toolVars>>
  /\ UNCHANGED <<turnVars, mcpResult>>

ReceiveMcpState ==
  /\ pc \in {"discover", "discoverLate"} /\ mcpResult # "empty"
  /\ mcpResult' = "empty"
  /\ IF mcpResult = "ok" THEN Goto("precheck") ELSE Fail("failed")
  /\ UNCHANGED <<sessionVars, turnVars>>

(* Mutant: after the timer, only a result is waited for. *)
DiscoveryCanceled_Early ==
  /\ pc = "discover" /\ ctxDone
  /\ discovery' = 0
  /\ Fail("canceled")
  /\ UNCHANGED <<run, outcome, contextVars, logVars, subscribers, lastID, toolVars>>
  /\ UNCHANGED <<turnVars, mcpResult>>

DiscoveryCanceled ==
  /\ pc \in {"discover", "discoverLate"} /\ ctxDone
  /\ discovery' = IF pc = "discover" THEN 0 ELSE discovery
  /\ Fail("canceled")
  /\ UNCHANGED <<run, outcome, contextVars, logVars, subscribers, lastID, toolVars>>
  /\ UNCHANGED <<turnVars, mcpResult>>

(* The timer fires. If the pending request is gone, a result is on its way  *)
(* or the session is being finished: wait for either.                       *)
DiscoveryTimeout ==
  /\ pc = "discover"
  /\ IF discovery # 0 THEN Fail("failed") ELSE Goto("discoverLate")
  /\ discovery' = 0
  /\ UNCHANGED <<run, outcome, contextVars, logVars, subscribers, lastID, toolVars>>
  /\ UNCHANGED <<turnVars, mcpResult>>

-----------------------------------------------------------------------------
(* handler.execute: Runner.Execute and what it emits *)

CallLists == UNION {[1..n -> Calls] : n \in 1..MaxCallsPerPass}

(* The checks of Execute before it queues for the conversation. *)
Precheck ==
  /\ pc = "precheck"
  /\ \/ ctxDone /\ Fail("canceled")
     \/ ~ctxDone /\ Goto("acquire")
     \/ ~ctxDone /\ Fail("failed")
  /\ UNCHANGED <<sessionVars, turnVars, mcpResult>>

(* The conversation's mutex is granted; then the context, the tool list and *)
(* the model are checked.                                                   *)
AcquireConversation ==
  /\ pc = "acquire"
  /\ \/ ctxDone /\ Fail("canceled")
     \/ ~ctxDone /\ Goto("pass")
     \/ ~ctxDone /\ Fail("failed")
  /\ UNCHANGED <<sessionVars, turnVars, mcpResult>>

(* A text or reasoning delta of the provider goes through publish. *)
PublishDelta ==
  /\ pc = "pass" /\ RoomForChatter
  /\ \/ done /\ Fail("failed") /\ UNCHANGED sessionVars
     \/ ~done /\ ctxDone /\ Fail("canceled") /\ UNCHANGED sessionVars
     \/ /\ ~done /\ ~ctxDone
        /\ AppendToLog(<<Event("text", None, 0)>>)
        /\ Goto("pass")
        /\ UNCHANGED <<run, outcome, contextVars, subscribers, lastID, toolVars, discovery>>
  /\ UNCHANGED <<turnVars, mcpResult>>

(* The provider's stream ends: with tool calls, with an answer, or failing. *)
EndPass ==
  /\ pc = "pass"
  /\ \/ \E calls \in CallLists : queue' = calls /\ Goto("call")
     \/ Goto("commit") /\ UNCHANGED queue
     \/ Fail("failed") /\ UNCHANGED queue
     \/ ctxDone /\ Fail("canceled") /\ UNCHANGED queue
  /\ UNCHANGED <<sessionVars, passes, delivered, committed, results, mcpResult>>

(* Mutant: the context is looked at once more, after the commit. *)
CommitTurn_ThenCancel ==
  /\ pc = "commit"
  /\ committed' = TRUE
  /\ IF ctxDone THEN Fail("canceled") ELSE Goto("ended")
  /\ UNCHANGED <<sessionVars, passes, queue, delivered, results, mcpResult>>

(* The turn enters the history; the usage event changes nothing here. *)
CommitTurn ==
  /\ pc = "commit"
  /\ committed' = TRUE
  /\ Goto("ended")
  /\ UNCHANGED <<sessionVars, passes, queue, delivered, results, mcpResult>>

(* The tool was not offered, its call ID is a repetition, or openTool       *)
(* refuses its arguments (an ID may be drawn already) or a terminal session. *)
RefuseTool ==
  /\ pc = "call"
  /\ lastID' \in {lastID, lastID + 1}
  /\ Fail("failed")
  /\ UNCHANGED <<run, outcome, contextVars, logVars, subscribers, toolVars, discovery>>
  /\ UNCHANGED <<turnVars, mcpResult>>

(* The critical section of openTool, after the checks. *)
InsertPending(call, id) ==
  /\ delivered' = delivered \cup {call}
  /\ lastID' = lastID + 1
  /\ transport' = [transport EXCEPT ![call] = id]
  /\ editPhase' = [editPhase EXCEPT ![call] = IF call \in EditCalls THEN "read" ELSE "none"]
  /\ pendingByMessage' = pendingByMessage \cup {<<id, call>>}
  /\ pendingByExec' = pendingByExec \cup {<<id, call>>}
  /\ AppendToLog(<<Event("exec", call, id), Event("started", call, 0)>>)
  /\ Goto("wait")
  /\ UNCHANGED <<run, outcome, contextVars, subscribers, discovery>>
  /\ UNCHANGED <<passes, queue, committed, results, mcpResult>>

(* Mutants: a repeated call ID, an ID not drawn. *)
OpenTool_Repeated == pc = "call" /\ ~done /\ InsertPending(Head(queue), lastID + 1)
OpenTool_NextID ==
  pc = "call" /\ Head(queue) \notin delivered /\ ~done /\ InsertPending(Head(queue), lastID + 2)

OpenTool ==
  /\ pc = "call" /\ Head(queue) \notin delivered /\ ~done
  /\ InsertPending(Head(queue), lastID + 1)

(* The runner has the result: next call, next pass, or one pass too many. *)
ReceiveResult ==
  /\ pc = "wait" /\ Head(queue) \in results
  /\ results' = results \ {Head(queue)}
  /\ queue' = Tail(queue)
  /\ \/ Len(queue) > 1 /\ Goto("call") /\ UNCHANGED passes
     \/ Len(queue) = 1 /\ passes + 1 < MaxPasses /\ Goto("pass") /\ passes' = passes + 1
     \/ Len(queue) = 1 /\ passes + 1 = MaxPasses /\ Fail("failed") /\ UNCHANGED passes
  /\ UNCHANGED <<sessionVars, delivered, committed, mcpResult>>

(* Mutant: a wait that heeds the session's own cancel function only. *)
StopWaiting_OwnContext ==
  /\ pc = "wait" /\ canceled
  /\ Fail("canceled")
  /\ UNCHANGED <<sessionVars, turnVars, mcpResult>>

StopWaiting ==
  /\ pc = "wait" /\ ctxDone
  /\ Fail("canceled")
  /\ UNCHANGED <<sessionVars, turnVars, mcpResult>>

FinishTurn ==
  /\ pc = "ended"
  /\ Finish("ok", <<Event("turnEnded", None, 0)>>)
  /\ Goto("exit")
  /\ UNCHANGED <<turnVars, mcpResult>>

FinishFailure ==
  /\ pc = "fail"
  /\ Finish(IF failure = "canceled" /\ ctxDone THEN "canceled" ELSE "failed", <<>>)
  /\ Goto("exit")
  /\ UNCHANGED <<turnVars, mcpResult>>

Proceed ==
  \/ Enrich \/ ReceiveMcpState \/ DiscoveryCanceled \/ DiscoveryTimeout
  \/ Precheck \/ AcquireConversation \/ CommitTurn \/ RefuseTool \/ OpenTool
  \/ ReceiveResult \/ StopWaiting \/ FinishTurn \/ FinishFailure

Execute == Proceed \/ PublishDelta \/ EndPass

-----------------------------------------------------------------------------
(* streamSession *)

Subscribed(s) == phase[s] \in {"top", "write", "select", "ended", "dropped"}

(* serveDirectRun up to streamSession: the run is started, found going on   *)
(* (a reconnect), or refused; then its upload is read concurrently.         *)
OpenDirectRun(s, r) ==
  /\ phase[s] = "idle"
  /\ \/ /\ Start(r)
        /\ phase' = [phase EXCEPT ![s] = "joining"]
        /\ sender' = [sender EXCEPT ![s] = "reading"]
     \/ /\ run = r
        /\ phase' = [phase EXCEPT ![s] = "joining"]
        /\ sender' = [sender EXCEPT ![s] = "reading"]
        /\ UNCHANGED <<sessionVars, runnerVars>>
     \/ /\ run \notin {None, r} \/ (run = None /\ done)
        /\ phase' = [phase EXCEPT ![s] = "closed"]
        /\ UNCHANGED <<sessionVars, runnerVars, sender>>
  /\ UNCHANGED <<cursor, seen, seenDone, armed, held, sending, answering>>

Subscribe(s) ==
  /\ phase[s] = IF s \in DirectStreams THEN "joining" ELSE "idle"
  /\ subscribers' = subscribers + 1
  /\ phase' = [phase EXCEPT ![s] = "top"]
  /\ armed' = [armed EXCEPT ![s] = TRUE]
  /\ UNCHANGED <<run, outcome, contextVars, logVars, lastID, toolVars, discovery>>
  /\ UNCHANGED <<runnerVars, cursor, seen, seenDone, senderVars>>

Snapshot(s) ==
  /\ phase[s] = "top"
  /\ seen' = [seen EXCEPT ![s] = Len(events)]
  /\ seenDone' = [seenDone EXCEPT ![s] = done]
  /\ armed' = [armed EXCEPT ![s] = @ /\ run = None]
  /\ phase' = [phase EXCEPT ![s] = "write"]
  /\ UNCHANGED <<sessionVars, runnerVars, cursor, senderVars>>

(* Mutant: the end envelope follows the session's present state. *)
WriteSnapshot_LateDone(s) ==
  /\ phase[s] = "write"
  /\ cursor' = [cursor EXCEPT ![s] = seen[s]]
  /\ phase' = [phase EXCEPT ![s] = IF done THEN "ended" ELSE "select"]
  /\ UNCHANGED <<sessionVars, runnerVars, seen, seenDone, armed, senderVars>>

(* The events of the snapshot, then the end envelope if it was terminal. *)
WriteSnapshot(s) ==
  /\ phase[s] = "write"
  /\ cursor' = [cursor EXCEPT ![s] = seen[s]]
  /\ phase' = [phase EXCEPT ![s] = IF seenDone[s] THEN "ended" ELSE "select"]
  /\ UNCHANGED <<sessionVars, runnerVars, seen, seenDone, armed, senderVars>>

(* The select: a wakeup (taken from whoever else waits for it), a heartbeat, *)
(* the start timer, or the end of the request or of the daemon.             *)
Wake(s) ==
  /\ phase[s] = "select" /\ notify
  /\ notify' = FALSE
  /\ phase' = [phase EXCEPT ![s] = "top"]
  /\ UNCHANGED <<run, outcome, contextVars, events, subscribers, lastID, toolVars, discovery>>
  /\ UNCHANGED <<runnerVars, cursor, seen, seenDone, armed, senderVars>>

(* Mutant: a heartbeat only writes, without a new snapshot. *)
Heartbeat_OnlyWrites(s) == phase[s] = "select" /\ UNCHANGED vars

Heartbeat(s) ==
  /\ phase[s] = "select"
  /\ phase' = [phase EXCEPT ![s] = "top"]
  /\ UNCHANGED <<sessionVars, runnerVars, cursor, seen, seenDone, armed, senderVars>>

StartTimeout(s) ==
  /\ phase[s] = "select" /\ armed[s]
  /\ Finish("notAppended", <<>>)
  /\ armed' = [armed EXCEPT ![s] = FALSE]
  /\ phase' = [phase EXCEPT ![s] = "top"]
  /\ UNCHANGED <<runnerVars, cursor, seen, seenDone, senderVars>>

(* The client goes away (seen when waiting or by a write, part of the       *)
(* snapshot delivered), or the daemon does (seen when waiting).             *)
DropStream(s) ==
  /\ \/ phase[s] = "select" /\ UNCHANGED cursor
     \/ /\ phase[s] = "write"
        /\ \E n \in cursor[s]..seen[s] : cursor' = [cursor EXCEPT ![s] = n]
  /\ phase' = [phase EXCEPT ![s] = "dropped"]
  /\ UNCHANGED <<sessionVars, runnerVars, seen, seenDone, armed, senderVars>>

(* Mutant: nobody cancels. *)
Unsubscribe_NoCancel(s) ==
  /\ phase[s] \in {"ended", "dropped"}
  /\ subscribers' = subscribers - 1
  /\ phase' = [phase EXCEPT ![s] = IF @ = "ended" THEN "finished" ELSE "closed"]
  /\ UNCHANGED <<run, outcome, contextVars, logVars, lastID, toolVars, discovery>>
  /\ UNCHANGED <<runnerVars, cursor, seen, seenDone, armed, senderVars>>

(* unsubscribe decides under the lock and cancels after it. *)
Unsubscribe(s) ==
  /\ phase[s] \in {"ended", "dropped"}
  /\ subscribers' = IF subscribers > 0 THEN subscribers - 1 ELSE 0
  /\ phase' = [phase EXCEPT ![s] =
                 IF subscribers' = 0 /\ run # None /\ ~done THEN "cancel"
                 ELSE IF @ = "ended" THEN "finished" ELSE "closed"]
  /\ UNCHANGED <<run, outcome, contextVars, logVars, lastID, toolVars, discovery>>
  /\ UNCHANGED <<runnerVars, cursor, seen, seenDone, armed, senderVars>>

CancelRun(s) ==
  /\ phase[s] = "cancel"
  /\ canceled' = TRUE
  /\ phase' = [phase EXCEPT ![s] = "closed"]
  /\ UNCHANGED <<run, outcome, rootDone, logVars, subscribers, lastID, toolVars, discovery>>
  /\ UNCHANGED <<runnerVars, cursor, seen, seenDone, armed, senderVars>>

StreamLoop(s) ==
  \/ Snapshot(s) \/ WriteSnapshot(s) \/ Wake(s) \/ Heartbeat(s)
  \/ Unsubscribe(s) \/ CancelRun(s)

-----------------------------------------------------------------------------
(* applyToolResult, by way of an upload or of a detached request *)

IdentityMatches(m, id) ==
  \/ m.exec # 0 /\ m.exec = id /\ m.id \in {0, id}
  \/ m.exec = 0 /\ m.id # 0 /\ m.id = id

AnswersDiscovery(m) == discovery # 0 /\ IdentityMatches(m, discovery)

CallsAt(pending, id) == {p[2] : p \in {x \in pending : x[1] = id}}

(* The pending call a result is for: by exec ID, else by message ID. *)
Found(m) ==
  LET byExec == IF m.exec = 0 THEN {} ELSE CallsAt(pendingByExec, m.exec)
  IN IF byExec # {} \/ m.id = 0 THEN byExec ELSE CallsAt(pendingByMessage, m.id)

(* Read results are decoded without a look at their identity. *)
Decodes(m, call) ==
  /\ m.body \in {"ok", "error"} \/ (m.body = "partial" /\ call \in ShellCalls)
  /\ \/ call \in ReadCalls \/ editPhase[call] = "read"
     \/ m.id \in {0, transport[call]} /\ m.exec \in {0, transport[call]}

(* matchesToolResult *)
Matches(m) ==
  /\ ~done
  /\ \/ AnswersDiscovery(m)
     \/ /\ m.exec # 0
        /\ \E call \in CallsAt(pendingByExec, m.exec) : m.id \in {0, transport[call]}
     \/ m.exec = 0 /\ m.id # 0 /\ CallsAt(pendingByMessage, m.id) # {}

(* An upload goes on, unless its stream is gone: then the message it had    *)
(* read is its last. A detached request carries one result.                 *)
Rest(q) ==
  IF q \in DirectStreams /\ phase[q] \notin {"dropped", "cancel", "closed"}
    THEN "reading" ELSE "off"

(* Every way applyToolResult returns an error under the lock. *)
ResultRefused(m) ==
  \/ m.id = 0 /\ m.exec = 0
  \/ done
  \/ AnswersDiscovery(m) /\ m.body \notin {"ok", "error"}
  \/ ~AnswersDiscovery(m) /\ ~\E call \in Found(m) : Decodes(m, call)

RefuseResult(q, m) ==
  /\ ResultRefused(m)
  /\ sender' = [sender EXCEPT ![q] = IF q \in Detached THEN "off" ELSE "rejected"]
  /\ held' = [held EXCEPT ![q] = NoMessage]
  /\ UNCHANGED <<sessionVars, sending, answering>>

TakeMcpState(q, m) ==
  /\ ~ResultRefused(m) /\ AnswersDiscovery(m)
  /\ discovery' = 0
  /\ answering' = [answering EXCEPT ![q] = m.body]
  /\ sender' = [sender EXCEPT ![q] = "sending"]
  /\ held' = [held EXCEPT ![q] = NoMessage]
  /\ UNCHANGED <<run, outcome, contextVars, logVars, subscribers, lastID, toolVars, sending>>

(* A Shell stream event that is not the last; output past the bound is not  *)
(* shown any more.                                                          *)
TakeProgress(q, m) ==
  /\ ~ResultRefused(m) /\ ~AnswersDiscovery(m) /\ m.body = "partial"
  /\ \/ /\ RoomForChatter
        /\ \E call \in Found(m) : AppendToLog(<<Event("progress", call, 0)>>)
     \/ UNCHANGED logVars
  /\ sender' = [sender EXCEPT ![q] = Rest(q)]
  /\ held' = [held EXCEPT ![q] = NoMessage]
  /\ UNCHANGED <<run, outcome, contextVars, subscribers, lastID, toolVars, discovery>>
  /\ UNCHANGED <<sending, answering>>

Without(pending, call) == pending \ {<<transport[call], call>>}

(* The read of an Edit succeeded and the replacement applies: the same call *)
(* goes on as a Write under new transport IDs.                              *)
Readdress(call, oldByMessage, oldByExec) ==
  /\ lastID' = lastID + 1
  /\ transport' = [transport EXCEPT ![call] = lastID']
  /\ editPhase' = [editPhase EXCEPT ![call] = "write"]
  /\ pendingByMessage' = oldByMessage \cup {<<lastID', call>>}
  /\ pendingByExec' = oldByExec \cup {<<lastID', call>>}
  /\ AppendToLog(<<Event("exec", call, lastID')>>)

(* Mutant: the old exec ID stays registered. *)
StartEditWrite_KeepsExec(call) == Readdress(call, Without(pendingByMessage, call), pendingByExec)
StartEditWrite(call) ==
  Readdress(call, Without(pendingByMessage, call), Without(pendingByExec, call))

DispatchEditWrite(q, m) ==
  /\ ~ResultRefused(m) /\ ~AnswersDiscovery(m) /\ m.body = "ok"
  /\ \E call \in Found(m) : call \in EditCalls /\ editPhase[call] = "read" /\ StartEditWrite(call)
  /\ sender' = [sender EXCEPT ![q] = Rest(q)]
  /\ held' = [held EXCEPT ![q] = NoMessage]
  /\ UNCHANGED <<run, outcome, contextVars, subscribers, discovery, sending, answering>>

(* A final result: the call is completed and its result leaves for the      *)
(* runner. A Shell exit is also shown as progress.                          *)
(* Mutant: the call stays pending. *)
RemovePending_Keeps(call) == UNCHANGED <<pendingByMessage, pendingByExec>>
RemovePending(call) ==
  /\ pendingByMessage' = Without(pendingByMessage, call)
  /\ pendingByExec' = Without(pendingByExec, call)

CompleteTool(q, m) ==
  /\ ~ResultRefused(m) /\ ~AnswersDiscovery(m) /\ m.body \in {"ok", "error"}
  /\ \E call \in Found(m) :
       /\ ~(m.body = "ok" /\ call \in EditCalls /\ editPhase[call] = "read")
       /\ RemovePending(call)
       /\ AppendToLog((IF call \in ShellCalls /\ m.body = "ok"
                         THEN <<Event("progress", call, 0)>> ELSE <<>>)
                      \o <<Event("completed", call, 0)>>)
       /\ sending' = [sending EXCEPT ![q] = call]
  /\ sender' = [sender EXCEPT ![q] = "sending"]
  /\ held' = [held EXCEPT ![q] = NoMessage]
  /\ UNCHANGED <<run, outcome, contextVars, subscribers, lastID, transport, editPhase,
                 discovery, answering>>

ApplyToolResult(q, m) ==
  /\ \/ RefuseResult(q, m) \/ TakeMcpState(q, m) \/ TakeProgress(q, m)
     \/ DispatchEditWrite(q, m) \/ CompleteTool(q, m)
  /\ UNCHANGED <<runnerVars, streamVars>>

(* consumeDirectInputs: one message of the upload, or its end. *)
UploadResult(s) ==
  /\ sender[s] = "reading"
  /\ \E m \in Messages : ApplyToolResult(s, m)

EndUpload(s) ==
  /\ sender[s] = "reading"
  /\ sender' = [sender EXCEPT ![s] = "off"]
  /\ UNCHANGED <<sessionVars, runnerVars, streamVars, held, sending, answering>>

(* A malformed or unexpected message, or a refused result: the session ends. *)
RejectUpload(s) ==
  /\ sender[s] \in {"reading", "rejected"}
  /\ Finish("invalid", <<>>)
  /\ sender' = [sender EXCEPT ![s] = "off"]
  /\ UNCHANGED <<runnerVars, streamVars, held, sending, answering>>

(* applyDetachedToolResult: a session is matched first, the result is       *)
(* applied later, with the lock released in between.                        *)
MatchDetached(d) ==
  /\ sender[d] = "reading"
  /\ \E m \in Messages :
       IF Matches(m)
         THEN /\ sender' = [sender EXCEPT ![d] = "matched"]
              /\ held' = [held EXCEPT ![d] = m]
         ELSE /\ sender' = [sender EXCEPT ![d] = "off"]
              /\ UNCHANGED held
  /\ UNCHANGED <<sessionVars, runnerVars, streamVars, sending, answering>>

ApplyDetached(d) == sender[d] = "matched" /\ ApplyToolResult(d, held[d])

(* The select after the unlock: the result goes into the waiter's channel,  *)
(* if there is room, or the run's context is done.                          *)
SendResult(q) ==
  /\ sender[q] = "sending"
  /\ \/ /\ sending[q] # None /\ sending[q] \notin results
        /\ results' = results \cup {sending[q]}
        /\ UNCHANGED mcpResult
     \/ /\ answering[q] # "empty" /\ mcpResult = "empty"
        /\ mcpResult' = answering[q]
        /\ UNCHANGED results
  /\ sender' = [sender EXCEPT ![q] = Rest(q)]
  /\ sending' = [sending EXCEPT ![q] = None]
  /\ answering' = [answering EXCEPT ![q] = "empty"]
  /\ UNCHANGED <<sessionVars, pc, failure, passes, queue, delivered, committed, streamVars, held>>

AbandonResult(q) ==
  /\ sender[q] = "sending" /\ ctxDone
  /\ sender' = [sender EXCEPT ![q] = IF q \in Detached THEN "off" ELSE "rejected"]
  /\ sending' = [sending EXCEPT ![q] = None]
  /\ answering' = [answering EXCEPT ![q] = "empty"]
  /\ UNCHANGED <<sessionVars, runnerVars, streamVars, held>>

-----------------------------------------------------------------------------
Next ==
  \/ CancelRoot
  \/ \E r \in Runs : BidiAppend(r)
  \/ Execute /\ UNCHANGED <<streamVars, senderVars>>
  \/ \E s \in Streams :
       \/ Subscribe(s) \/ StreamLoop(s) \/ StartTimeout(s) \/ DropStream(s)
  \/ \E s \in DirectStreams :
       \/ \E r \in Runs : OpenDirectRun(s, r)
       \/ UploadResult(s) \/ EndUpload(s) \/ RejectUpload(s)
  \/ \E d \in Detached : MatchDetached(d) \/ ApplyDetached(d)
  \/ \E q \in Senders : SendResult(q) \/ AbandonResult(q)

Spec == Init /\ [][Next]_vars

(* The Go scheduler runs every goroutine that can run, timers fire, and a   *)
(* select that stays ready is taken. Of its surroundings the session needs  *)
(* that the conversation is handed over (AcquireConversation) and that a    *)
(* provider stream ends once its context is done. Providers may otherwise   *)
(* stream for ever, and clients owe nothing.                                *)
Fairness ==
  /\ WF_vars(Proceed /\ UNCHANGED <<streamVars, senderVars>>)
  /\ WF_vars(ctxDone /\ EndPass /\ UNCHANGED <<streamVars, senderVars>>)
  /\ \A s \in Streams : WF_vars(StreamLoop(s))
  /\ \A q \in Senders : WF_vars(SendResult(q) \/ AbandonResult(q))
  /\ \A s \in DirectStreams : WF_vars(sender[s] = "rejected" /\ RejectUpload(s))

FairSpec == Spec /\ Fairness

(* What a canceled run needs of that: its runner is scheduled. *)
RunnerFairness == WF_vars(ctxDone /\ (Proceed \/ EndPass) /\ UNCHANGED <<streamVars, senderVars>>)

-----------------------------------------------------------------------------
(* Properties *)

Waiting(call) == \E p \in pendingByMessage : p[2] = call

(* The two indexes of pending tools never disagree, although an Edit moves  *)
(* from one pair of transport IDs to another while its result is being      *)
(* applied: an entry of either is an entry of both, under the call's        *)
(* current transport ID (agent.go:798-801, 990-996, 1089-1090).             *)
PendingIndexesAgree ==
  /\ pendingByMessage = pendingByExec
  /\ \A p \in pendingByMessage : p[1] = transport[p[2]]

(* A terminal session holds nothing a late result could match, whoever      *)
(* ended it and whatever the runner was about to open (agent.go:1189-1205). *)
TerminalHoldsNothing ==
  done => pendingByMessage = {} /\ pendingByExec = {} /\ discovery = 0

(* A call's result exists at most once on its way from the client to the    *)
(* runner: waited for, carried by one sender, or buffered in its channel;   *)
(* so a sender finds room in the channel (agent.go:1094-1099) and the       *)
(* runner is never given a result it did not just ask for (runner.go:143).  *)
ResultTravelsOnce ==
  /\ \A q \in Senders : sending[q] # None =>
       /\ sending[q] \notin results
       /\ ~Waiting(sending[q])
       /\ \A other \in Senders \ {q} : sending[other] # sending[q]
  /\ \A call \in results : ~Waiting(call)
  /\ \A call \in Calls :
       Waiting(call) \/ call \in results \/ (\E q \in Senders : sending[q] = call)
         => queue # <<>> /\ call = Head(queue) /\ pc \in {"wait", "fail", "exit"}

(* The same of the answer to MCP discovery: whoever carries it finds the    *)
(* channel empty and is alone; and a runner whose timer fired after the     *)
(* request had been taken waits for an answer that comes, unless the run is *)
(* canceled, as finish takes the request away too (agent.go:692-722).       *)
DiscoveryAnsweredOnce ==
  /\ \A q \in Senders : answering[q] # "empty" =>
       /\ discovery = 0 /\ mcpResult = "empty"
       /\ \A other \in Senders \ {q} : answering[other] = "empty"
  /\ mcpResult # "empty" => discovery = 0
  /\ pc = "discoverLate" =>
       mcpResult # "empty" \/ ctxDone \/ \E q \in Senders : answering[q] # "empty"

(* How a run ends agrees with the conversation's history: a run reported    *)
(* as successful was committed, one reported as canceled was not, although  *)
(* cancellation and the provider's last event race (runner.go:121-122,      *)
(* agent.go:337-352).                                                       *)
OutcomeMatchesHistory ==
  /\ outcome = "ok" => committed
  /\ outcome = "canceled" => ~committed

Occurs(kind, call) == {i \in DOMAIN events : events[i].kind = kind /\ events[i].call = call}

(* The log of a run: turnEnded comes last and only when every tool shown as *)
(* started is shown as completed; a call starts and completes at most once, *)
(* and only an Edit is executed twice (as a Read, then as a Write).         *)
LogIsWellFormed ==
  /\ \A call \in Calls :
       /\ Cardinality(Occurs("started", call)) <= 1
       /\ Cardinality(Occurs("completed", call)) <= Cardinality(Occurs("started", call))
       /\ Cardinality(Occurs("exec", call)) <= IF call \in EditCalls THEN 2 ELSE 1
       /\ outcome = "ok" => Cardinality(Occurs("completed", call)) = Cardinality(Occurs("started", call))
  /\ \A i \in DOMAIN events : events[i].kind = "turnEnded" => i = Len(events) /\ outcome = "ok"

(* The session counts exactly the streams that are being served, so that    *)
(* the one that leaves last, and no other, cancels the run                  *)
(* (agent.go:1242-1261).                                                    *)
SubscribersCounted == subscribers = Cardinality({s \in Streams : Subscribed(s)})

(* What readers of the log are promised, whatever is lost or taken over by  *)
(* another stream: see RunLog.                                              *)
Log == INSTANCE RunLog WITH
  Readers <- Streams, Open <- "open", log <- events, position <- cursor,
  ended <- {s \in Streams : phase[s] \in {"ended", "finished"}}

ImplementsRunLog == Log!Spec

(* A canceled run is brought to an end, wherever the runner was waiting.    *)
CanceledRunEnds == (ctxDone /\ ~done) ~> done

(* On-demand MCP discovery is left in every case: answered, timed out with  *)
(* the answer under way, finished or canceled (agent.go:692-710).           *)
DiscoveryEnds == pc = "discover" ~> pc \notin {"discover", "discoverLate"}

(* A stream that stays gets the end envelope of a finished session, even if *)
(* another stream took the only wakeup (agent.go:452-470).                  *)
StreamSeesEnd ==
  \A s \in Streams :
    (phase[s] \in {"top", "write", "select"} /\ done)
      ~> phase[s] \in {"ended", "finished", "dropped", "closed"}

(* A run that nobody streams any more, after a stream that was given its    *)
(* events has left, is brought to an end unless another stream joins        *)
(* (agent.go:1248-1261).                                                    *)
AbandonedRunEnds ==
  \A s \in Streams :
    (phase[s] \in {"cancel", "closed"} /\ cursor[s] > 0 /\ subscribers = 0)
      ~> (done \/ subscribers > 0)

(* What that rests on: once the last stream has left, of those that were    *)
(* given events, the run is canceled or somebody is about to cancel it,     *)
(* although unsubscribe lets go of the lock in between.                     *)
AbandonedRunIsCanceled ==
  (subscribers = 0 /\ ~done /\ \E s \in Streams : phase[s] \in {"cancel", "closed"} /\ cursor[s] > 0)
    => canceled \/ \E s \in Streams : phase[s] = "cancel"

(* docs/compatibility.md:148: "terminal-session rejection of late tool      *)
(* results, including an Edit Read result that must not dispatch its hidden *)
(* Write after cancellation".                                               *)
NoEditWriteAfterCancellation ==
  [][canceled => \A call \in EditCalls :
        editPhase[call] = "read" => editPhase'[call] # "write"]_vars
=============================================================================
