------------------------- MODULE AgentSessionProofs -------------------------
(***************************************************************************)
(* Proofs about AgentSession, for any number of runs, tool calls, streams, *)
(* detached requests and provider passes.                                  *)
(***************************************************************************)
EXTENDS AgentSession, SequenceTheorems, FiniteSetTheorems, TLAPS

(* A call is open or waited for only while the queue holds one.            *)
QueueOK == pc \in {"call", "wait"} => queue # <<>>

(* Types of what each party of the session owns.                           *)
LogType == events \in Seq(Events) /\ notify \in BOOLEAN
SessionType ==
  /\ run \in Runs \cup {None}
  /\ outcome \in {"open", "ok", "canceled", "failed", "invalid", "notAppended"}
  /\ canceled \in BOOLEAN /\ rootDone \in BOOLEAN
  /\ subscribers \in Nat
ToolType ==
  /\ lastID \in Nat /\ discovery \in 0..lastID
  /\ pendingByMessage \subseteq (1..lastID) \X Calls
  /\ pendingByExec \subseteq (1..lastID) \X Calls
  /\ transport \in [Calls -> 0..lastID]
  /\ editPhase \in [Calls -> {"none", "read", "write"}]
RunnerType ==
  /\ pc \in {"idle", "enrich", "discover", "discoverLate", "precheck", "acquire", "pass",
             "call", "wait", "commit", "ended", "fail", "exit"}
  /\ passes \in Nat
  /\ queue \in Seq(Calls)
  /\ delivered \subseteq Calls
  /\ failure \in {"none", "canceled", "failed"}
  /\ committed \in BOOLEAN
  /\ results \subseteq Calls
  /\ mcpResult \in {"empty", "ok", "error"}
StreamType ==
  /\ phase \in [Streams -> {"idle", "joining", "top", "write", "select", "ended", "dropped",
                            "cancel", "finished", "closed"}]
  /\ cursor \in [Streams -> Nat] /\ seen \in [Streams -> Nat]
  /\ seenDone \in [Streams -> BOOLEAN] /\ armed \in [Streams -> BOOLEAN]
SenderType ==
  /\ sender \in [Senders -> {"off", "reading", "matched", "sending", "rejected"}]
  /\ held \in [Senders -> [id : Nat, exec : Nat, body : Bodies]]
  /\ sending \in [Senders -> Calls \cup {None}]
  /\ answering \in [Senders -> {"empty", "ok", "error"}]

LEMMA TypeParts ==
  /\ TypeOK <=> LogType /\ SessionType /\ ToolType /\ RunnerType /\ StreamType /\ SenderType
  /\ TypeOK' <=> LogType' /\ SessionType' /\ ToolType' /\ RunnerType' /\ StreamType' /\ SenderType'
BY DEF TypeOK, LogType, SessionType, ToolType, RunnerType, StreamType, SenderType

(* What is appended to the log keeps its type. *)
LEMMA EventType ==
  ASSUME NEW kind \in EventKinds, NEW call \in Calls \cup {None}, NEW id \in Nat
  PROVE  Event(kind, call, id) \in Events
BY DEF Event, Events

LEMMA AppendType ==
  ASSUME LogType, NEW new \in Seq(Events), AppendToLog(new)
  PROVE  LogType'
BY ConcatProperties DEF LogType, AppendToLog

LEMMA FinishType ==
  ASSUME TypeOK, NEW code \in {"ok", "canceled", "failed", "invalid", "notAppended"},
         NEW last \in Seq(Events), Finish(code, last)
  PROVE  LogType' /\ SessionType' /\ ToolType'
<1>1. CASE UNCHANGED sessionVars
  BY <1>1, TypeParts DEF LogType, SessionType, ToolType, sessionVars, contextVars, logVars, toolVars
<1>2. CASE ~ UNCHANGED sessionVars
  <2>1. LogType'
    BY <1>2, ConcatProperties, TypeParts DEF LogType, Finish
  <2>2. ToolType'
    BY <1>2, TypeParts DEF ToolType, Finish
  <2>3. canceled' \in BOOLEAN
    BY <1>2, Zenon DEF Finish
  <2>4. SessionType'
    BY <1>2, <2>3, TypeParts DEF SessionType, Finish
  <2> QED BY <2>1, <2>2, <2>4
<1> QED BY <1>1, <1>2

-----------------------------------------------------------------------------
LEMMA InitType == Init => TypeOK /\ QueueOK
<1> SUFFICES ASSUME Init PROVE TypeOK /\ QueueOK
  OBVIOUS
<1>1. LogType /\ RunnerType
  BY EmptySeq DEF Init, LogType, RunnerType
<1>2. SessionType
  BY DEF Init, SessionType
<1>3. ToolType
  BY DEF Init, ToolType
<1>4. StreamType
  BY DEF Init, StreamType
<1>5. SenderType
  BY DEF Init, SenderType, NoMessage, Bodies
<1> QED BY <1>1, <1>2, <1>3, <1>4, <1>5, TypeParts DEF QueueOK, Init

(* What is left alone keeps its type. *)
LEMMA KeptTypes ==
  ASSUME TypeOK, QueueOK
  PROVE  /\ UNCHANGED logVars => LogType'
         /\ UNCHANGED sessionVars => LogType' /\ SessionType' /\ ToolType'
         /\ UNCHANGED runnerVars => RunnerType' /\ QueueOK'
         /\ UNCHANGED streamVars => StreamType'
         /\ UNCHANGED senderVars => SenderType'
<1>1. UNCHANGED logVars => LogType'
  BY TypeParts DEF LogType, logVars
<1>2. UNCHANGED sessionVars => LogType' /\ SessionType' /\ ToolType'
  BY TypeParts DEF LogType, SessionType, ToolType, sessionVars, contextVars, logVars, toolVars
<1>3. UNCHANGED runnerVars => RunnerType' /\ QueueOK'
  BY TypeParts DEF RunnerType, QueueOK, runnerVars, turnVars
<1>4. UNCHANGED streamVars => StreamType'
  BY TypeParts DEF StreamType, streamVars
<1>5. UNCHANGED senderVars => SenderType'
  BY TypeParts DEF SenderType, senderVars
<1> QED BY <1>1, <1>2, <1>3, <1>4, <1>5

LEMMA StartTypes ==
  ASSUME TypeOK, QueueOK, NEW r \in Runs, Start(r)
  PROVE  LogType' /\ SessionType' /\ ToolType' /\ RunnerType' /\ QueueOK'
<1>1. LogType' /\ SessionType'
  BY TypeParts DEF Start, LogType, SessionType, contextVars
<1>2. ToolType'
  BY TypeParts DEF Start, ToolType, toolVars
<1>3. RunnerType' /\ QueueOK'
  BY TypeParts DEF Start, RunnerType, turnVars, QueueOK
<1> QED BY <1>1, <1>2, <1>3

LEMMA ExecuteTypes ==
  ASSUME TypeOK, QueueOK, Execute
  PROVE  LogType' /\ SessionType' /\ ToolType' /\ RunnerType' /\ QueueOK'
<1> USE TypeParts, KeptTypes
<1>1. CASE Enrich
  <2>1. RunnerType' /\ QueueOK'
    BY <1>1 DEF Enrich, RunnerType, QueueOK, Goto, Fail, turnVars
  <2>2. CASE UNCHANGED sessionVars
    BY <2>1, <2>2
  <2>3. CASE ~ UNCHANGED sessionVars
    <3> DEFINE new == <<Event("mcpState", None, lastID')>>
    <3>1. lastID' = lastID + 1 /\ discovery' = lastID' /\ AppendToLog(new)
          /\ UNCHANGED <<run, outcome, contextVars, subscribers, toolVars>>
      BY <1>1, <2>3 DEF Enrich
    <3>2. ToolType'
      BY <3>1 DEF ToolType, toolVars
    <3>3. new \in Seq(Events)
      <4>1. lastID' \in Nat
        BY <3>2 DEF ToolType
      <4> QED BY <4>1, EventType DEF EventKinds
    <3>4. LogType'
      BY <3>1, <3>3, AppendType
    <3>5. SessionType'
      BY <3>1 DEF SessionType, contextVars
    <3> QED BY <2>1, <3>2, <3>4, <3>5
  <2> QED BY <2>2, <2>3
<1>2. CASE ReceiveMcpState
  BY <1>2 DEF ReceiveMcpState, RunnerType, QueueOK, Goto, Fail, turnVars
<1>3. CASE DiscoveryCanceled
  BY <1>3 DEF DiscoveryCanceled, SessionType, ToolType, RunnerType, QueueOK, Fail, turnVars,
              contextVars, toolVars
<1>4. CASE DiscoveryTimeout
  BY <1>4 DEF DiscoveryTimeout, SessionType, ToolType, RunnerType, QueueOK, Goto, Fail, turnVars,
              contextVars, toolVars
<1>5. CASE Precheck
  BY <1>5 DEF Precheck, RunnerType, QueueOK, Goto, Fail, turnVars
<1>6. CASE AcquireConversation
  BY <1>6 DEF AcquireConversation, RunnerType, QueueOK, Goto, Fail, turnVars
<1>7. CASE PublishDelta
  <2>1. RunnerType' /\ QueueOK'
    BY <1>7 DEF PublishDelta, RunnerType, QueueOK, Goto, Fail, turnVars
  <2>2. CASE UNCHANGED sessionVars
    BY <2>1, <2>2
  <2>3. CASE ~ UNCHANGED sessionVars
    <3> DEFINE new == <<Event("text", None, 0)>>
    <3>1. AppendToLog(new)
          /\ UNCHANGED <<run, outcome, contextVars, subscribers, lastID, toolVars, discovery>>
      BY <1>7, <2>3 DEF PublishDelta
    <3>2. new \in Seq(Events)
      BY EventType DEF EventKinds
    <3> QED BY <2>1, <3>1, <3>2, AppendType DEF SessionType, ToolType, contextVars, toolVars
  <2> QED BY <2>2, <2>3
<1>8. CASE EndPass
  <2>1. queue' \in Seq(Calls) /\ (pc' \in {"call", "wait"} => queue' # <<>>)
    <3>1. ASSUME NEW calls \in CallLists
          PROVE  calls \in Seq(Calls) /\ calls # <<>>
      BY SessionAssumption DEF CallLists, SessionAssumption
    <3> QED BY <1>8, <3>1 DEF EndPass, Goto, Fail, RunnerType
  <2> QED BY <1>8, <2>1 DEF EndPass, RunnerType, QueueOK, Goto, Fail
<1>9. CASE CommitTurn
  BY <1>9 DEF CommitTurn, RunnerType, QueueOK, Goto
<1>10. CASE RefuseTool
  BY <1>10 DEF RefuseTool, SessionType, ToolType, RunnerType, QueueOK, Fail, turnVars,
               contextVars, toolVars
<1>11. CASE OpenTool
  <2> DEFINE call == Head(queue)  id == lastID + 1
             new == <<Event("exec", call, id), Event("started", call, 0)>>
  <2>1. call \in Calls /\ id \in Nat /\ InsertPending(call, id)
    BY <1>11, HeadTailProperties DEF OpenTool, RunnerType, ToolType, QueueOK
  <2>2. new \in Seq(Events)
    BY <2>1, EventType DEF EventKinds
  <2>3. LogType'
    BY <2>1, <2>2, AppendType DEF InsertPending
  <2>4. ToolType'
    BY <2>1 DEF InsertPending, ToolType
  <2>5. SessionType' /\ RunnerType' /\ QueueOK'
    BY <1>11, <2>1 DEF OpenTool, InsertPending, SessionType, contextVars, RunnerType, Goto, QueueOK
  <2> QED BY <2>3, <2>4, <2>5
<1>12. CASE ReceiveResult
  <2>1. queue # <<>> /\ queue \in Seq(Calls)
    BY <1>12 DEF ReceiveResult, QueueOK, RunnerType
  <2>2. Tail(queue) \in Seq(Calls) /\ Len(Tail(queue)) = Len(queue) - 1
    BY <2>1, HeadTailProperties
  <2>3. Len(queue) \in Nat /\ (Len(queue) > 1 => Tail(queue) # <<>>)
    <3>1. Len(queue) \in Nat
      BY <2>1, LenProperties
    <3>2. Len(<<>>) = 0
      OBVIOUS
    <3>3. Tail(queue) = <<>> => Len(Tail(queue)) = 0
      BY <3>2, Zenon
    <3> QED BY <2>2, <3>1, <3>3
  <2> QED BY <1>12, <2>1, <2>2, <2>3 DEF ReceiveResult, RunnerType, QueueOK, Goto, Fail
<1>13. CASE StopWaiting
  BY <1>13 DEF StopWaiting, RunnerType, QueueOK, Fail, turnVars
<1>14. CASE FinishTurn
  <2>1. <<Event("turnEnded", None, 0)>> \in Seq(Events)
    BY EventType DEF EventKinds
  <2>2. LogType' /\ SessionType' /\ ToolType'
    BY <1>14, <2>1, FinishType DEF FinishTurn
  <2> QED BY <1>14, <2>2 DEF FinishTurn, RunnerType, QueueOK, Goto, turnVars
<1>15. CASE FinishFailure
  <2>1. <<>> \in Seq(Events)
    BY EmptySeq
  <2>2. LogType' /\ SessionType' /\ ToolType'
    BY <1>15, <2>1, FinishType DEF FinishFailure
  <2> QED BY <1>15, <2>2 DEF FinishFailure, RunnerType, QueueOK, Goto, turnVars
<1> QED BY <1>1, <1>2, <1>3, <1>4, <1>5, <1>6, <1>7, <1>8, <1>9, <1>10, <1>11, <1>12, <1>13,
           <1>14, <1>15 DEF Execute, Proceed

LEMMA StreamTypes ==
  ASSUME TypeOK, QueueOK, NEW s \in Streams,
         Subscribe(s) \/ StreamLoop(s) \/ StartTimeout(s) \/ DropStream(s)
  PROVE  TypeOK' /\ QueueOK'
<1> USE TypeParts, KeptTypes
<1>1. CASE Subscribe(s)
  BY <1>1 DEF Subscribe, LogType, SessionType, ToolType, StreamType, contextVars, logVars, toolVars
<1>2. CASE Snapshot(s)
  <2>1. Len(events) \in Nat
    BY LenProperties DEF LogType
  <2>2. [seenDone EXCEPT ![s] = done] \in [Streams -> BOOLEAN]
    BY Zenon DEF StreamType, done
  <2>3. [armed EXCEPT ![s] = @ /\ run = None] \in [Streams -> BOOLEAN]
    BY Zenon DEF StreamType
  <2>4. StreamType'
    BY <1>2, <2>1, <2>2, <2>3 DEF Snapshot, StreamType
  <2> QED BY <1>2, <2>4 DEF Snapshot
<1>3. CASE WriteSnapshot(s)
  BY <1>3 DEF WriteSnapshot, StreamType
<1>4. CASE Wake(s)
  BY <1>4 DEF Wake, LogType, SessionType, ToolType, StreamType, contextVars, toolVars
<1>5. CASE Heartbeat(s)
  BY <1>5 DEF Heartbeat, StreamType
<1>6. CASE Unsubscribe(s)
  <2>1. subscribers' \in Nat
    BY <1>6 DEF Unsubscribe, SessionType
  <2>2. LogType' /\ SessionType' /\ ToolType'
    BY <1>6, <2>1 DEF Unsubscribe, LogType, SessionType, ToolType, contextVars, logVars, toolVars
  <2>3. StreamType'
    BY <1>6 DEF Unsubscribe, StreamType
  <2> QED BY <1>6, <2>2, <2>3 DEF Unsubscribe
<1>7. CASE CancelRun(s)
  BY <1>7 DEF CancelRun, LogType, SessionType, ToolType, StreamType, logVars, toolVars
<1>8. CASE StartTimeout(s)
  <2>1. LogType' /\ SessionType' /\ ToolType'
    BY <1>8, EmptySeq, FinishType DEF StartTimeout
  <2> QED BY <1>8, <2>1 DEF StartTimeout, StreamType
<1>9. CASE DropStream(s)
  <2>1. cursor' \in [Streams -> Nat]
    BY <1>9 DEF DropStream, StreamType
  <2> QED BY <1>9, <2>1 DEF DropStream, StreamType
<1> QED BY <1>1, <1>2, <1>3, <1>4, <1>5, <1>6, <1>7, <1>8, <1>9 DEF StreamLoop

(* A result goes to a call that is pending in one of the indexes. *)
LEMMA FoundCalls ==
  ASSUME TypeOK, NEW m, NEW call \in Found(m)
  PROVE  /\ call \in Calls
         /\ \E id \in 1..lastID : <<id, call>> \in pendingByMessage \cup pendingByExec
<1>1. ASSUME NEW pending \in SUBSET ((1..lastID) \X Calls), NEW id, call \in CallsAt(pending, id)
      PROVE  call \in Calls /\ \E i \in 1..lastID : <<i, call>> \in pending
  BY <1>1 DEF CallsAt
<1>2. \/ call \in CallsAt(pendingByExec, m.exec)
      \/ call \in CallsAt(pendingByMessage, m.id)
  BY DEF Found
<1> QED BY <1>1, <1>2 DEF TypeOK

LEMMA ApplyTypes ==
  ASSUME TypeOK, QueueOK, NEW q \in Senders, NEW m \in [id : Nat, exec : Nat, body : Bodies],
         ApplyToolResult(q, m)
  PROVE  TypeOK' /\ QueueOK'
<1> USE TypeParts, KeptTypes
<1>0. RunnerType' /\ QueueOK' /\ StreamType'
  BY DEF ApplyToolResult
<1>a. [held EXCEPT ![q] = NoMessage] \in [Senders -> [id : Nat, exec : Nat, body : Bodies]]
  BY DEF SenderType, NoMessage, Bodies
<1>b. [sender EXCEPT ![q] = Rest(q)] \in [Senders -> {"off", "reading", "matched", "sending", "rejected"}]
  BY DEF SenderType, Rest
<1>1. CASE RefuseResult(q, m)
  BY <1>0, <1>1, <1>a DEF RefuseResult, SenderType
<1>2. CASE TakeMcpState(q, m)
  <2>1. answering' \in [Senders -> {"empty", "ok", "error"}]
    BY <1>2 DEF TakeMcpState, ResultRefused, SenderType
  <2>2. SenderType'
    BY <1>2, <1>a, <2>1 DEF TakeMcpState, SenderType
  <2> QED BY <1>0, <1>2, <2>2 DEF TakeMcpState, LogType, SessionType, ToolType, contextVars, logVars,
             toolVars
<1>3. CASE TakeProgress(q, m)
  <2>1. LogType'
    <3>1. ASSUME NEW call \in Found(m) PROVE <<Event("progress", call, 0)>> \in Seq(Events)
      BY <3>1, FoundCalls, EventType DEF EventKinds
    <3> QED BY <1>3, <3>1, AppendType DEF TakeProgress
  <2>2. SenderType'
    BY <1>3, <1>a, <1>b DEF TakeProgress, SenderType
  <2>3. SessionType' /\ ToolType'
    BY <1>3 DEF TakeProgress, SessionType, ToolType, contextVars, toolVars
  <2> QED BY <1>0, <2>1, <2>2, <2>3
<1>4. CASE DispatchEditWrite(q, m)
  <2>1. PICK call \in Found(m) : StartEditWrite(call)
    BY <1>4 DEF DispatchEditWrite
  <2>2. call \in Calls
    BY <2>1, FoundCalls
  <2>3. ToolType'
    BY <1>4, <2>1, <2>2 DEF DispatchEditWrite, StartEditWrite, Readdress, Without, ToolType
  <2>4. LogType'
    <3>1. lastID' \in Nat
      BY <2>3 DEF ToolType
    <3>2. <<Event("exec", call, lastID')>> \in Seq(Events)
      BY <2>2, <3>1, EventType DEF EventKinds
    <3> QED BY <2>1, <3>2, AppendType DEF StartEditWrite, Readdress
  <2>5. SessionType' /\ SenderType'
    BY <1>4, <1>a, <1>b DEF DispatchEditWrite, SessionType, SenderType, contextVars
  <2> QED BY <1>0, <2>3, <2>4, <2>5
<1>5. CASE CompleteTool(q, m)
  <2>1. PICK call \in Found(m) :
          /\ RemovePending(call)
          /\ AppendToLog((IF call \in ShellCalls /\ m.body = "ok"
                            THEN <<Event("progress", call, 0)>> ELSE <<>>)
                         \o <<Event("completed", call, 0)>>)
          /\ sending' = [sending EXCEPT ![q] = call]
    BY <1>5 DEF CompleteTool
  <2>2. call \in Calls
    BY <2>1, FoundCalls
  <2>3. LogType'
    <3>1. <<Event("progress", call, 0)>> \in Seq(Events) /\ <<Event("completed", call, 0)>> \in Seq(Events)
      BY <2>2, EventType DEF EventKinds
    <3>2. (IF call \in ShellCalls /\ m.body = "ok" THEN <<Event("progress", call, 0)>> ELSE <<>>)
            \in Seq(Events)
      BY <3>1, EmptySeq
    <3> QED BY <2>1, <3>1, <3>2, ConcatProperties, AppendType
  <2>4. ToolType' /\ SessionType'
    BY <1>5, <2>1 DEF CompleteTool, RemovePending, Without, ToolType, SessionType, contextVars
  <2>5. SenderType'
    BY <1>5, <1>a, <2>1, <2>2 DEF CompleteTool, SenderType
  <2> QED BY <1>0, <2>3, <2>4, <2>5
<1> QED BY <1>1, <1>2, <1>3, <1>4, <1>5 DEF ApplyToolResult

LEMMA MessageTypes ==
  ASSUME TypeOK, NEW m \in Messages
  PROVE  m \in [id : Nat, exec : Nat, body : Bodies]
BY DEF TypeOK, Messages

LEMMA SenderTypes ==
  ASSUME TypeOK, QueueOK,
         \/ \E s \in DirectStreams : UploadResult(s) \/ EndUpload(s) \/ RejectUpload(s)
         \/ \E d \in Detached : MatchDetached(d) \/ ApplyDetached(d)
         \/ \E q \in Senders : SendResult(q) \/ AbandonResult(q)
  PROVE  TypeOK' /\ QueueOK'
<1> USE TypeParts, KeptTypes
<1>1. ASSUME NEW s \in DirectStreams, UploadResult(s) PROVE TypeOK' /\ QueueOK'
  BY <1>1, MessageTypes, ApplyTypes DEF UploadResult, Senders
<1>2. ASSUME NEW s \in DirectStreams, EndUpload(s) PROVE TypeOK' /\ QueueOK'
  BY <1>2 DEF EndUpload, SenderType
<1>3. ASSUME NEW s \in DirectStreams, RejectUpload(s) PROVE TypeOK' /\ QueueOK'
  <2>1. LogType' /\ SessionType' /\ ToolType'
    BY <1>3, EmptySeq, FinishType DEF RejectUpload
  <2> QED BY <1>3, <2>1 DEF RejectUpload, SenderType
<1>4. ASSUME NEW d \in Detached, MatchDetached(d) PROVE TypeOK' /\ QueueOK'
  BY <1>4, MessageTypes DEF MatchDetached, SenderType
<1>5. ASSUME NEW d \in Detached, ApplyDetached(d) PROVE TypeOK' /\ QueueOK'
  BY <1>5, ApplyTypes DEF ApplyDetached, Senders, SenderType
<1>6. ASSUME NEW q \in Senders, SendResult(q) PROVE TypeOK' /\ QueueOK'
  BY <1>6 DEF SendResult, Rest, SenderType, RunnerType, QueueOK
<1>7. ASSUME NEW q \in Senders, AbandonResult(q) PROVE TypeOK' /\ QueueOK'
  BY <1>7 DEF AbandonResult, SenderType
<1> QED BY <1>1, <1>2, <1>3, <1>4, <1>5, <1>6, <1>7

LEMMA TypeStep == TypeOK /\ QueueOK /\ [Next]_vars => TypeOK' /\ QueueOK'
<1> SUFFICES ASSUME TypeOK, QueueOK, [Next]_vars PROVE TypeOK' /\ QueueOK'
  OBVIOUS
<1> USE TypeParts, KeptTypes
<1>1. CASE CancelRoot
  BY <1>1 DEF CancelRoot, LogType, SessionType, ToolType, logVars, toolVars
<1>2. ASSUME NEW r \in Runs, BidiAppend(r) PROVE TypeOK' /\ QueueOK'
  BY <1>2, StartTypes DEF BidiAppend
<1>3. CASE Execute /\ UNCHANGED <<streamVars, senderVars>>
  BY <1>3, ExecuteTypes
<1>4. ASSUME NEW s \in Streams, Subscribe(s) \/ StreamLoop(s) \/ StartTimeout(s) \/ DropStream(s)
      PROVE  TypeOK' /\ QueueOK'
  BY <1>4, StreamTypes
<1>5. ASSUME NEW s \in DirectStreams, NEW r \in Runs, OpenDirectRun(s, r) PROVE TypeOK' /\ QueueOK'
  <2>1. StreamType' /\ SenderType'
    BY <1>5 DEF OpenDirectRun, StreamType, SenderType
  <2> QED BY <1>5, <2>1, StartTypes DEF OpenDirectRun
<1>6. CASE \/ \E s \in DirectStreams : UploadResult(s) \/ EndUpload(s) \/ RejectUpload(s)
           \/ \E d \in Detached : MatchDetached(d) \/ ApplyDetached(d)
           \/ \E q \in Senders : SendResult(q) \/ AbandonResult(q)
  BY <1>6, SenderTypes
<1>7. CASE UNCHANGED vars
  BY <1>7 DEF vars
<1> QED BY <1>1, <1>2, <1>3, <1>4, <1>5, <1>6, <1>7 DEF Next

(* Every field of the session, the runner, the streams and the senders has  *)
(* its type in every reachable state; what agent.go indexes is there.       *)
THEOREM TypeCorrect == Spec => []TypeOK
<1>1. Spec => [](TypeOK /\ QueueOK)
  BY InitType, TypeStep, PTL DEF Spec
<1> QED BY <1>1, PTL

-----------------------------------------------------------------------------
(* Tool calls in flight. Inductive together, given the types: a call is     *)
(* opened when nothing else is on its way, so its new transport IDs cannot  *)
(* collide with an older entry of the indexes.                              *)
ToolsInv == PendingIndexesAgree /\ TerminalHoldsNothing /\ ResultTravelsOnce

(* A step that opens, answers and carries no result keeps what is said      *)
(* about them, if it ends the turn at most by failing.                      *)
Idles ==
  /\ \/ /\ UNCHANGED <<outcome, pendingByMessage, pendingByExec, transport>>
        /\ discovery' \in {discovery, 0}
     \/ pendingByMessage' = {} /\ pendingByExec' = {} /\ discovery' = 0
  /\ UNCHANGED results
  /\ \A q \in Senders : sending'[q] \in {sending[q], None}
  /\ pc \in {"wait", "fail", "exit"} => pc' \in {"wait", "fail", "exit"} /\ queue' = queue

LEMMA IdleStep ==
  ASSUME TypeOK, ToolsInv, Idles
  PROVE  ToolsInv'
<1>1. PendingIndexesAgree' /\ TerminalHoldsNothing'
  BY DEF ToolsInv, PendingIndexesAgree, TerminalHoldsNothing, Idles, done
<1>2. \A call : Waiting(call)' => Waiting(call)
  BY DEF Idles, Waiting
<1>3. ResultTravelsOnce'
  <2>1. None \notin Calls
    BY SessionAssumption DEF SessionAssumption
  <2>2. \A q \in Senders : sending'[q] # None => sending'[q] = sending[q]
    BY DEF Idles
  <2> QED BY <1>2, <2>1, <2>2 DEF ToolsInv, ResultTravelsOnce, Idles
<1> QED BY <1>1, <1>3 DEF ToolsInv

(* Outside a tool call nothing is on its way. *)
LEMMA NothingInFlight ==
  ASSUME TypeOK, ToolsInv, pc \notin {"wait", "fail", "exit"}
  PROVE  /\ pendingByMessage = {} /\ pendingByExec = {} /\ results = {}
         /\ \A q \in Senders : sending[q] = None
<1>1. \A call \in Calls : ~Waiting(call) /\ call \notin results /\ \A q \in Senders : sending[q] # call
  BY DEF ToolsInv, ResultTravelsOnce
<1>2. pendingByMessage = {}
  BY <1>1 DEF Waiting, TypeOK
<1> QED BY <1>1, <1>2 DEF ToolsInv, PendingIndexesAgree, TypeOK

LEMMA FinishIdles ==
  ASSUME NEW code, NEW last, Finish(code, last)
  PROVE  \/ /\ UNCHANGED <<outcome, pendingByMessage, pendingByExec, transport>>
            /\ discovery' \in {discovery, 0}
         \/ pendingByMessage' = {} /\ pendingByExec' = {} /\ discovery' = 0
BY DEF Finish, sessionVars, toolVars

LEMMA StartIdles ==
  ASSUME TypeOK, ToolsInv, NEW r \in Runs, Start(r), UNCHANGED sending,
         run = None => pc = "idle"
  PROVE  Idles
BY DEF Start, Idles, toolVars, turnVars

LEMMA ExecuteTools ==
  ASSUME TypeOK, QueueOK, ToolsInv, Execute, UNCHANGED <<streamVars, senderVars>>
  PROVE  ToolsInv'
<1> USE IdleStep DEF Idles, senderVars, sessionVars, toolVars, turnVars, Goto, Fail
<1>1. CASE Enrich
  <2>1. CASE UNCHANGED sessionVars
    BY <1>1, <2>1 DEF Enrich
  <2>2. CASE ~ UNCHANGED sessionVars
    <3>1. /\ ~done
          /\ UNCHANGED <<outcome, pendingByMessage, pendingByExec, transport, results, sending>>
      BY <1>1, <2>2 DEF Enrich
    <3>2. pc = "enrich" /\ pc' = "discover" /\ pendingByMessage = {} /\ results = {}
          /\ \A q \in Senders : sending[q] = None
      BY <1>1, <2>2, NothingInFlight DEF Enrich
    <3> QED BY <3>1, <3>2 DEF ToolsInv, PendingIndexesAgree, TerminalHoldsNothing,
                ResultTravelsOnce, done, Waiting
  <2> QED BY <2>1, <2>2
<1>2. CASE ReceiveMcpState
  BY <1>2 DEF ReceiveMcpState
<1>3. CASE DiscoveryCanceled
  BY <1>3 DEF DiscoveryCanceled
<1>4. CASE DiscoveryTimeout
  BY <1>4 DEF DiscoveryTimeout
<1>5. CASE Precheck
  BY <1>5 DEF Precheck
<1>6. CASE AcquireConversation
  BY <1>6 DEF AcquireConversation
<1>7. CASE PublishDelta
  BY <1>7 DEF PublishDelta
<1>8. CASE EndPass
  BY <1>8 DEF EndPass
<1>9. CASE CommitTurn
  BY <1>9 DEF CommitTurn
<1>10. CASE RefuseTool
  BY <1>10 DEF RefuseTool
<1>11. CASE OpenTool
  <2> DEFINE call == Head(queue)  id == lastID + 1
  <2>1. /\ call \in Calls /\ queue # <<>> /\ ~done
        /\ pendingByMessage = {} /\ pendingByExec = {} /\ results = {}
        /\ \A q \in Senders : sending[q] = None
    BY <1>11, HeadTailProperties, NothingInFlight DEF OpenTool, TypeOK, QueueOK
  <2>2. /\ pendingByMessage' = {<<id, call>>} /\ pendingByExec' = {<<id, call>>}
        /\ transport'[call] = id /\ pc' = "wait"
        /\ UNCHANGED <<outcome, queue, results, sending, discovery>>
    BY <1>11, <2>1 DEF OpenTool, InsertPending, TypeOK
  <2>3. PendingIndexesAgree' /\ TerminalHoldsNothing'
    BY <2>1, <2>2 DEF PendingIndexesAgree, TerminalHoldsNothing, done
  <2>4. \A other : Waiting(other)' <=> other = call
    BY <2>2 DEF Waiting
  <2>5. ResultTravelsOnce'
    BY <2>1, <2>2, <2>4, SessionAssumption DEF ResultTravelsOnce, SessionAssumption
  <2> QED BY <2>3, <2>5 DEF ToolsInv
<1>12. CASE ReceiveResult
  <2> DEFINE call == Head(queue)
  <2>1. call \in results /\ results' = results \ {call}
        /\ UNCHANGED <<outcome, pendingByMessage, pendingByExec, transport, sending, discovery>>
    BY <1>12 DEF ReceiveResult
  <2>2. results' = {} /\ (\A other \in Calls : ~Waiting(other)) /\ \A q \in Senders : sending[q] = None
    <3>1. \A other \in Calls : (Waiting(other) \/ other \in results
                                   \/ \E q \in Senders : sending[q] = other) => other = call
      BY DEF ToolsInv, ResultTravelsOnce
    <3>2. ~Waiting(call) /\ \A q \in Senders : sending[q] # call
      BY <2>1, SessionAssumption DEF ToolsInv, ResultTravelsOnce, SessionAssumption, TypeOK
    <3> QED BY <2>1, <3>1, <3>2 DEF TypeOK
  <2>3. \A other \in Calls : ~Waiting(other)'
    BY <2>1, <2>2 DEF Waiting
  <2>4. ResultTravelsOnce'
    BY <2>1, <2>2, <2>3, SessionAssumption DEF ResultTravelsOnce, SessionAssumption
  <2> QED BY <2>1, <2>4 DEF ToolsInv, PendingIndexesAgree, TerminalHoldsNothing, done
<1>13. CASE StopWaiting
  BY <1>13 DEF StopWaiting
<1>14. CASE FinishTurn
  BY <1>14, FinishIdles DEF FinishTurn
<1>15. CASE FinishFailure
  BY <1>15, FinishIdles DEF FinishFailure
<1> QED BY <1>1, <1>2, <1>3, <1>4, <1>5, <1>6, <1>7, <1>8, <1>9, <1>10, <1>11, <1>12, <1>13,
           <1>14, <1>15 DEF Execute, Proceed

LEMMA StreamTools ==
  ASSUME TypeOK, ToolsInv, NEW s \in Streams,
         Subscribe(s) \/ StreamLoop(s) \/ StartTimeout(s) \/ DropStream(s)
  PROVE  ToolsInv'
<1>1. UNCHANGED <<runnerVars, senderVars>>
  BY DEF StreamLoop, Subscribe, Snapshot, WriteSnapshot, Wake, Heartbeat, Unsubscribe, CancelRun,
         StartTimeout, DropStream
<1>2. \/ /\ UNCHANGED <<outcome, pendingByMessage, pendingByExec, transport>>
         /\ discovery' \in {discovery, 0}
      \/ pendingByMessage' = {} /\ pendingByExec' = {} /\ discovery' = 0
  BY FinishIdles DEF StreamLoop, Subscribe, Snapshot, WriteSnapshot, Wake, Heartbeat, Unsubscribe,
         CancelRun, StartTimeout, DropStream, sessionVars, toolVars
<1> QED BY <1>1, <1>2, IdleStep DEF Idles, runnerVars, turnVars, senderVars

(* The call a result is found for is the only one pending. *)
LEMMA FoundIsPending ==
  ASSUME TypeOK, ToolsInv, NEW m, NEW call \in Found(m)
  PROVE  /\ call \in Calls /\ Waiting(call)
         /\ pendingByMessage = {<<transport[call], call>>}
         /\ pendingByExec = {<<transport[call], call>>}
<1>1. pendingByMessage = pendingByExec /\ \A p \in pendingByMessage : p[1] = transport[p[2]]
  BY DEF ToolsInv, PendingIndexesAgree
<1>2. call \in Calls /\ \E id \in 1..lastID : <<id, call>> \in pendingByMessage
  BY <1>1, FoundCalls
<1>3. Waiting(call)
  BY <1>2 DEF Waiting
<1>4. \A other \in Calls : Waiting(other) => other = call
  BY <1>2, <1>3 DEF ToolsInv, ResultTravelsOnce
<1>5. \A p \in pendingByMessage : p = <<p[1], p[2]>> /\ p[2] \in Calls
  BY DEF TypeOK
<1>6. \A p \in pendingByMessage : p[2] = call
  BY <1>4, <1>5 DEF Waiting
<1>7. \A p \in pendingByMessage : p = <<transport[call], call>>
  BY <1>1, <1>5, <1>6
<1> QED BY <1>1, <1>2, <1>3, <1>7

LEMMA ApplyTools ==
  ASSUME TypeOK, ToolsInv, NEW q \in Senders, NEW m, ApplyToolResult(q, m)
  PROVE  ToolsInv'
<1>0. UNCHANGED <<pc, queue, results>>
  BY DEF ApplyToolResult, runnerVars, turnVars
<1>1. CASE RefuseResult(q, m)
  BY <1>0, <1>1, IdleStep DEF RefuseResult, Idles, sessionVars, toolVars
<1>2. CASE TakeMcpState(q, m)
  BY <1>0, <1>2, IdleStep DEF TakeMcpState, Idles, toolVars
<1>3. CASE TakeProgress(q, m)
  BY <1>0, <1>3, IdleStep DEF TakeProgress, Idles, toolVars
<1>4. CASE DispatchEditWrite(q, m)
  <2>1. PICK call \in Found(m) : StartEditWrite(call)
    BY <1>4 DEF DispatchEditWrite
  <2>2. call \in Calls /\ Waiting(call)
    BY FoundIsPending
  <2>3. ~done
    BY <1>4 DEF DispatchEditWrite, ResultRefused
  <2>4. pendingByMessage = {<<transport[call], call>>} /\ pendingByExec = pendingByMessage
    BY FoundIsPending
  <2>5. /\ pendingByMessage' = {<<lastID', call>>} /\ pendingByExec' = {<<lastID', call>>}
        /\ transport'[call] = lastID'
    BY <2>1, <2>2, <2>4 DEF StartEditWrite, Readdress, Without, TypeOK
  <2>6. PendingIndexesAgree' /\ TerminalHoldsNothing'
    BY <1>4, <2>3, <2>5 DEF DispatchEditWrite, PendingIndexesAgree, TerminalHoldsNothing, done
  <2>7. \A other : Waiting(other)' <=> Waiting(other)
    BY <2>4, <2>5 DEF Waiting
  <2>8. ResultTravelsOnce'
    BY <1>0, <1>4, <2>7 DEF DispatchEditWrite, ToolsInv, ResultTravelsOnce
  <2> QED BY <2>6, <2>8 DEF ToolsInv
<1>5. CASE CompleteTool(q, m)
  <2>1. PICK call \in Found(m) : RemovePending(call) /\ sending' = [sending EXCEPT ![q] = call]
    BY <1>5 DEF CompleteTool
  <2>2. call \in Calls /\ Waiting(call)
    BY FoundIsPending
  <2>3. ~done
    BY <1>5 DEF CompleteTool, ResultRefused
  <2>4. pendingByMessage = {<<transport[call], call>>} /\ pendingByExec = pendingByMessage
    BY FoundIsPending
  <2>5. pendingByMessage' = {} /\ pendingByExec' = {}
    BY <2>1, <2>4 DEF RemovePending, Without
  <2>6. PendingIndexesAgree' /\ TerminalHoldsNothing'
    BY <1>5, <2>3, <2>5 DEF CompleteTool, PendingIndexesAgree, TerminalHoldsNothing, done
  <2>7. \A other : ~Waiting(other)'
    BY <2>5 DEF Waiting
  <2>8. call \notin results /\ (\A other \in Senders : sending[other] # call)
        /\ queue # <<>> /\ call = Head(queue) /\ pc \in {"wait", "fail", "exit"}
    BY <2>2, SessionAssumption DEF ToolsInv, ResultTravelsOnce, SessionAssumption
  <2>9. \A other \in Senders : sending'[other] = IF other = q THEN call ELSE sending[other]
    BY <2>1 DEF TypeOK
  <2>10. ResultTravelsOnce'
    <3>1. \A other \in Senders : sending'[other] # None => sending'[other] \notin results'
      BY <1>0, <2>8, <2>9 DEF ToolsInv, ResultTravelsOnce
    <3>2. \A one \in Senders : sending'[one] # None =>
            \A other \in Senders \ {one} : sending'[other] # sending'[one]
      BY <2>8, <2>9 DEF ToolsInv, ResultTravelsOnce
    <3>3. \A other \in Calls :
             other \in results' \/ (\E one \in Senders : sending'[one] = other)
               => queue' # <<>> /\ other = Head(queue') /\ pc' \in {"wait", "fail", "exit"}
      BY <1>0, <2>8, <2>9 DEF ToolsInv, ResultTravelsOnce
    <3> QED BY <2>7, <3>1, <3>2, <3>3 DEF ResultTravelsOnce
  <2> QED BY <2>6, <2>10 DEF ToolsInv
<1> QED BY <1>1, <1>2, <1>3, <1>4, <1>5 DEF ApplyToolResult

LEMMA SenderTools ==
  ASSUME TypeOK, ToolsInv,
         \/ \E s \in DirectStreams : UploadResult(s) \/ EndUpload(s) \/ RejectUpload(s)
         \/ \E d \in Detached : MatchDetached(d) \/ ApplyDetached(d)
         \/ \E q \in Senders : SendResult(q) \/ AbandonResult(q)
  PROVE  ToolsInv'
<1> USE DEF Idles, sessionVars, toolVars, runnerVars, turnVars
<1>1. ASSUME NEW s \in DirectStreams, UploadResult(s) PROVE ToolsInv'
  BY <1>1, ApplyTools DEF UploadResult, Senders
<1>2. ASSUME NEW s \in DirectStreams, EndUpload(s) PROVE ToolsInv'
  BY <1>2, IdleStep DEF EndUpload
<1>3. ASSUME NEW s \in DirectStreams, RejectUpload(s) PROVE ToolsInv'
  BY <1>3, FinishIdles, IdleStep DEF RejectUpload
<1>4. ASSUME NEW d \in Detached, MatchDetached(d) PROVE ToolsInv'
  BY <1>4, IdleStep DEF MatchDetached
<1>5. ASSUME NEW d \in Detached, ApplyDetached(d) PROVE ToolsInv'
  BY <1>5, ApplyTools DEF ApplyDetached, Senders
<1>6. ASSUME NEW q \in Senders, SendResult(q) PROVE ToolsInv'
  <2>1. /\ UNCHANGED <<outcome, pendingByMessage, pendingByExec, transport, discovery, pc, queue>>
        /\ \A other \in Senders : sending'[other] = IF other = q THEN None ELSE sending[other]
    BY <1>6 DEF SendResult, TypeOK
  <2>2. CASE UNCHANGED results
    BY <2>1, <2>2, IdleStep
  <2>3. CASE sending[q] # None /\ results' = results \cup {sending[q]}
    <3>1. \A call : Waiting(call)' <=> Waiting(call)
      BY <2>1 DEF Waiting
    <3>2. sending[q] \in Calls
      BY <2>3 DEF TypeOK
    <3>3. \A other \in Senders : sending'[other] # None =>
             /\ sending'[other] \notin results' /\ ~Waiting(sending[other])'
             /\ \A third \in Senders \ {other} : sending'[third] # sending'[other]
      <4> SUFFICES ASSUME NEW other \in Senders, sending'[other] # None
                   PROVE  /\ sending'[other] \notin results' /\ ~Waiting(sending[other])'
                          /\ \A third \in Senders \ {other} : sending'[third] # sending'[other]
        OBVIOUS
      <4>1. other # q /\ sending'[other] = sending[other]
        BY <2>1
      <4>2. sending[other] \notin results /\ sending[other] # sending[q] /\ ~Waiting(sending[other])
        BY <4>1, <2>3 DEF ToolsInv, ResultTravelsOnce
      <4>3. ~Waiting(sending[other])'
        BY <3>1, <4>1, <4>2
      <4>4. \A third \in Senders \ {other} : sending'[third] # sending'[other]
        BY <2>1, <4>1 DEF ToolsInv, ResultTravelsOnce
      <4> QED BY <2>3, <4>1, <4>2, <4>3, <4>4
    <3>4. \A call \in results' : ~Waiting(call)'
      BY <2>3, <3>1 DEF ToolsInv, ResultTravelsOnce
    <3>5. \A call \in Calls :
             Waiting(call)' \/ call \in results' \/ (\E other \in Senders : sending'[other] = call)
               => queue' # <<>> /\ call = Head(queue') /\ pc' \in {"wait", "fail", "exit"}
      BY <2>1, <2>3, <3>1, <3>2, SessionAssumption DEF ToolsInv, ResultTravelsOnce, SessionAssumption
    <3>6. ResultTravelsOnce'
      BY <3>3, <3>4, <3>5 DEF ResultTravelsOnce
    <3> QED BY <2>1, <3>6 DEF ToolsInv, PendingIndexesAgree, TerminalHoldsNothing, done
  <2> QED BY <1>6, <2>2, <2>3 DEF SendResult
<1>7. ASSUME NEW q \in Senders, AbandonResult(q) PROVE ToolsInv'
  BY <1>7, IdleStep DEF AbandonResult, TypeOK
<1> QED BY <1>1, <1>2, <1>3, <1>4, <1>5, <1>6, <1>7

-----------------------------------------------------------------------------
(* The turn. A run is reported as successful or canceled by the runner      *)
(* only, as its last step, and it commits the turn only when nothing but    *)
(* reporting success is left to do.                                         *)
TurnInv ==
  /\ run = None => pc = "idle"
  /\ committed => pc \in {"ended", "exit"}
  /\ pc = "ended" => committed
  /\ outcome \in {"ok", "canceled"} => pc = "exit"
  /\ OutcomeMatchesHistory

(* Everything but the runner leaves the turn alone, or ends the session in  *)
(* another way.                                                             *)
LEMMA TurnKept ==
  ASSUME TurnInv, UNCHANGED <<run, pc, committed>>,
         outcome' \in {outcome, "failed", "invalid", "notAppended"}
  PROVE  TurnInv'
BY DEF TurnInv, OutcomeMatchesHistory

LEMMA StartTurn ==
  ASSUME TurnInv, NEW r \in Runs, Start(r)
  PROVE  TurnInv'
BY SessionAssumption DEF TurnInv, OutcomeMatchesHistory, Start, done, turnVars, SessionAssumption

LEMMA ExecuteTurn ==
  ASSUME TypeOK, TurnInv, Execute
  PROVE  TurnInv'
<1> USE DEF TurnInv, OutcomeMatchesHistory, sessionVars, turnVars, Goto, Fail
<1>1. CASE Enrich
  BY <1>1 DEF Enrich
<1>2. CASE ReceiveMcpState
  BY <1>2 DEF ReceiveMcpState
<1>3. CASE DiscoveryCanceled
  BY <1>3 DEF DiscoveryCanceled
<1>4. CASE DiscoveryTimeout
  BY <1>4 DEF DiscoveryTimeout
<1>5. CASE Precheck
  BY <1>5 DEF Precheck
<1>6. CASE AcquireConversation
  BY <1>6 DEF AcquireConversation
<1>7. CASE PublishDelta
  BY <1>7 DEF PublishDelta
<1>8. CASE EndPass
  BY <1>8 DEF EndPass
<1>9. CASE CommitTurn
  BY <1>9 DEF CommitTurn
<1>10. CASE RefuseTool
  BY <1>10 DEF RefuseTool
<1>11. CASE OpenTool
  BY <1>11 DEF OpenTool, InsertPending
<1>12. CASE ReceiveResult
  BY <1>12 DEF ReceiveResult
<1>13. CASE StopWaiting
  BY <1>13 DEF StopWaiting
<1>14. CASE FinishTurn
  BY <1>14 DEF FinishTurn, Finish, done
<1>15. CASE FinishFailure
  BY <1>15 DEF FinishFailure, Finish, done
<1> QED BY <1>1, <1>2, <1>3, <1>4, <1>5, <1>6, <1>7, <1>8, <1>9, <1>10, <1>11, <1>12, <1>13,
           <1>14, <1>15 DEF Execute, Proceed

LEMMA StreamTurn ==
  ASSUME TurnInv, NEW s \in Streams,
         Subscribe(s) \/ StreamLoop(s) \/ StartTimeout(s) \/ DropStream(s)
  PROVE  TurnInv'
<1>1. UNCHANGED <<run, pc, committed>>
  BY DEF StreamLoop, Subscribe, Snapshot, WriteSnapshot, Wake, Heartbeat, Unsubscribe, CancelRun,
         StartTimeout, DropStream, Finish, sessionVars, runnerVars, turnVars
<1>2. outcome' \in {outcome, "notAppended"}
  BY DEF StreamLoop, Subscribe, Snapshot, WriteSnapshot, Wake, Heartbeat, Unsubscribe, CancelRun,
         StartTimeout, DropStream, Finish, sessionVars
<1> QED BY <1>1, <1>2, TurnKept

LEMMA SenderTurn ==
  ASSUME TurnInv,
         \/ \E s \in DirectStreams : UploadResult(s) \/ EndUpload(s) \/ RejectUpload(s)
         \/ \E d \in Detached : MatchDetached(d) \/ ApplyDetached(d)
         \/ \E q \in Senders : SendResult(q) \/ AbandonResult(q)
  PROVE  TurnInv'
<1> USE TurnKept DEF sessionVars, runnerVars, turnVars
<1>1. ASSUME NEW q, NEW m, ApplyToolResult(q, m)
      PROVE  UNCHANGED <<run, pc, committed, outcome>>
  BY <1>1 DEF ApplyToolResult, RefuseResult, TakeMcpState, TakeProgress, DispatchEditWrite, CompleteTool
<1>2. ASSUME NEW s \in DirectStreams, UploadResult(s) \/ EndUpload(s) PROVE TurnInv'
  BY <1>1, <1>2 DEF UploadResult, EndUpload
<1>3. ASSUME NEW s \in DirectStreams, RejectUpload(s) PROVE TurnInv'
  BY <1>3 DEF RejectUpload, Finish
<1>4. ASSUME NEW d \in Detached, MatchDetached(d) \/ ApplyDetached(d) PROVE TurnInv'
  BY <1>1, <1>4 DEF MatchDetached, ApplyDetached
<1>5. ASSUME NEW q \in Senders, SendResult(q) \/ AbandonResult(q) PROVE TurnInv'
  BY <1>5 DEF SendResult, AbandonResult
<1> QED BY <1>2, <1>3, <1>4, <1>5

-----------------------------------------------------------------------------
(* The inductive invariant of the session. *)
IInv == TypeOK /\ QueueOK /\ ToolsInv /\ TurnInv

LEMMA InitIInv == Init => IInv
<1> SUFFICES ASSUME Init PROVE ToolsInv /\ TurnInv
  BY InitType DEF IInv
<1>1. ToolsInv
  <2>1. None \notin Calls
    BY SessionAssumption DEF SessionAssumption
  <2>2. pendingByMessage = {} /\ pendingByExec = {} /\ discovery = 0 /\ results = {}
    BY DEF Init
  <2>3. \A q \in Senders : sending[q] = None
    BY DEF Init
  <2> QED BY <2>1, <2>2, <2>3 DEF ToolsInv, PendingIndexesAgree, TerminalHoldsNothing,
             ResultTravelsOnce, Waiting
<1>2. TurnInv
  BY DEF Init, TurnInv, OutcomeMatchesHistory
<1> QED BY <1>1, <1>2

LEMMA StepIInv == IInv /\ [Next]_vars => IInv'
<1> SUFFICES ASSUME IInv, [Next]_vars PROVE ToolsInv' /\ TurnInv'
  BY TypeStep DEF IInv
<1> USE DEF IInv
<1>1. CASE CancelRoot
  <2>1. UNCHANGED <<outcome, pendingByMessage, pendingByExec, transport, discovery, results, sending,
                    pc, queue, run, committed>>
    BY <1>1 DEF CancelRoot, toolVars, runnerVars, turnVars, senderVars
  <2> QED BY <2>1, IdleStep, TurnKept DEF Idles
<1>2. ASSUME NEW r \in Runs, BidiAppend(r) PROVE ToolsInv' /\ TurnInv'
  BY <1>2, StartIdles, IdleStep, StartTurn DEF BidiAppend, senderVars, TurnInv
<1>3. CASE Execute /\ UNCHANGED <<streamVars, senderVars>>
  BY <1>3, ExecuteTools, ExecuteTurn
<1>4. ASSUME NEW s \in Streams, Subscribe(s) \/ StreamLoop(s) \/ StartTimeout(s) \/ DropStream(s)
      PROVE  ToolsInv' /\ TurnInv'
  BY <1>4, StreamTools, StreamTurn
<1>5. ASSUME NEW s \in DirectStreams, NEW r \in Runs, OpenDirectRun(s, r)
      PROVE  ToolsInv' /\ TurnInv'
  <2>1. CASE Start(r)
    BY <1>5, <2>1, StartIdles, IdleStep, StartTurn DEF OpenDirectRun, TurnInv
  <2>2. CASE UNCHANGED <<sessionVars, runnerVars>>
    <3>1. UNCHANGED <<outcome, pendingByMessage, pendingByExec, transport, discovery, results, sending,
                      pc, queue, run, committed>>
      BY <1>5, <2>2 DEF OpenDirectRun, sessionVars, toolVars, runnerVars, turnVars
    <3> QED BY <3>1, IdleStep, TurnKept DEF Idles
  <2> QED BY <1>5, <2>1, <2>2 DEF OpenDirectRun
<1>6. CASE \/ \E s \in DirectStreams : UploadResult(s) \/ EndUpload(s) \/ RejectUpload(s)
           \/ \E d \in Detached : MatchDetached(d) \/ ApplyDetached(d)
           \/ \E q \in Senders : SendResult(q) \/ AbandonResult(q)
  BY <1>6, SenderTools, SenderTurn
<1>7. CASE UNCHANGED vars
  <2>1. UNCHANGED <<outcome, pendingByMessage, pendingByExec, transport, discovery, results, sending,
                    pc, queue, run, committed>>
    BY <1>7 DEF vars, sessionVars, toolVars, runnerVars, turnVars, senderVars
  <2> QED BY <2>1, IdleStep, TurnKept DEF Idles
<1> QED BY <1>1, <1>2, <1>3, <1>4, <1>5, <1>6, <1>7 DEF Next

LEMMA Inductive == Spec => []IInv
BY InitIInv, StepIInv, PTL DEF Spec

(* The message and exec ID indexes of agent.go:798-801 and 990-996 agree,   *)
(* for any number of calls, passes and requests that bring results.         *)
THEOREM IndexesAgree == Spec => []PendingIndexesAgree
<1>1. IInv => PendingIndexesAgree
  BY DEF IInv, ToolsInv
<1> QED BY <1>1, Inductive, PTL

(* After finish (agent.go:1189-1205) no index and no discovery holds an     *)
(* entry, and none appears later.                                           *)
THEOREM TerminalSessionsAreEmpty == Spec => []TerminalHoldsNothing
<1>1. IInv => TerminalHoldsNothing
  BY DEF IInv, ToolsInv
<1> QED BY <1>1, Inductive, PTL

(* The result of a tool call is in one place on its way from the client to  *)
(* the runner (agent.go:1087-1099, runner.go:143-155).                      *)
THEOREM ResultsTravelOnce == Spec => []ResultTravelsOnce
<1>1. IInv => ResultTravelsOnce
  BY DEF IInv, ToolsInv
<1> QED BY <1>1, Inductive, PTL

(* The outcome a session reports and the conversation's history agree       *)
(* (runner.go:116-122, agent.go:337-352).                                   *)
THEOREM OutcomesMatchHistory == Spec => []OutcomeMatchesHistory
<1>1. IInv => OutcomeMatchesHistory
  BY DEF IInv, TurnInv
<1> QED BY <1>1, Inductive, PTL

-----------------------------------------------------------------------------
(* The log and its readers *)

(* A reader is never ahead of its snapshot, nor the snapshot of the log;    *)
(* a terminal snapshot is a snapshot of the whole log.                      *)
ReadersInv ==
  \A s \in Streams :
    /\ cursor[s] <= seen[s] /\ seen[s] <= Len(events)
    /\ phase[s] = "write" /\ seenDone[s] => done /\ seen[s] = Len(events)
    /\ phase[s] = "ended" => done

(* What a step may do to the log: grow while the session is open.           *)
LogGrows ==
  \/ done /\ UNCHANGED <<events, outcome>>
  \/ ~done /\ events' \in Seq(Events) /\ Log!Extends(events', events)

LEMMA AppendGrows ==
  ASSUME TypeOK, ~done, NEW new \in Seq(Events), events' = events \o new
  PROVE  LogGrows
<1>1. events \in Seq(Events)
  BY DEF TypeOK
<1> QED BY <1>1, ConcatProperties, LenProperties DEF LogGrows, Log!Extends

LEMMA SameLogGrows ==
  ASSUME TypeOK, UNCHANGED <<events, outcome>>
  PROVE  LogGrows
<1>1. events \in Seq(Events) /\ Len(events) \in Nat
  BY LenProperties DEF TypeOK
<1> QED BY <1>1 DEF LogGrows, Log!Extends

LEMMA FinishGrows ==
  ASSUME TypeOK, NEW code \in {"ok", "canceled", "failed", "invalid", "notAppended"},
         NEW last \in Seq(Events), Finish(code, last)
  PROVE  LogGrows
<1>1. CASE UNCHANGED <<events, outcome>>
  BY <1>1, SameLogGrows
<1>2. CASE ~done /\ events' = events \o last
  BY <1>2, AppendGrows
<1> QED BY <1>1, <1>2 DEF Finish, sessionVars, logVars

LEMMA ExecuteGrows ==
  ASSUME TypeOK, QueueOK, Execute
  PROVE  LogGrows
<1>1. CASE UNCHANGED <<events, outcome>>
  BY <1>1, SameLogGrows
<1>2. CASE Enrich /\ ~ UNCHANGED <<events, outcome>>
  <2>1. lastID' = lastID + 1 /\ ~done /\ AppendToLog(<<Event("mcpState", None, lastID')>>)
    BY <1>2 DEF Enrich, sessionVars, logVars
  <2>2. lastID' \in Nat
    BY <2>1 DEF TypeOK
  <2>3. <<Event("mcpState", None, lastID')>> \in Seq(Events)
    BY <2>2, EventType DEF EventKinds
  <2> QED BY <2>1, <2>3, AppendGrows DEF AppendToLog
<1>3. CASE PublishDelta /\ ~ UNCHANGED <<events, outcome>>
  <2>1. ~done /\ AppendToLog(<<Event("text", None, 0)>>)
    BY <1>3 DEF PublishDelta, sessionVars, logVars
  <2>2. <<Event("text", None, 0)>> \in Seq(Events)
    BY EventType DEF EventKinds
  <2> QED BY <2>1, <2>2, AppendGrows DEF AppendToLog
<1>4. CASE OpenTool
  <2> DEFINE call == Head(queue)  id == lastID + 1
             new == <<Event("exec", call, id), Event("started", call, 0)>>
  <2>1. call \in Calls /\ id \in Nat /\ ~done
    BY <1>4, HeadTailProperties DEF OpenTool, TypeOK, QueueOK
  <2>2. new \in Seq(Events)
    BY <2>1, EventType DEF EventKinds
  <2>3. events' = events \o new
    BY <1>4 DEF OpenTool, InsertPending, AppendToLog
  <2> QED BY <2>1, <2>2, <2>3, AppendGrows
<1>5. CASE FinishTurn
  <2>1. <<Event("turnEnded", None, 0)>> \in Seq(Events)
    BY EventType DEF EventKinds
  <2> QED BY <1>5, <2>1, FinishGrows DEF FinishTurn
<1>6. CASE FinishFailure
  BY <1>6, EmptySeq, FinishGrows DEF FinishFailure
<1> QED BY <1>1, <1>2, <1>3, <1>4, <1>5, <1>6 DEF Execute, Proceed, ReceiveMcpState,
           DiscoveryCanceled, DiscoveryTimeout, Precheck, AcquireConversation, EndPass, CommitTurn,
           RefuseTool, ReceiveResult, StopWaiting, sessionVars, logVars

LEMMA ApplyGrows ==
  ASSUME TypeOK, NEW q, NEW m, ApplyToolResult(q, m)
  PROVE  LogGrows
<1>1. CASE UNCHANGED <<events, outcome>>
  BY <1>1, SameLogGrows
<1>2. CASE TakeProgress(q, m) /\ ~ UNCHANGED <<events, outcome>>
  <2>1. PICK call \in Found(m) : AppendToLog(<<Event("progress", call, 0)>>)
    BY <1>2 DEF TakeProgress, logVars
  <2>2. <<Event("progress", call, 0)>> \in Seq(Events) /\ ~done
    BY <1>2, FoundCalls, EventType DEF EventKinds, TakeProgress, ResultRefused
  <2> QED BY <2>1, <2>2, AppendGrows DEF AppendToLog
<1>3. CASE DispatchEditWrite(q, m)
  <2>1. PICK call \in Found(m) : StartEditWrite(call)
    BY <1>3 DEF DispatchEditWrite
  <2>2. ~done /\ lastID' \in Nat /\ call \in Calls
    BY <1>3, <2>1, FoundCalls DEF DispatchEditWrite, ResultRefused, StartEditWrite, Readdress, TypeOK
  <2>3. <<Event("exec", call, lastID')>> \in Seq(Events)
    BY <2>2, EventType DEF EventKinds
  <2> QED BY <2>1, <2>2, <2>3, AppendGrows DEF StartEditWrite, Readdress, AppendToLog
<1>4. CASE CompleteTool(q, m)
  <2> DEFINE shown(call) == IF call \in ShellCalls /\ m.body = "ok"
                              THEN <<Event("progress", call, 0)>> ELSE <<>>
  <2>1. PICK call \in Found(m) : AppendToLog(shown(call) \o <<Event("completed", call, 0)>>)
    BY <1>4 DEF CompleteTool
  <2>2. ~done /\ call \in Calls
    BY <1>4, FoundCalls DEF CompleteTool, ResultRefused
  <2>3. <<Event("progress", call, 0)>> \in Seq(Events) /\ <<Event("completed", call, 0)>> \in Seq(Events)
    BY <2>2, EventType DEF EventKinds
  <2>4. shown(call) \in Seq(Events)
    BY <2>3, EmptySeq
  <2>5. shown(call) \o <<Event("completed", call, 0)>> \in Seq(Events)
    BY <2>3, <2>4, ConcatProperties
  <2> QED BY <2>1, <2>2, <2>5, AppendGrows DEF AppendToLog
<1> QED BY <1>1, <1>2, <1>3, <1>4 DEF ApplyToolResult, RefuseResult, TakeMcpState, TakeProgress,
           sessionVars, logVars

LEMMA NextGrows ==
  ASSUME TypeOK, QueueOK, [Next]_vars
  PROVE  LogGrows
<1> USE SameLogGrows DEF sessionVars, logVars
<1>1. CASE CancelRoot
  BY <1>1 DEF CancelRoot
<1>2. ASSUME NEW r \in Runs, BidiAppend(r) PROVE LogGrows
  BY <1>2 DEF BidiAppend, Start
<1>3. CASE Execute
  BY <1>3, ExecuteGrows
<1>4. ASSUME NEW s \in Streams, StartTimeout(s) PROVE LogGrows
  BY <1>4, EmptySeq, FinishGrows DEF StartTimeout
<1>5. ASSUME NEW s \in Streams, Subscribe(s) \/ StreamLoop(s) \/ DropStream(s) PROVE LogGrows
  BY <1>5 DEF StreamLoop, Subscribe, Snapshot, WriteSnapshot, Wake, Heartbeat, Unsubscribe, CancelRun,
              DropStream
<1>6. ASSUME NEW s \in DirectStreams, NEW r \in Runs, OpenDirectRun(s, r) PROVE LogGrows
  BY <1>6 DEF OpenDirectRun, Start
<1>7. ASSUME NEW s \in DirectStreams, UploadResult(s) \/ EndUpload(s) PROVE LogGrows
  BY <1>7, ApplyGrows DEF UploadResult, EndUpload
<1>8. ASSUME NEW s \in DirectStreams, RejectUpload(s) PROVE LogGrows
  BY <1>8, EmptySeq, FinishGrows DEF RejectUpload
<1>9. ASSUME NEW d \in Detached, MatchDetached(d) \/ ApplyDetached(d) PROVE LogGrows
  BY <1>9, ApplyGrows DEF MatchDetached, ApplyDetached
<1>10. ASSUME NEW q \in Senders, SendResult(q) \/ AbandonResult(q) PROVE LogGrows
  BY <1>10 DEF SendResult, AbandonResult
<1>11. CASE UNCHANGED vars
  BY <1>11 DEF vars
<1> QED BY <1>1, <1>2, <1>3, <1>4, <1>5, <1>6, <1>7, <1>8, <1>9, <1>10, <1>11 DEF Next

Ended == {s \in Streams : phase[s] \in {"ended", "finished"}}

(* A step that reads nothing from the log: readers stay where they are.     *)
LEMMA ReadersKept ==
  ASSUME TypeOK, ReadersInv, LogGrows, UNCHANGED <<cursor, seen, seenDone>>,
         \A s \in Streams : phase'[s] # phase[s] => phase'[s] \notin {"write", "ended"},
         Ended' = Ended
  PROVE  ReadersInv' /\ [Log!Next]_Log!vars
<1>1. events \in Seq(Events) /\ Len(events) \in Nat
  BY LenProperties DEF TypeOK
<1>2. Len(events) <= Len(events')
  BY <1>1 DEF LogGrows, Log!Extends
<1>3. Len(events') \in Nat
  BY <1>1, LenProperties DEF LogGrows
<1>4. ReadersInv'
  <2> SUFFICES ASSUME NEW s \in Streams
               PROVE  /\ cursor'[s] <= seen'[s] /\ seen'[s] <= Len(events')
                      /\ phase'[s] = "write" /\ seenDone'[s] => done' /\ seen'[s] = Len(events')
                      /\ phase'[s] = "ended" => done'
    BY DEF ReadersInv
  <2>1. cursor[s] <= seen[s] /\ seen[s] <= Len(events) /\ seen[s] \in Nat
    BY DEF ReadersInv, TypeOK
  <2>2. phase'[s] = "write" /\ seenDone'[s] => done' /\ seen'[s] = Len(events')
    BY DEF ReadersInv, LogGrows, done
  <2>3. phase'[s] = "ended" => done'
    BY DEF ReadersInv, LogGrows, done
  <2> QED BY <1>1, <1>2, <1>3, <2>1, <2>2, <2>3
<1>5. Log!Publish \/ UNCHANGED Log!vars
  BY DEF LogGrows, Log!Publish, Log!vars, done, Ended
<1> QED BY <1>4, <1>5 DEF Log!Next

(* A stream is given part of its snapshot, and the end envelope only after  *)
(* a terminal one.                                                          *)
LEMMA ReadStep ==
  ASSUME TypeOK, ReadersInv, NEW s \in Streams, NEW n \in cursor[s]..seen[s], NEW next,
         phase[s] = "write", UNCHANGED <<events, outcome, seen, seenDone>>,
         cursor' = [cursor EXCEPT ![s] = n], phase' = [phase EXCEPT ![s] = next],
         next \in {"select", "dropped"} \/ (next = "ended" /\ seenDone[s] /\ n = seen[s])
  PROVE  ReadersInv' /\ [Log!Next]_Log!vars
<1>1. cursor[s] \in Nat /\ seen[s] \in Nat /\ Len(events) \in Nat /\ n \in Nat
  BY LenProperties DEF TypeOK
<1>2. ReadersInv'
  <2>1. next # "write"
    OBVIOUS
  <2> QED BY <1>1, <2>1 DEF ReadersInv, TypeOK, done
<1>3. s \notin Ended /\ Ended' = IF next = "ended" THEN Ended \cup {s} ELSE Ended
  BY DEF Ended, TypeOK
<1>4. seen[s] <= Len(events) /\ (seenDone[s] => done /\ seen[s] = Len(events))
  BY DEF ReadersInv
<1>5. cursor'[s] = n /\ n \in cursor[s]..Len(events)
  BY <1>1, <1>4 DEF TypeOK
<1>6. Log!Read(s)
  BY <1>3, <1>4, <1>5 DEF Log!Read, Ended, done
<1> QED BY <1>2, <1>6 DEF Log!Next

LEMMA ReadersStep == IInv /\ ReadersInv /\ [Next]_vars => ReadersInv' /\ [Log!Next]_Log!vars
<1> SUFFICES ASSUME IInv, ReadersInv, [Next]_vars PROVE ReadersInv' /\ [Log!Next]_Log!vars
  OBVIOUS
<1>1. TypeOK /\ QueueOK /\ LogGrows
  BY NextGrows DEF IInv
<1>2. CASE UNCHANGED streamVars
  BY <1>1, <1>2, ReadersKept DEF streamVars, Ended
<1>3. ASSUME NEW s \in Streams,
             Subscribe(s) \/ Wake(s) \/ Heartbeat(s) \/ Unsubscribe(s) \/ CancelRun(s) \/ StartTimeout(s)
      PROVE  ReadersInv' /\ [Log!Next]_Log!vars
  <2>1. UNCHANGED <<cursor, seen, seenDone>>
    BY <1>3 DEF Subscribe, Wake, Heartbeat, Unsubscribe, CancelRun, StartTimeout
  <2>2. /\ phase'[s] \notin {"write", "ended"} /\ \A t \in Streams \ {s} : phase'[t] = phase[t]
        /\ phase'[s] \in {"ended", "finished"} <=> phase[s] \in {"ended", "finished"}
    <3> USE <1>1 DEF TypeOK
    <3>1. CASE Subscribe(s)
      BY <3>1 DEF Subscribe
    <3>2. CASE Wake(s) \/ Heartbeat(s)
      BY <3>2 DEF Wake, Heartbeat
    <3>3. CASE Unsubscribe(s)
      BY <3>3 DEF Unsubscribe, ReadersInv
    <3>4. CASE CancelRun(s)
      BY <3>4 DEF CancelRun
    <3>5. CASE StartTimeout(s)
      BY <3>5 DEF StartTimeout
    <3> QED BY <1>3, <3>1, <3>2, <3>3, <3>4, <3>5
  <2>3. Ended' = Ended /\ \A t \in Streams : phase'[t] # phase[t] => phase'[t] \notin {"write", "ended"}
    BY <2>2 DEF Ended
  <2> QED BY <1>1, <2>1, <2>3, ReadersKept
<1>4. ASSUME NEW s \in Streams, Snapshot(s) PROVE ReadersInv' /\ [Log!Next]_Log!vars
  <2>1. UNCHANGED <<events, outcome, cursor>>
    BY <1>4 DEF Snapshot, sessionVars, logVars
  <2>2. Ended' = Ended
    BY <1>1, <1>4 DEF Snapshot, Ended, TypeOK
  <2>3. Len(events) \in Nat
    BY <1>1, LenProperties DEF TypeOK
  <2>4. ReadersInv'
    <3> SUFFICES ASSUME NEW t \in Streams
                 PROVE  /\ cursor'[t] <= seen'[t] /\ seen'[t] <= Len(events')
                        /\ phase'[t] = "write" /\ seenDone'[t] => done' /\ seen'[t] = Len(events')
                        /\ phase'[t] = "ended" => done'
      BY DEF ReadersInv
    <3>1. cursor[t] \in Nat /\ seen[t] \in Nat /\ cursor[t] <= seen[t] /\ seen[t] <= Len(events)
      BY <1>1 DEF ReadersInv, TypeOK
    <3>2. CASE t = s
      <4>1. seen'[t] = Len(events) /\ seenDone'[t] = done
        BY <1>1, <1>4, <3>2, Zenon DEF Snapshot, TypeOK
      <4>2. seenDone'[t] => done'
        BY <2>1, <4>1, Zenon DEF done
      <4>3. cursor'[t] <= seen'[t] /\ seen'[t] <= Len(events') /\ seen'[t] = Len(events')
        BY <2>1, <2>3, <3>1, <4>1
      <4>4. phase'[t] = "write"
        BY <1>1, <1>4, <3>2 DEF Snapshot, TypeOK
      <4> QED BY <4>2, <4>3, <4>4
    <3>3. CASE t # s
      <4>1. seen'[t] = seen[t] /\ seenDone'[t] = seenDone[t] /\ phase'[t] = phase[t]
        BY <1>1, <1>4, <3>3, Zenon DEF Snapshot, TypeOK
      <4> QED BY <2>1, <3>1, <4>1 DEF done, ReadersInv
    <3> QED BY <3>2, <3>3
  <2>5. UNCHANGED Log!vars
    BY <2>1, <2>2 DEF Log!vars, Ended
  <2> QED BY <2>4, <2>5
<1>5. ASSUME NEW s \in Streams, WriteSnapshot(s) PROVE ReadersInv' /\ [Log!Next]_Log!vars
  <2>1. seen[s] \in cursor[s]..seen[s]
    BY <1>1 DEF ReadersInv, TypeOK
  <2> QED BY <1>1, <1>5, <2>1, ReadStep DEF WriteSnapshot, sessionVars, logVars
<1>6. ASSUME NEW s \in Streams, DropStream(s) PROVE ReadersInv' /\ [Log!Next]_Log!vars
  <2>1. CASE phase[s] = "select" /\ UNCHANGED cursor
    <3>1. Ended' = Ended /\ \A t \in Streams : phase'[t] # phase[t] => phase'[t] \notin {"write", "ended"}
      BY <1>1, <1>6, <2>1 DEF DropStream, Ended, TypeOK
    <3> QED BY <1>1, <1>6, <2>1, <3>1, ReadersKept DEF DropStream
  <2>2. CASE phase[s] = "write" /\ \E n \in cursor[s]..seen[s] : cursor' = [cursor EXCEPT ![s] = n]
    BY <1>1, <1>6, <2>2, ReadStep DEF DropStream, sessionVars, logVars
  <2> QED BY <1>6, <2>1, <2>2 DEF DropStream
<1>7. ASSUME NEW s \in DirectStreams, NEW r \in Runs, OpenDirectRun(s, r)
      PROVE  ReadersInv' /\ [Log!Next]_Log!vars
  <2>1. UNCHANGED <<cursor, seen, seenDone>>
    BY <1>7 DEF OpenDirectRun
  <2>2. Ended' = Ended /\ \A t \in Streams : phase'[t] # phase[t] => phase'[t] \notin {"write", "ended"}
    BY <1>1, <1>7 DEF OpenDirectRun, Ended, TypeOK
  <2> QED BY <1>1, <2>1, <2>2, ReadersKept
<1> QED BY <1>2, <1>3, <1>4, <1>5, <1>6, <1>7 DEF Next, StreamLoop, CancelRoot, BidiAppend,
           UploadResult, EndUpload, RejectUpload, MatchDetached, ApplyDetached, ApplyToolResult,
           SendResult, AbandonResult, vars

(* Whatever is lost, dropped or reconnected, every stream is given a prefix *)
(* of one log that only grows, and the end envelope after all of it         *)
(* (agent.go:413-473, 1223-1236).                                           *)
THEOREM SessionImplementsLog == Spec => ImplementsRunLog
<1>1. Init => Log!Init /\ ReadersInv
  <2> SUFFICES ASSUME Init PROVE Log!Init /\ ReadersInv
    OBVIOUS
  <2>1. Log!Init
    BY DEF Init, Log!Init
  <2>2. Len(events) = 0 /\ \A s \in Streams : cursor[s] = 0 /\ seen[s] = 0 /\ phase[s] = "idle"
    BY EmptySeq DEF Init
  <2> QED BY <2>1, <2>2 DEF ReadersInv
<1>2. IInv /\ ReadersInv /\ [Next]_vars => ReadersInv' /\ [Log!Next]_Log!vars
  BY ReadersStep
<1> QED BY <1>1, <1>2, Inductive, PTL DEF Spec, ImplementsRunLog, Log!Spec

-----------------------------------------------------------------------------
(* Subscribers *)

Served == {s \in Streams : Subscribed(s)}

LEMMA ServedFinite == IsFiniteSet(Served) /\ Cardinality(Served) \in Nat
<1>1. IsFiniteSet(Streams)
  BY SessionAssumption DEF SessionAssumption
<1>2. IsFiniteSet(Served)
  BY <1>1, FS_Subset DEF Served
<1> QED BY <1>2, FS_CardinalityType

LEMMA CountStep ==
  TypeOK /\ SubscribersCounted /\ [Next]_vars => SubscribersCounted'
<1> SUFFICES ASSUME TypeOK, SubscribersCounted, [Next]_vars
             PROVE  subscribers' = Cardinality(Served')
  BY DEF SubscribersCounted, Served
<1>0. subscribers = Cardinality(Served)
  BY DEF SubscribersCounted, Served
<1>1. CASE Served' = Served /\ UNCHANGED subscribers
  BY <1>0, <1>1
<1>2. ASSUME NEW s \in Streams, Subscribe(s) PROVE subscribers' = Cardinality(Served')
  <2>1. s \notin Served /\ Served' = Served \cup {s}
    BY <1>2 DEF Subscribe, Served, Subscribed, TypeOK
  <2>2. Cardinality(Served') = Cardinality(Served) + 1
    BY <2>1, ServedFinite, FS_AddElement
  <2> QED BY <1>0, <1>2, <2>2 DEF Subscribe
<1>3. ASSUME NEW s \in Streams, Unsubscribe(s) PROVE subscribers' = Cardinality(Served')
  <2>1. s \in Served /\ Served' = Served \ {s}
    BY <1>3 DEF Unsubscribe, Served, Subscribed, TypeOK
  <2>2. Cardinality(Served') = Cardinality(Served) - 1 /\ IsFiniteSet(Served')
    BY <2>1, ServedFinite, FS_RemoveElement
  <2>3. Cardinality(Served') \in Nat
    BY <2>2, FS_CardinalityType
  <2>4. subscribers > 0
    BY <1>0, <2>2, <2>3, ServedFinite
  <2> QED BY <1>0, <1>3, <2>2, <2>4 DEF Unsubscribe
<1>4. ASSUME NEW s \in Streams,
             Snapshot(s) \/ WriteSnapshot(s) \/ Wake(s) \/ Heartbeat(s) \/ CancelRun(s)
               \/ StartTimeout(s) \/ DropStream(s)
      PROVE  Served' = Served /\ UNCHANGED subscribers
  <2>1. UNCHANGED subscribers
    BY <1>4 DEF Snapshot, WriteSnapshot, Wake, Heartbeat, CancelRun, StartTimeout, DropStream, Finish,
                sessionVars
  <2>2. \A t \in Streams : Subscribed(t)' <=> Subscribed(t)
    BY <1>4 DEF Snapshot, WriteSnapshot, Wake, Heartbeat, CancelRun, StartTimeout, DropStream,
                Subscribed, TypeOK
  <2> QED BY <2>1, <2>2 DEF Served
<1>5. ASSUME NEW s \in DirectStreams, NEW r \in Runs, OpenDirectRun(s, r)
      PROVE  Served' = Served /\ UNCHANGED subscribers
  <2>1. UNCHANGED subscribers
    BY <1>5 DEF OpenDirectRun, Start, sessionVars
  <2>2. \A t \in Streams : Subscribed(t)' <=> Subscribed(t)
    BY <1>5 DEF OpenDirectRun, Subscribed, TypeOK
  <2> QED BY <2>1, <2>2 DEF Served
<1>6. CASE UNCHANGED <<streamVars, subscribers>>
  <2>1. \A t \in Streams : Subscribed(t)' <=> Subscribed(t)
    BY <1>6 DEF Subscribed, streamVars
  <2> QED BY <1>1, <1>6, <2>1 DEF Served
<1>7. ASSUME Execute, UNCHANGED <<streamVars, senderVars>> PROVE UNCHANGED subscribers
  BY <1>7 DEF Execute, Proceed, Enrich, ReceiveMcpState, DiscoveryCanceled, DiscoveryTimeout, Precheck,
     AcquireConversation, PublishDelta, EndPass, CommitTurn, RefuseTool, OpenTool, InsertPending,
     ReceiveResult, StopWaiting, FinishTurn, FinishFailure, Finish, sessionVars
<1>8. ASSUME NEW q, NEW m, ApplyToolResult(q, m) PROVE UNCHANGED <<streamVars, subscribers>>
  BY <1>8 DEF ApplyToolResult, RefuseResult, TakeMcpState, TakeProgress, DispatchEditWrite,
     CompleteTool, sessionVars
<1>9. CASE \/ \E s \in DirectStreams : UploadResult(s) \/ EndUpload(s) \/ RejectUpload(s)
           \/ \E d \in Detached : MatchDetached(d) \/ ApplyDetached(d)
           \/ \E q \in Senders : SendResult(q) \/ AbandonResult(q)
  BY <1>6, <1>8, <1>9 DEF UploadResult, EndUpload, RejectUpload, Finish, MatchDetached, ApplyDetached,
     SendResult, AbandonResult, sessionVars
<1>10. CASE CancelRoot \/ \E r \in Runs : BidiAppend(r)
  BY <1>6, <1>10 DEF CancelRoot, BidiAppend, Start
<1>11. CASE UNCHANGED vars
  BY <1>6, <1>11 DEF vars, sessionVars
<1> QED BY <1>1, <1>2, <1>3, <1>4, <1>5, <1>6, <1>7, <1>9, <1>10, <1>11 DEF Next, StreamLoop

(* subscribe and unsubscribe (agent.go:1242-1261) count the streams being   *)
(* served, however many come and go.                                        *)
THEOREM SubscribersAreCounted == Spec => []SubscribersCounted
<1>1. Init => SubscribersCounted
  <2> SUFFICES ASSUME Init PROVE subscribers = Cardinality(Served)
    BY DEF SubscribersCounted, Served
  <2>1. Served = {}
    BY DEF Init, Served, Subscribed
  <2> QED BY <2>1, FS_EmptySet DEF Init
<1>2. TypeOK /\ SubscribersCounted /\ [Next]_vars => SubscribersCounted'
  BY CountStep
<1> QED BY <1>1, <1>2, TypeCorrect, PTL DEF Spec

-----------------------------------------------------------------------------
(* How often each event of a call is in the log *)

At(s, kind, call) == {i \in DOMAIN s : s[i].kind = kind /\ s[i].call = call}
Count(kind, call) == Cardinality(Occurs(kind, call))
One(e, kind, call) == IF e.kind = kind /\ e.call = call THEN 1 ELSE 0

LEMMA AtFinite ==
  ASSUME NEW s \in Seq(Events), NEW kind, NEW call
  PROVE  IsFiniteSet(At(s, kind, call)) /\ Cardinality(At(s, kind, call)) \in Nat
<1>1. At(s, kind, call) \subseteq 1..Len(s) /\ Len(s) \in Nat
  BY LenProperties DEF At
<1>2. IsFiniteSet(1..Len(s))
  BY <1>1, FS_Interval
<1>3. IsFiniteSet(At(s, kind, call))
  BY <1>1, <1>2, FS_Subset
<1> QED BY <1>3, FS_CardinalityType

LEMMA AtAppend ==
  ASSUME NEW s \in Seq(Events), NEW e \in Events, NEW kind, NEW call
  PROVE  Cardinality(At(s \o <<e>>, kind, call)) = Cardinality(At(s, kind, call)) + One(e, kind, call)
<1> DEFINE t == s \o <<e>>  n == Len(s)
<1>1. <<e>> \in Seq(Events) /\ Len(<<e>>) = 1 /\ <<e>>[1] = e
  OBVIOUS
<1>2. n \in Nat /\ DOMAIN s = 1..n
  BY LenProperties
<1>3. /\ t \in Seq(Events) /\ Len(t) = n + 1
      /\ \A i \in 1..(n + 1) : t[i] = IF i <= n THEN s[i] ELSE <<e>>[i - n]
  BY <1>1, ConcatProperties
<1>4. DOMAIN t = 1..(n + 1) /\ t[n + 1] = e /\ \A i \in 1..n : t[i] = s[i]
  BY <1>1, <1>2, <1>3, LenProperties
<1>5. n + 1 \notin At(s, kind, call)
  BY <1>2 DEF At
<1>6. CASE e.kind = kind /\ e.call = call
  <2>1. At(t, kind, call) = At(s, kind, call) \cup {n + 1}
    BY <1>2, <1>4, <1>6 DEF At
  <2> QED BY <1>5, <1>6, <2>1, AtFinite, FS_AddElement DEF One
<1>7. CASE ~(e.kind = kind /\ e.call = call)
  <2>1. At(t, kind, call) = At(s, kind, call)
    BY <1>2, <1>4, <1>7 DEF At
  <2> QED BY <1>7, <2>1, AtFinite DEF One
<1> QED BY <1>6, <1>7

LEMMA PairOf ==
  ASSUME NEW d \in Events, NEW e \in Events
  PROVE  <<d>> \o <<e>> = <<d, e>>
<1> DEFINE t == <<d>> \o <<e>>  u == <<d, e>>
<1>1. /\ <<d>> \in Seq(Events) /\ Len(<<d>>) = 1 /\ <<d>>[1] = d
      /\ <<e>> \in Seq(Events) /\ Len(<<e>>) = 1 /\ <<e>>[1] = e
      /\ u \in Seq(Events) /\ Len(u) = 2 /\ u[1] = d /\ u[2] = e
  OBVIOUS
<1>2. /\ t \in Seq(Events) /\ Len(t) = 2
      /\ \A i \in 1..2 : t[i] = IF i <= 1 THEN <<d>>[i] ELSE <<e>>[i - 1]
  BY <1>1, ConcatProperties
<1>3. t[1] = u[1] /\ t[2] = u[2]
  BY <1>1, <1>2
<1> HIDE DEF t, u
<1>4. \A i \in 1..Len(t) : t[i] = u[i]
  BY <1>2, <1>3
<1> QED BY <1>1, <1>2, <1>4, SeqEqual DEF t, u

LEMMA AtAppendTwo ==
  ASSUME NEW s \in Seq(Events), NEW d \in Events, NEW e \in Events, NEW kind, NEW call
  PROVE  Cardinality(At(s \o <<d, e>>, kind, call))
           = Cardinality(At(s, kind, call)) + One(d, kind, call) + One(e, kind, call)
<1> DEFINE t == s \o <<d>>
<1>1. <<d>> \in Seq(Events) /\ <<e>> \in Seq(Events)
  OBVIOUS
<1>2. t \in Seq(Events)
  BY <1>1, ConcatProperties
<1>3. s \o <<d, e>> = t \o <<e>>
  <2>1. t \o <<e>> = s \o (<<d>> \o <<e>>)
    BY <1>1, ConcatAssociative
  <2>2. <<d>> \o <<e>> = <<d, e>>
    BY PairOf
  <2> QED BY <2>1, <2>2
<1>4. Cardinality(At(t \o <<e>>, kind, call)) = Cardinality(At(t, kind, call)) + One(e, kind, call)
  <2> HIDE DEF t
  <2> QED BY <1>2, AtAppend
<1> QED BY <1>2, <1>3, <1>4, AtAppend

(* The same of the log, before and after a step. *)
LEMMA Counted ==
  ASSUME TypeOK
  PROVE  /\ \A kind, call : Count(kind, call) = Cardinality(At(events, kind, call))
         /\ \A kind, call : Count(kind, call)' = Cardinality(At(events', kind, call))
         /\ \A kind, call : Count(kind, call) \in Nat
<1>1. \A kind, call : Occurs(kind, call) = At(events, kind, call)
  BY DEF Occurs, At
<1>2. \A kind, call : Occurs(kind, call)' = At(events', kind, call)
  BY DEF Occurs, At
<1> QED BY <1>1, <1>2, AtFinite DEF TypeOK, Count

LEMMA CountSame ==
  ASSUME TypeOK, events' = events
  PROVE  \A kind, call : Count(kind, call)' = Count(kind, call)
BY Counted

LEMMA CountOne ==
  ASSUME TypeOK, NEW e \in Events, events' = events \o <<e>>
  PROVE  \A kind, call : Count(kind, call)' = Count(kind, call) + One(e, kind, call)
BY Counted, AtAppend DEF TypeOK

LEMMA CountTwo ==
  ASSUME TypeOK, NEW d \in Events, NEW e \in Events, events' = events \o <<d, e>>
  PROVE  \A kind, call : Count(kind, call)' = Count(kind, call) + One(d, kind, call) + One(e, kind, call)
BY Counted, AtAppendTwo DEF TypeOK

-----------------------------------------------------------------------------
(* The log, and what a call that is shown as started still needs.           *)
Unanswered == {"wait", "fail", "exit"}
InFlight(call) == call \in results \/ \E q \in Senders : sending[q] = call

CallLog(call) ==
  /\ call \notin delivered =>
       Count("started", call) = 0 /\ Count("exec", call) = 0 /\ Count("completed", call) = 0
  /\ call \in delivered => Count("started", call) = 1
  /\ Count("completed", call) <= 1
  /\ Count("exec", call) <= IF call \in EditCalls THEN 2 ELSE 1
  /\ Waiting(call) =>
       /\ call \in delivered /\ Count("completed", call) = 0
       /\ editPhase[call] = "read" => Count("exec", call) = 1
  /\ InFlight(call) => Count("completed", call) = 1
  /\ call \in delivered /\ Count("completed", call) = 0 =>
       queue # <<>> /\ call = Head(queue) /\ pc \in Unanswered /\ outcome # "ok"
EndIsLast ==
  \A i \in DOMAIN events : events[i].kind = "turnEnded" => i = Len(events) /\ outcome = "ok"
LogInv == EndIsLast /\ \A call \in Calls : CallLog(call)

LEMMA LogInvSuffices ==
  ASSUME TypeOK, LogInv
  PROVE  LogIsWellFormed
<1>1. ASSUME NEW call \in Calls
      PROVE  /\ Count("started", call) <= 1
             /\ Count("completed", call) <= Count("started", call)
             /\ Count("exec", call) <= IF call \in EditCalls THEN 2 ELSE 1
             /\ outcome = "ok" => Count("completed", call) = Count("started", call)
  <2>1. CallLog(call) /\ Count("started", call) \in Nat /\ Count("completed", call) \in Nat
    BY Counted DEF LogInv
  <2> QED BY <2>1 DEF CallLog
<1> QED BY <1>1 DEF LogIsWellFormed, LogInv, EndIsLast, Count

(* A step that appends at most one event that says nothing of a call's      *)
(* start, execution or completion, and opens, answers and carries no result.*)
Quiet ==
  /\ \/ events' = events
     \/ /\ ~done
        /\ \E e \in Events : e.kind \in {"text", "mcpState", "progress"} /\ events' = events \o <<e>>
  /\ outcome' = outcome \/ (~done /\ outcome' # "ok")
  /\ UNCHANGED <<delivered, editPhase>>
  /\ pendingByMessage' \subseteq pendingByMessage
  /\ \A call \in Calls : InFlight(call)' => InFlight(call)
  /\ pc \in Unanswered => pc' \in Unanswered /\ queue' = queue

LEMMA EndKept ==
  ASSUME TypeOK, EndIsLast,
         \/ events' = events /\ (outcome' = outcome \/ ~done)
         \/ ~done /\ \E e \in Events : e.kind # "turnEnded" /\ events' = events \o <<e>>
         \/ ~done /\ \E d, e \in Events : d.kind # "turnEnded" /\ e.kind # "turnEnded" /\ events' = events \o <<d, e>>
  PROVE  EndIsLast'
<1>1. CASE events' = events /\ outcome' = outcome
  BY <1>1 DEF EndIsLast
<1>2. ASSUME ~done PROVE \A i \in DOMAIN events : events[i].kind # "turnEnded"
  BY <1>2 DEF EndIsLast, done
<1>3. ASSUME ~done, NEW new \in Seq(Events), events' = events \o new,
             \A i \in 1..Len(new) : new[i].kind # "turnEnded"
      PROVE  EndIsLast'
  <2>1. /\ events \in Seq(Events) /\ Len(events) \in Nat /\ DOMAIN events = 1..Len(events)
        /\ Len(new) \in Nat
    BY LenProperties DEF TypeOK
  <2>2. /\ events' \in Seq(Events) /\ DOMAIN events' = 1..(Len(events) + Len(new))
        /\ \A i \in 1..(Len(events) + Len(new)) :
             events'[i] = IF i <= Len(events) THEN events[i] ELSE new[i - Len(events)]
    <3>1. /\ events' \in Seq(Events) /\ Len(events') = Len(events) + Len(new)
          /\ \A i \in 1..(Len(events) + Len(new)) :
               events'[i] = IF i <= Len(events) THEN events[i] ELSE new[i - Len(events)]
      BY <1>3, <2>1, ConcatProperties
    <3>2. DOMAIN events' = 1..Len(events')
      BY <3>1, LenProperties
    <3> QED BY <3>1, <3>2
  <2>3. ASSUME NEW i \in DOMAIN events' PROVE events'[i].kind # "turnEnded"
    <3>1. CASE i <= Len(events)
      <4>1. i \in 1..(Len(events) + Len(new)) /\ events'[i] = events[i] /\ i \in DOMAIN events
        BY <2>1, <2>2, <2>3, <3>1
      <4> QED BY <1>2, <1>3, <4>1
    <3>2. CASE ~(i <= Len(events))
      <4>1. i - Len(events) \in 1..Len(new)
        BY <2>1, <2>2, <3>2
      <4> QED BY <1>3, <2>2, <3>2, <4>1
    <3> QED BY <3>1, <3>2
  <2> QED BY <2>3 DEF EndIsLast
<1>4. CASE events' = events /\ ~done
  BY <1>2, <1>4 DEF EndIsLast
<1>5. ASSUME ~done, NEW e \in Events, e.kind # "turnEnded", events' = events \o <<e>>
      PROVE  EndIsLast'
  <2>1. <<e>> \in Seq(Events) /\ Len(<<e>>) = 1 /\ <<e>>[1] = e
    OBVIOUS
  <2>2. \A i \in 1..Len(<<e>>) : <<e>>[i].kind # "turnEnded"
    BY <1>5, <2>1
  <2> QED BY <1>3, <1>5, <2>1, <2>2
<1>6. ASSUME ~done, NEW d \in Events, NEW e \in Events, d.kind # "turnEnded", e.kind # "turnEnded",
             events' = events \o <<d, e>>
      PROVE  EndIsLast'
  <2>1. /\ <<d, e>> \in Seq(Events) /\ Len(<<d, e>>) = 2 /\ <<d, e>>[1] = d /\ <<d, e>>[2] = e
    OBVIOUS
  <2>2. \A i \in 1..Len(<<d, e>>) : <<d, e>>[i].kind # "turnEnded"
    BY <1>6, <2>1
  <2> QED BY <1>3, <1>6, <2>1, <2>2
<1> QED BY <1>1, <1>4, <1>5, <1>6

LEMMA QuietStep ==
  ASSUME TypeOK, LogInv, Quiet
  PROVE  LogInv'
<1>1. \A kind \in {"started", "exec", "completed"} : \A call : Count(kind, call)' = Count(kind, call)
  <2>1. CASE events' = events
    BY <2>1, CountSame
  <2>2. ASSUME NEW e \in Events, e.kind \in {"text", "mcpState", "progress"}, events' = events \o <<e>>
        PROVE  \A kind \in {"started", "exec", "completed"} : \A call : Count(kind, call)' = Count(kind, call)
    <3>1. \A kind \in {"started", "exec", "completed"} : \A call : One(e, kind, call) = 0
      BY <2>2 DEF One
    <3> QED BY <2>2, <3>1, CountOne, Counted
  <2> QED BY <2>1, <2>2 DEF Quiet
<1>2. \A call : Waiting(call)' => Waiting(call)
  BY DEF Quiet, Waiting
<1>3. EndIsLast'
  BY EndKept DEF Quiet, LogInv
<1>4. ASSUME NEW call \in Calls PROVE CallLog(call)'
  <2>1. CallLog(call) /\ outcome' = "ok" => outcome = "ok"
    BY DEF LogInv, Quiet
  <2> QED BY <1>1, <1>2, <2>1 DEF CallLog, Quiet, LogInv
<1> QED BY <1>3, <1>4 DEF LogInv

(* A quiet step that changes neither the log nor the outcome, or finishes   *)
(* the session other than by success.                                       *)
Silent ==
  /\ UNCHANGED <<delivered, editPhase, results>>
  /\ \A q \in Senders : sending'[q] \in {sending[q], None}
  /\ pc \in Unanswered => pc' \in Unanswered /\ queue' = queue

LEMMA SilentFlight ==
  ASSUME Silent
  PROVE  \A call \in Calls : InFlight(call)' => InFlight(call)
<1>1. None \notin Calls
  BY SessionAssumption DEF SessionAssumption
<1> QED BY <1>1 DEF Silent, InFlight

LEMMA SilentStep ==
  ASSUME TypeOK, LogInv, Silent, UNCHANGED <<events, outcome, pendingByMessage>>
  PROVE  LogInv'
BY QuietStep, SilentFlight DEF Quiet, Silent

LEMMA FinishLog ==
  ASSUME TypeOK, LogInv, Silent, NEW code, code # "ok", Finish(code, <<>>)
  PROVE  LogInv'
<1>1. events \in Seq(Events)
  BY DEF TypeOK
<1>2. events' = events
  BY <1>1, ConcatEmptySeq DEF Finish, sessionVars, logVars
<1>3. /\ outcome' = outcome \/ (~done /\ outcome' # "ok")
      /\ pendingByMessage' \subseteq pendingByMessage
  BY DEF Finish, sessionVars, toolVars
<1> QED BY <1>2, <1>3, QuietStep, SilentFlight DEF Quiet, Silent

LEMMA MarkLog ==
  ASSUME TypeOK, LogInv, Silent, ~done, UNCHANGED <<outcome, pendingByMessage>>,
         NEW e \in Events, e.kind \in {"text", "mcpState", "progress"}, AppendToLog(<<e>>)
  PROVE  LogInv'
BY QuietStep, SilentFlight DEF Quiet, Silent, AppendToLog

LEMMA InitLog == Init => LogInv
<1> SUFFICES ASSUME Init PROVE LogInv
  OBVIOUS
<1>1. \A kind, call : Occurs(kind, call) = {}
  BY DEF Occurs, Init
<1>2. \A kind, call : Count(kind, call) = 0
  BY <1>1, FS_EmptySet DEF Count
<1>3. \A call \in Calls : ~InFlight(call) /\ ~Waiting(call) /\ call \notin delivered
  BY SessionAssumption DEF InFlight, Waiting, Init, SessionAssumption
<1>4. EndIsLast
  BY DEF EndIsLast, Init
<1> QED BY <1>2, <1>3, <1>4 DEF LogInv, CallLog

LEMMA OpenToolLog ==
  ASSUME IInv, LogInv, OpenTool, UNCHANGED senderVars
  PROVE  LogInv'
<1> DEFINE call == Head(queue)  id == lastID + 1
           d == Event("exec", call, id)  e == Event("started", call, 0)
<1>1. /\ call \in Calls /\ id \in Nat /\ ~done /\ call \notin delivered /\ pc = "call" /\ queue # <<>>
      /\ d \in Events /\ e \in Events
  <2>1. call \in Calls /\ id \in Nat /\ queue # <<>>
    BY HeadTailProperties DEF OpenTool, IInv, TypeOK, QueueOK
  <2> QED BY <2>1, EventType DEF OpenTool, EventKinds
<1>2. /\ events' = events \o <<d, e>> /\ delivered' = delivered \cup {call} /\ outcome' = outcome
      /\ pc' = "wait" /\ queue' = queue /\ results' = results /\ sending' = sending
      /\ pendingByMessage' = pendingByMessage \cup {<<id, call>>}
  BY DEF OpenTool, InsertPending, AppendToLog, Goto, senderVars
<1>3. pendingByMessage = {} /\ results = {} /\ \A q \in Senders : sending[q] = None
  BY <1>1, NothingInFlight DEF IInv
<1>4. \A kind, other : Count(kind, other)' = Count(kind, other) + One(d, kind, other) + One(e, kind, other)
  BY <1>1, <1>2, CountTwo DEF IInv
<1>5. \A other : /\ One(d, "exec", other) = (IF other = call THEN 1 ELSE 0) /\ One(e, "exec", other) = 0
                 /\ One(e, "started", other) = (IF other = call THEN 1 ELSE 0) /\ One(d, "started", other) = 0
                 /\ One(d, "completed", other) = 0 /\ One(e, "completed", other) = 0
  BY DEF One, Event
<1>6. EndIsLast'
  BY <1>1, <1>2, EndKept DEF IInv, LogInv, Event
<1>7. ASSUME NEW other \in Calls PROVE CallLog(other)'
  <2>1. ~InFlight(other)'
    BY <1>2, <1>3, SessionAssumption DEF InFlight, SessionAssumption
  <2>2. Waiting(other)' => other = call
    BY <1>2, <1>3 DEF Waiting
  <2>3. CallLog(other) /\ \A kind : Count(kind, other) \in Nat
    BY Counted DEF LogInv, IInv
  <2>4. CASE other = call
    <3>1. Count("started", other) = 0 /\ Count("exec", other) = 0 /\ Count("completed", other) = 0
      BY <1>1, <2>3, <2>4 DEF CallLog
    <3>3. /\ Count("started", other)' = 0 + 0 + 1 /\ Count("exec", other)' = 0 + 1 + 0
          /\ Count("completed", other)' = 0 + 0 + 0
      <4> HIDE DEF d, e, call
      <4> QED BY <1>4, <1>5, <3>1, <2>4
    <3>4. Count("started", other)' = 1 /\ Count("exec", other)' = 1 /\ Count("completed", other)' = 0
      BY <3>3
    <3>2. outcome' # "ok"
      BY <1>1, <1>2 DEF done
    <3> QED BY <1>1, <1>2, <2>1, <2>4, <3>2, <3>4 DEF CallLog, Unanswered
  <2>5. CASE other # call
    <3>1. /\ Count("started", other)' = Count("started", other) /\ Count("exec", other)' = Count("exec", other)
          /\ Count("completed", other)' = Count("completed", other)
      BY <1>4, <1>5, <2>3, <2>5
    <3>2. other \in delivered => Count("completed", other) # 0
      BY <1>1, <2>3 DEF CallLog, Unanswered
    <3> QED BY <1>2, <2>1, <2>2, <2>3, <2>5, <3>1, <3>2 DEF CallLog
  <2> QED BY <2>4, <2>5
<1> QED BY <1>6, <1>7 DEF LogInv

LEMMA ReceiveLog ==
  ASSUME IInv, LogInv, ReceiveResult, UNCHANGED senderVars
  PROVE  LogInv'
<1>1. /\ UNCHANGED <<events, outcome, delivered, editPhase, pendingByMessage, sending>>
      /\ results' \subseteq results /\ Head(queue) \in results
  BY DEF ReceiveResult, sessionVars, logVars, toolVars, senderVars
<1>2. \A kind, call : Count(kind, call)' = Count(kind, call)
  BY <1>1, CountSame DEF IInv
<1>3. EndIsLast'
  BY <1>1, EndKept DEF IInv, LogInv
<1>4. \A call \in Calls : call \in delivered => Count("completed", call) # 0
  BY <1>1 DEF LogInv, CallLog, InFlight
<1>5. \A call \in Calls : (InFlight(call)' => InFlight(call)) /\ (Waiting(call)' => Waiting(call))
  BY <1>1 DEF InFlight, Waiting
<1> QED BY <1>1, <1>2, <1>3, <1>4, <1>5 DEF LogInv, CallLog

LEMMA FinishTurnLog ==
  ASSUME IInv, LogInv, FinishTurn, UNCHANGED senderVars
  PROVE  LogInv'
<1> DEFINE e == Event("turnEnded", None, 0)
<1>1. Silent
  BY DEF FinishTurn, Finish, Silent, turnVars, senderVars, sessionVars, toolVars, Unanswered
<1>2. CASE UNCHANGED <<events, outcome, pendingByMessage>>
  BY <1>1, <1>2, SilentStep DEF IInv
<1>3. CASE ~done /\ events' = events \o <<e>> /\ outcome' = "ok" /\ pendingByMessage' = {}
  <2>1. e \in Events
    BY EventType DEF EventKinds
  <2>2. \A kind \in {"started", "exec", "completed"} : \A call : Count(kind, call)' = Count(kind, call)
    <3>1. \A kind \in {"started", "exec", "completed"} : \A call : One(e, kind, call) = 0
      BY DEF One, Event
    <3> QED BY <1>3, <2>1, <3>1, CountOne, Counted DEF IInv
  <2>3. EndIsLast'
    <3>1. events \in Seq(Events) /\ <<e>> \in Seq(Events) /\ Len(<<e>>) = 1
      BY <2>1 DEF IInv, TypeOK
    <3>2. /\ events' \in Seq(Events) /\ Len(events') = Len(events) + 1 /\ Len(events) \in Nat
          /\ \A i \in 1..(Len(events) + 1) :
               events'[i] = IF i <= Len(events) THEN events[i] ELSE <<e>>[i - Len(events)]
      BY <1>3, <3>1, ConcatProperties, LenProperties
    <3>3. DOMAIN events' = 1..Len(events') /\ DOMAIN events = 1..Len(events)
      BY <3>1, <3>2, LenProperties
    <3>4. \A i \in DOMAIN events : events[i].kind # "turnEnded"
      BY <1>3 DEF LogInv, EndIsLast, done
    <3>5. \A i \in DOMAIN events' : events'[i].kind = "turnEnded" => i = Len(events')
      BY <3>2, <3>3, <3>4
    <3> QED BY <1>3, <3>5 DEF EndIsLast
  <2>4. ASSUME NEW call \in Calls PROVE CallLog(call)'
    <3>1. call \in delivered => Count("completed", call) # 0
      BY DEF LogInv, CallLog, FinishTurn, Unanswered
    <3>2. ~Waiting(call)' /\ (InFlight(call)' => InFlight(call))
      BY <1>1, <1>3, SilentFlight DEF Waiting
    <3> QED BY <1>1, <2>2, <3>1, <3>2 DEF LogInv, CallLog, Silent
  <2> QED BY <2>3, <2>4 DEF LogInv
<1> QED BY <1>2, <1>3 DEF FinishTurn, Finish, sessionVars, logVars, toolVars

LEMMA ExecuteLog ==
  ASSUME IInv, LogInv, Execute, UNCHANGED senderVars
  PROVE  LogInv'
<1>1. TypeOK
  BY DEF IInv
<1>2. CASE Enrich
  <2>1. Silent
    BY <1>2 DEF Enrich, Silent, turnVars, toolVars, sessionVars, senderVars, Unanswered
  <2>2. CASE UNCHANGED sessionVars
    BY <1>1, <2>1, <2>2, SilentStep DEF sessionVars, logVars, toolVars
  <2>3. CASE ~ UNCHANGED sessionVars
    <3> DEFINE e == Event("mcpState", None, lastID')
    <3>1. ~done /\ AppendToLog(<<e>>) /\ UNCHANGED <<outcome, pendingByMessage>> /\ lastID' \in Nat
      BY <1>1, <1>2, <2>3 DEF Enrich, toolVars, TypeOK
    <3>2. e \in Events /\ e.kind = "mcpState"
      BY <3>1, EventType DEF EventKinds, Event
    <3> QED BY <1>1, <2>1, <3>1, <3>2, MarkLog
  <2> QED BY <2>2, <2>3
<1>3. CASE ReceiveMcpState
  <2>1. Silent /\ UNCHANGED <<events, outcome, pendingByMessage>>
    BY <1>3 DEF ReceiveMcpState, Silent, Unanswered, sessionVars, logVars, toolVars, turnVars, senderVars
  <2> QED BY <1>1, <2>1, SilentStep
<1>4. CASE DiscoveryCanceled
  <2>1. Silent /\ UNCHANGED <<events, outcome, pendingByMessage>>
    BY <1>4 DEF DiscoveryCanceled, Silent, Unanswered, logVars, toolVars, turnVars, senderVars
  <2> QED BY <1>1, <2>1, SilentStep
<1>5. CASE DiscoveryTimeout
  <2>1. Silent /\ UNCHANGED <<events, outcome, pendingByMessage>>
    BY <1>5 DEF DiscoveryTimeout, Silent, Unanswered, logVars, toolVars, turnVars, senderVars
  <2> QED BY <1>1, <2>1, SilentStep
<1>6. CASE Precheck \/ AcquireConversation
  <2>1. Silent /\ UNCHANGED <<events, outcome, pendingByMessage>>
    BY <1>6 DEF Precheck, AcquireConversation, Silent, Unanswered, sessionVars, logVars, toolVars,
                turnVars, senderVars
  <2> QED BY <1>1, <2>1, SilentStep
<1>7. CASE CommitTurn \/ EndPass
  <2>1. Silent /\ UNCHANGED <<events, outcome, pendingByMessage>>
    BY <1>7 DEF CommitTurn, EndPass, Silent, Unanswered, sessionVars, logVars, toolVars, senderVars
  <2> QED BY <1>1, <2>1, SilentStep
<1>8. CASE RefuseTool
  <2>1. Silent /\ UNCHANGED <<events, outcome, pendingByMessage>>
    BY <1>8 DEF RefuseTool, Silent, Unanswered, logVars, toolVars, turnVars, senderVars
  <2> QED BY <1>1, <2>1, SilentStep
<1>9. CASE StopWaiting
  <2>1. Silent /\ UNCHANGED <<events, outcome, pendingByMessage>>
    BY <1>9 DEF StopWaiting, Fail, Silent, Unanswered, sessionVars, logVars, toolVars, turnVars, senderVars
  <2> QED BY <1>1, <2>1, SilentStep
<1>10. CASE FinishFailure
  <2>1. Silent
    BY <1>10 DEF FinishFailure, Finish, Goto, Silent, Unanswered, sessionVars, toolVars, turnVars, senderVars
  <2>2. \E code \in {"canceled", "failed"} : Finish(code, <<>>)
    BY <1>10 DEF FinishFailure
  <2> QED BY <1>1, <2>1, <2>2, FinishLog
<1>11. CASE PublishDelta
  <2>1. Silent
    BY <1>11 DEF PublishDelta, Silent, Unanswered, sessionVars, toolVars, turnVars, senderVars
  <2>2. CASE UNCHANGED sessionVars
    BY <1>1, <2>1, <2>2, SilentStep DEF sessionVars, logVars, toolVars
  <2>3. CASE ~ UNCHANGED sessionVars
    <3> DEFINE e == Event("text", None, 0)
    <3>1. ~done /\ AppendToLog(<<e>>) /\ UNCHANGED <<outcome, pendingByMessage>>
      BY <1>11, <2>3 DEF PublishDelta, toolVars
    <3>2. e \in Events /\ e.kind = "text"
      BY EventType DEF EventKinds, Event
    <3> QED BY <1>1, <2>1, <3>1, <3>2, MarkLog
  <2> QED BY <2>2, <2>3
<1> QED BY <1>2, <1>3, <1>4, <1>5, <1>6, <1>7, <1>8, <1>9, <1>10, <1>11, OpenToolLog, ReceiveLog,
           FinishTurnLog DEF Execute, Proceed

(* A hidden Write is the second and last execution of an Edit. *)
LEMMA EditWriteLog ==
  ASSUME IInv, LogInv, NEW q \in Senders, NEW m, DispatchEditWrite(q, m), UNCHANGED <<runnerVars, streamVars>>
  PROVE  LogInv'
<1>1. PICK call \in Found(m) : call \in EditCalls /\ editPhase[call] = "read" /\ StartEditWrite(call)
  BY DEF DispatchEditWrite
<1> DEFINE e == Event("exec", call, lastID')
<1>2. /\ call \in Calls /\ Waiting(call) /\ ~done
      /\ pendingByMessage = {<<transport[call], call>>}
  BY <1>1, FoundIsPending DEF IInv, DispatchEditWrite, ResultRefused
<1>3. /\ lastID' \in Nat /\ events' = events \o <<e>>
      /\ pendingByMessage' = {<<lastID', call>>}
      /\ editPhase' = [editPhase EXCEPT ![call] = "write"]
  BY <1>1, <1>2 DEF StartEditWrite, Readdress, Without, AppendToLog, IInv, TypeOK
<1>4. e \in Events
  BY <1>2, <1>3, EventType DEF EventKinds
<1>5. UNCHANGED <<delivered, results, sending, outcome, queue, pc>>
  BY DEF DispatchEditWrite, runnerVars, turnVars
<1>6. /\ \A other : Count("exec", other)' = Count("exec", other) + (IF other = call THEN 1 ELSE 0)
      /\ \A kind \in {"started", "completed"} : \A other : Count(kind, other)' = Count(kind, other)
  <2>1. /\ \A other : One(e, "exec", other) = IF other = call THEN 1 ELSE 0
        /\ \A kind \in {"started", "completed"} : \A other : One(e, kind, other) = 0
    BY DEF One, Event
  <2>2. \A kind, other : Count(kind, other)' = Count(kind, other) + One(e, kind, other)
    BY <1>3, <1>4, CountOne DEF IInv
  <2> HIDE DEF e
  <2> QED BY <2>1, <2>2, Counted DEF IInv
<1>7. EndIsLast'
  BY <1>2, <1>3, <1>4, EndKept DEF IInv, LogInv, Event
<1>8. ASSUME NEW other \in Calls PROVE CallLog(other)'
  <2>1. CallLog(other) /\ \A kind : Count(kind, other) \in Nat
    BY Counted DEF LogInv, IInv
  <2>2. (Waiting(other)' => other = call) /\ (InFlight(other)' => InFlight(other))
    BY <1>3, <1>5 DEF Waiting, InFlight
  <2>3. CASE other = call
    <3>1. Count("exec", other) = 1 /\ Count("completed", other) = 0 /\ other \in delivered
      BY <1>1, <1>2, <2>1, <2>3 DEF CallLog
    <3>2. Count("exec", other)' = 2
      BY <1>6, <2>3, <3>1
    <3>3. editPhase'[other] = "write"
      BY <1>2, <1>3, <2>3 DEF IInv, TypeOK
    <3> QED BY <1>1, <1>5, <1>6, <2>1, <2>2, <2>3, <3>1, <3>2, <3>3 DEF CallLog
  <2>4. CASE other # call
    <3>1. \A kind \in {"started", "exec", "completed"} : Count(kind, other)' = Count(kind, other)
      BY <1>6, <2>1, <2>4
    <3> QED BY <1>5, <2>1, <2>2, <2>4, <3>1 DEF CallLog
  <2> QED BY <2>3, <2>4
<1> QED BY <1>7, <1>8 DEF LogInv

LEMMA CompleteLog ==
  ASSUME IInv, LogInv, NEW q \in Senders, NEW m, CompleteTool(q, m), UNCHANGED <<runnerVars, streamVars>>
  PROVE  LogInv'
<1>1. PICK call \in Found(m) :
        /\ RemovePending(call)
        /\ AppendToLog((IF call \in ShellCalls /\ m.body = "ok"
                          THEN <<Event("progress", call, 0)>> ELSE <<>>)
                       \o <<Event("completed", call, 0)>>)
        /\ sending' = [sending EXCEPT ![q] = call]
  BY DEF CompleteTool
<1> DEFINE d == Event("progress", call, 0)  e == Event("completed", call, 0)
<1>2. /\ call \in Calls /\ Waiting(call) /\ ~done
      /\ pendingByMessage = {<<transport[call], call>>}
  BY <1>1, FoundIsPending DEF IInv, CompleteTool, ResultRefused
<1>3. pendingByMessage' = {}
  BY <1>1, <1>2 DEF RemovePending, Without
<1>4. d \in Events /\ e \in Events
  BY <1>2, EventType DEF EventKinds
<1>5. UNCHANGED <<delivered, editPhase, results, outcome, queue, pc>>
  BY DEF CompleteTool, runnerVars, turnVars
<1>6. events' = events \o <<d, e>> \/ events' = events \o <<e>>
  <2>1. <<e>> \in Seq(Events)
    BY <1>4
  <2>2. <<d>> \o <<e>> = <<d, e>> /\ <<>> \o <<e>> = <<e>>
    BY <1>4, <2>1, PairOf, ConcatEmptySeq
  <2> QED BY <1>1, <2>2 DEF AppendToLog
<1>7. /\ \A other : Count("completed", other)' = Count("completed", other) + (IF other = call THEN 1 ELSE 0)
      /\ \A kind \in {"started", "exec"} : \A other : Count(kind, other)' = Count(kind, other)
  <2>1. /\ \A other : One(e, "completed", other) = IF other = call THEN 1 ELSE 0
        /\ \A kind \in {"started", "exec"} : \A other : One(e, kind, other) = 0
        /\ \A kind \in {"started", "exec", "completed"} : \A other : One(d, kind, other) = 0
    BY DEF One, Event
  <2>2. CASE events' = events \o <<e>>
    <3>1. \A kind, other : Count(kind, other)' = Count(kind, other) + One(e, kind, other)
      BY <1>4, <2>2, CountOne DEF IInv
    <3> HIDE DEF d, e
    <3> QED BY <2>1, <3>1, Counted DEF IInv
  <2>3. CASE events' = events \o <<d, e>>
    <3>1. \A kind, other : Count(kind, other)' = Count(kind, other) + One(d, kind, other) + One(e, kind, other)
      BY <1>4, <2>3, CountTwo DEF IInv
    <3> HIDE DEF d, e
    <3> QED BY <2>1, <3>1, Counted DEF IInv
  <2> QED BY <1>6, <2>2, <2>3
<1>8. EndIsLast'
  BY <1>2, <1>4, <1>6, EndKept DEF IInv, LogInv, Event
<1>9. ASSUME NEW other \in Calls PROVE CallLog(other)'
  <2>1. CallLog(other) /\ \A kind : Count(kind, other) \in Nat
    BY Counted DEF LogInv, IInv
  <2>2. ~Waiting(other)'
    BY <1>3 DEF Waiting
  <2>3. CASE other = call
    <3>1. Count("completed", other) = 0 /\ other \in delivered
      BY <1>2, <2>1, <2>3 DEF CallLog
    <3>2. Count("completed", other)' = 1
      BY <1>7, <2>3, <3>1
    <3> QED BY <1>5, <1>7, <2>1, <2>2, <3>1, <3>2 DEF CallLog
  <2>4. CASE other # call
    <3>1. \A kind \in {"started", "exec", "completed"} : Count(kind, other)' = Count(kind, other)
      BY <1>7, <2>1, <2>4
    <3>2. InFlight(other)' => InFlight(other)
      BY <1>1, <1>5, <2>4 DEF InFlight, IInv, TypeOK
    <3> QED BY <1>5, <2>1, <2>2, <3>1, <3>2 DEF CallLog
  <2> QED BY <2>3, <2>4
<1> QED BY <1>8, <1>9 DEF LogInv

LEMMA ApplyLog ==
  ASSUME IInv, LogInv, NEW q \in Senders, NEW m, ApplyToolResult(q, m)
  PROVE  LogInv'
<1>1. TypeOK /\ UNCHANGED <<runnerVars, streamVars>>
  BY DEF IInv, ApplyToolResult
<1>2. CASE RefuseResult(q, m)
  <2>1. Silent /\ UNCHANGED <<events, outcome, pendingByMessage>>
    BY <1>1, <1>2 DEF RefuseResult, Silent, sessionVars, logVars, toolVars, runnerVars, turnVars
  <2> QED BY <1>1, <2>1, SilentStep
<1>3. CASE TakeMcpState(q, m)
  <2>1. Silent /\ UNCHANGED <<events, outcome, pendingByMessage>>
    BY <1>1, <1>3 DEF TakeMcpState, Silent, logVars, toolVars, runnerVars, turnVars
  <2> QED BY <1>1, <2>1, SilentStep
<1>4. CASE TakeProgress(q, m)
  <2>1. Silent /\ ~done /\ UNCHANGED <<outcome, pendingByMessage>>
    BY <1>1, <1>4 DEF TakeProgress, ResultRefused, Silent, toolVars, runnerVars, turnVars
  <2>2. CASE UNCHANGED logVars
    BY <1>1, <2>1, <2>2, SilentStep DEF logVars
  <2>3. ASSUME NEW call \in Found(m), AppendToLog(<<Event("progress", call, 0)>>) PROVE LogInv'
    <3> DEFINE e == Event("progress", call, 0)
    <3>1. call \in Calls
      BY <2>3, FoundIsPending DEF IInv
    <3>2. e \in Events /\ e.kind = "progress"
      BY <3>1, EventType DEF EventKinds, Event
    <3> QED BY <1>1, <2>1, <2>3, <3>2, MarkLog
  <2> QED BY <1>4, <2>2, <2>3 DEF TakeProgress
<1> QED BY <1>1, <1>2, <1>3, <1>4, EditWriteLog, CompleteLog DEF ApplyToolResult

LEMMA SenderLog ==
  ASSUME IInv, LogInv,
         \/ \E s \in DirectStreams : UploadResult(s) \/ EndUpload(s) \/ RejectUpload(s)
         \/ \E d \in Detached : MatchDetached(d) \/ ApplyDetached(d)
         \/ \E q \in Senders : SendResult(q) \/ AbandonResult(q)
  PROVE  LogInv'
<1>1. TypeOK /\ DirectStreams \subseteq Senders /\ Detached \subseteq Senders
  BY DEF IInv, Senders
<1>2. CASE \E s \in DirectStreams : UploadResult(s)
  BY <1>1, <1>2, ApplyLog DEF UploadResult
<1>3. CASE \E d \in Detached : ApplyDetached(d)
  BY <1>1, <1>3, ApplyLog DEF ApplyDetached
<1>4. CASE \E s \in DirectStreams : EndUpload(s)
  <2>1. Silent /\ UNCHANGED <<events, outcome, pendingByMessage>>
    BY <1>4 DEF EndUpload, Silent, sessionVars, logVars, toolVars, runnerVars, turnVars
  <2> QED BY <1>1, <2>1, SilentStep
<1>5. ASSUME NEW s \in DirectStreams, RejectUpload(s) PROVE LogInv'
  <2>1. Silent /\ Finish("invalid", <<>>)
    BY <1>5 DEF RejectUpload, Finish, Silent, sessionVars, toolVars, runnerVars, turnVars
  <2> QED BY <1>1, <2>1, FinishLog
<1>6. CASE \E d \in Detached : MatchDetached(d)
  <2>1. Silent /\ UNCHANGED <<events, outcome, pendingByMessage>>
    BY <1>6 DEF MatchDetached, Silent, sessionVars, logVars, toolVars, runnerVars, turnVars
  <2> QED BY <1>1, <2>1, SilentStep
<1>7. ASSUME NEW q \in Senders, SendResult(q) PROVE LogInv'
  <2>1. \A call \in Calls : InFlight(call)' => InFlight(call)
    <3>1. /\ results' = results \/ (sending[q] # None /\ results' = results \cup {sending[q]})
          /\ sending' = [sending EXCEPT ![q] = None]
      BY <1>7 DEF SendResult
    <3>2. None \notin Calls
      BY SessionAssumption DEF SessionAssumption
    <3> QED BY <1>1, <3>1, <3>2 DEF InFlight, TypeOK
  <2>2. UNCHANGED <<events, outcome, pendingByMessage, delivered, editPhase, pc, queue>>
    BY <1>7 DEF SendResult, sessionVars, logVars, toolVars
  <2> QED BY <1>1, <2>1, <2>2, QuietStep DEF Quiet
<1>8. ASSUME NEW q \in Senders, AbandonResult(q) PROVE LogInv'
  <2>1. Silent /\ UNCHANGED <<events, outcome, pendingByMessage>>
    BY <1>1, <1>8 DEF AbandonResult, Silent, sessionVars, logVars, toolVars, runnerVars, turnVars, TypeOK
  <2> QED BY <1>1, <2>1, SilentStep
<1> QED BY <1>2, <1>3, <1>4, <1>5, <1>6, <1>7, <1>8

LEMMA StreamLog ==
  ASSUME IInv, LogInv, NEW s \in Streams,
         \/ Subscribe(s) \/ StreamLoop(s) \/ StartTimeout(s) \/ DropStream(s)
         \/ s \in DirectStreams /\ \E r \in Runs : OpenDirectRun(s, r)
  PROVE  LogInv'
<1>1. TypeOK
  BY DEF IInv
<1>2. Silent
  <2>1. UNCHANGED <<delivered, editPhase, results, sending, queue>>
    BY DEF Subscribe, StreamLoop, Snapshot, WriteSnapshot, Wake, Heartbeat, Unsubscribe, CancelRun,
           StartTimeout, DropStream, OpenDirectRun, Start, Finish, sessionVars, toolVars, runnerVars,
           turnVars, senderVars
  <2>2. pc \in Unanswered => pc' = pc
    <3>1. pc \in Unanswered => run # None
      BY DEF IInv, TurnInv, Unanswered
    <3> QED BY <3>1 DEF Subscribe, StreamLoop, Snapshot, WriteSnapshot, Wake, Heartbeat, Unsubscribe,
           CancelRun, StartTimeout, DropStream, OpenDirectRun, Start, runnerVars
  <2> QED BY <2>1, <2>2 DEF Silent
<1>3. CASE StartTimeout(s)
  BY <1>1, <1>2, <1>3, FinishLog DEF StartTimeout
<1>4. CASE ~StartTimeout(s)
  <2>1. UNCHANGED <<events, outcome, pendingByMessage>>
    BY <1>4 DEF Subscribe, StreamLoop, Snapshot, WriteSnapshot, Wake, Heartbeat, Unsubscribe, CancelRun,
           DropStream, OpenDirectRun, Start, sessionVars, toolVars, logVars
  <2> QED BY <1>1, <1>2, <2>1, SilentStep
<1> QED BY <1>3, <1>4

LEMMA LogStep == IInv /\ LogInv /\ [Next]_vars => LogInv'
<1> SUFFICES ASSUME IInv, LogInv, [Next]_vars PROVE LogInv'
  OBVIOUS
<1>1. TypeOK
  BY DEF IInv
<1>2. CASE CancelRoot \/ UNCHANGED vars
  <2>1. Silent /\ UNCHANGED <<events, outcome, pendingByMessage>>
    BY <1>2 DEF CancelRoot, Silent, vars, sessionVars, logVars, toolVars, runnerVars, turnVars, senderVars
  <2> QED BY <1>1, <2>1, SilentStep
<1>3. CASE \E r \in Runs : BidiAppend(r)
  <2>1. pc \notin Unanswered
    BY <1>3 DEF BidiAppend, Start, IInv, TurnInv, Unanswered
  <2>2. Silent /\ UNCHANGED <<events, outcome, pendingByMessage>>
    BY <1>3, <2>1 DEF BidiAppend, Start, Silent, toolVars, turnVars, senderVars
  <2> QED BY <1>1, <2>2, SilentStep
<1>4. CASE Execute /\ UNCHANGED <<streamVars, senderVars>>
  BY <1>4, ExecuteLog
<1>5. CASE \E s \in Streams : Subscribe(s) \/ StreamLoop(s) \/ StartTimeout(s) \/ DropStream(s)
  BY <1>5, StreamLog
<1>6. CASE \E s \in DirectStreams, r \in Runs : OpenDirectRun(s, r)
  <2>1. DirectStreams \subseteq Streams
    BY SessionAssumption DEF SessionAssumption
  <2> QED BY <1>6, <2>1, StreamLog
<1>7. CASE \/ \E s \in DirectStreams : UploadResult(s) \/ EndUpload(s) \/ RejectUpload(s)
           \/ \E d \in Detached : MatchDetached(d) \/ ApplyDetached(d)
           \/ \E q \in Senders : SendResult(q) \/ AbandonResult(q)
  BY <1>7, SenderLog
<1> QED BY <1>2, <1>3, <1>4, <1>5, <1>6, <1>7 DEF Next

(* The log that every reader is given is well formed, whatever is refused,  *)
(* canceled or answered late: a call is started and completed at most once, *)
(* only an Edit is executed twice, and turnEnded is the last event of a     *)
(* run that left no call unanswered (agent.go:776-814, 985-1104, 1189).     *)
THEOREM LogsAreWellFormed == Spec => []LogIsWellFormed
<1>1. Init => LogInv
  BY InitLog
<1>2. IInv /\ LogInv /\ [Next]_vars => LogInv'
  BY LogStep
<1>3. IInv /\ LogInv => LogIsWellFormed
  BY LogInvSuffices DEF IInv
<1> QED BY <1>1, <1>2, <1>3, Inductive, PTL DEF Spec

-----------------------------------------------------------------------------
(* Discovery and abandonment: what DiscoveryEnds and AbandonedRunEnds rest on *)

(* A request carries something only while it is sending, and then either a  *)
(* tool's result or the answer to discovery; an upload starts with its      *)
(* stream.                                                                  *)
CarryInv ==
  /\ \A q \in Senders :
       /\ sender[q] # "sending" => sending[q] = None /\ answering[q] = "empty"
       /\ sending[q] # None => answering[q] = "empty"
  /\ \A s \in DirectStreams : phase[s] = "idle" => sender[s] = "off"

NoAnswer == mcpResult = "empty" /\ \A q \in Senders : answering[q] = "empty"
Discovers == pc \in {"discover", "discoverLate"}

(* The only request is made when no answer to another can be around, and a  *)
(* request that is gone was answered, or taken away by the end of the run.  *)
AskInv ==
  /\ DiscoveryAnsweredOnce
  /\ pc \in {"idle", "enrich"} => discovery = 0 /\ NoAnswer
  /\ pc = "discoverLate" => discovery = 0
  /\ Discovers /\ discovery = 0 => ~NoAnswer \/ ctxDone

(* Nothing is written before the run starts, so a stream that was given an  *)
(* event serves a run.                                                      *)
LeftInv ==
  /\ AbandonedRunIsCanceled
  /\ run = None => events = <<>>
  /\ \A s \in Streams : phase[s] \in {"idle", "joining"} => cursor[s] = 0

(* A run's context stays done, and finish makes it done. *)
LEMMA FinishContext ==
  ASSUME NEW code, NEW last, Finish(code, last)
  PROVE  /\ UNCHANGED <<run, rootDone, subscribers>>
         /\ run # None /\ canceled => canceled'
         /\ UNCHANGED <<outcome, discovery, canceled, events>> \/ (run # None => canceled')
<1>1. CASE UNCHANGED sessionVars
  BY <1>1 DEF sessionVars, contextVars, logVars
<1>2. CASE ~ UNCHANGED sessionVars
  BY <1>2, Zenon DEF Finish
<1> QED BY <1>1, <1>2

LEMMA ApplyContext ==
  ASSUME NEW q, NEW m, ApplyToolResult(q, m)
  PROVE  UNCHANGED <<run, outcome, contextVars, subscribers, runnerVars, streamVars>>
BY DEF ApplyToolResult, RefuseResult, TakeMcpState, TakeProgress, DispatchEditWrite, CompleteTool,
       sessionVars

LEMMA ContextStays ==
  ASSUME [Next]_vars, ctxDone
  PROVE  ctxDone'
<1> SUFFICES \/ UNCHANGED <<run, contextVars>>
             \/ UNCHANGED run /\ (canceled => canceled') /\ (rootDone => rootDone')
  BY DEF ctxDone, contextVars
<1> USE DEF sessionVars, contextVars, ctxDone
<1>1. CASE CancelRoot
  BY <1>1 DEF CancelRoot
<1>2. ASSUME NEW r, Start(r) PROVE FALSE
  BY <1>2 DEF Start
<1>3. CASE \E r \in Runs : BidiAppend(r) \/ \E s \in DirectStreams : OpenDirectRun(s, r)
  BY <1>2, <1>3 DEF BidiAppend, OpenDirectRun
<1>4. CASE Execute /\ ~FinishTurn /\ ~FinishFailure
  BY <1>4 DEF Execute, Proceed, Enrich, ReceiveMcpState, DiscoveryCanceled, DiscoveryTimeout,
     Precheck, AcquireConversation, PublishDelta, EndPass, CommitTurn, RefuseTool, OpenTool,
     InsertPending, ReceiveResult, StopWaiting
<1>5. CASE FinishTurn \/ FinishFailure
  BY <1>5, FinishContext DEF FinishTurn, FinishFailure
<1>6. ASSUME NEW s, StreamLoop(s) \/ Subscribe(s) \/ DropStream(s)
      PROVE  UNCHANGED <<run, rootDone>> /\ (canceled => canceled')
  BY <1>6 DEF StreamLoop, Subscribe, Snapshot, WriteSnapshot, Wake, Heartbeat, Unsubscribe, CancelRun,
     DropStream
<1>7. ASSUME NEW s, StartTimeout(s) \/ RejectUpload(s)
      PROVE  UNCHANGED <<run, rootDone>> /\ (canceled => canceled')
  BY <1>7, FinishContext DEF StartTimeout, RejectUpload
<1>8. ASSUME NEW q, UploadResult(q) \/ EndUpload(q) \/ MatchDetached(q) \/ ApplyDetached(q)
                    \/ SendResult(q) \/ AbandonResult(q)
      PROVE  UNCHANGED <<run, contextVars>>
  BY <1>8, ApplyContext DEF UploadResult, EndUpload, MatchDetached, ApplyDetached, SendResult,
     AbandonResult
<1>9. CASE UNCHANGED vars
  BY <1>9 DEF vars
<1> QED BY <1>1, <1>3, <1>4, <1>5, <1>6, <1>7, <1>8, <1>9 DEF Next

LEMMA CarryKept ==
  ASSUME TypeOK, CarryInv, UNCHANGED senderVars,
         \A s \in Streams : phase'[s] = "idle" => phase[s] = "idle"
  PROVE  CarryInv'
BY SessionAssumption DEF CarryInv, senderVars, SessionAssumption

LEMMA CarryApply ==
  ASSUME TypeOK, CarryInv, NEW q \in Senders, sender[q] \in {"reading", "matched"}, NEW m,
         ApplyToolResult(q, m)
  PROVE  CarryInv'
<1>1. UNCHANGED phase
  BY DEF ApplyToolResult, streamVars
<1>2. sending[q] = None /\ answering[q] = "empty" /\ (q \in DirectStreams => phase[q] # "idle")
  BY DEF CarryInv
<1>3. \A other \in Senders : other # q =>
        sender'[other] = sender[other] /\ sending'[other] = sending[other]
          /\ answering'[other] = answering[other]
  BY DEF ApplyToolResult, RefuseResult, TakeMcpState, TakeProgress, DispatchEditWrite, CompleteTool,
         TypeOK
<1>4. /\ sender'[q] # "sending" => sending'[q] = None /\ answering'[q] = "empty"
      /\ sending'[q] # None => answering'[q] = "empty"
  <2>1. CASE TakeMcpState(q, m)
    BY <1>2, <2>1 DEF TakeMcpState, TypeOK
  <2>2. CASE CompleteTool(q, m)
    BY <1>2, <2>2 DEF CompleteTool, TypeOK
  <2>3. CASE RefuseResult(q, m) \/ TakeProgress(q, m) \/ DispatchEditWrite(q, m)
    BY <1>2, <2>3 DEF RefuseResult, TakeProgress, DispatchEditWrite
  <2> QED BY <2>1, <2>2, <2>3 DEF ApplyToolResult
<1> QED BY <1>1, <1>2, <1>3, <1>4 DEF CarryInv, Senders

LEMMA CarryStep ==
  ASSUME TypeOK, CarryInv, [Next]_vars
  PROVE  CarryInv'
<1>1. CASE CancelRoot \/ (\E r \in Runs : BidiAppend(r)) \/ (Execute /\ UNCHANGED <<streamVars, senderVars>>)
           \/ UNCHANGED vars
  BY <1>1, CarryKept DEF CancelRoot, BidiAppend, streamVars, vars
<1>2. ASSUME NEW s \in Streams, Subscribe(s) \/ StreamLoop(s) \/ StartTimeout(s) \/ DropStream(s)
      PROVE  CarryInv'
  <2>1. UNCHANGED senderVars /\ \A t \in Streams : phase'[t] = "idle" => phase[t] = "idle"
    BY <1>2 DEF Subscribe, StreamLoop, Snapshot, WriteSnapshot, Wake, Heartbeat, Unsubscribe, CancelRun,
       StartTimeout, DropStream, TypeOK
  <2> QED BY <2>1, CarryKept
<1>3. ASSUME NEW s \in DirectStreams, NEW r \in Runs, OpenDirectRun(s, r)
      PROVE  CarryInv'
  <2>1. s \in Senders /\ s \in Streams /\ sender[s] = "off"
    BY <1>3, SessionAssumption DEF CarryInv, OpenDirectRun, Senders, SessionAssumption
  <2>2. UNCHANGED <<sending, answering>> /\ phase'[s] # "idle"
        /\ (\A t \in DirectStreams : t # s => phase'[t] = phase[t])
        /\ (sender'[s] \in {"off", "reading"})
        /\ (\A q \in Senders : q # s => sender'[q] = sender[q])
    BY <1>3, <2>1, SessionAssumption DEF OpenDirectRun, TypeOK, SessionAssumption
  <2>3. sending[s] = None /\ answering[s] = "empty"
    BY <2>1 DEF CarryInv
  <2>4. \A q \in Senders :
          /\ sender'[q] # "sending" => sending'[q] = None /\ answering'[q] = "empty"
          /\ sending'[q] # None => answering'[q] = "empty"
    BY <2>2, <2>3 DEF CarryInv
  <2>5. \A t \in DirectStreams : phase'[t] = "idle" => sender'[t] = "off"
    BY <2>2 DEF CarryInv, Senders
  <2> QED BY <2>4, <2>5 DEF CarryInv
<1>4. ASSUME NEW q \in Senders,
             \/ q \in DirectStreams /\ (EndUpload(q) \/ RejectUpload(q))
             \/ MatchDetached(q)
      PROVE  CarryInv'
  <2>1. /\ UNCHANGED <<sending, answering, phase>> /\ sender[q] \notin {"off", "sending"}
        /\ sender'[q] # "sending" /\ \A other \in Senders : other # q => sender'[other] = sender[other]
    BY <1>4 DEF EndUpload, RejectUpload, MatchDetached, TypeOK, streamVars
  <2> QED BY <2>1 DEF CarryInv, Senders
<1>5. ASSUME NEW q \in Senders, NEW m, sender[q] \in {"reading", "matched"}, ApplyToolResult(q, m)
      PROVE  CarryInv'
  BY <1>5, CarryApply
<1>6. ASSUME NEW q \in Senders, SendResult(q) \/ AbandonResult(q) PROVE CarryInv'
  <2>1. /\ UNCHANGED phase /\ sender[q] # "off" /\ sending'[q] = None /\ answering'[q] = "empty"
        /\ \A other \in Senders : other # q =>
             sender'[other] = sender[other] /\ sending'[other] = sending[other]
               /\ answering'[other] = answering[other]
    BY <1>6 DEF SendResult, AbandonResult, TypeOK, streamVars
  <2> QED BY <2>1 DEF CarryInv, Senders
<1> QED BY <1>1, <1>2, <1>3, <1>4, <1>5, <1>6 DEF Next, UploadResult, ApplyDetached, Senders

(* A step that carries no answer and takes the request away only when the   *)
(* run is over keeps what is said about discovery.                          *)
LEMMA AskKept ==
  ASSUME AskInv, UNCHANGED <<mcpResult, answering>>, discovery' \in {discovery, 0},
         ctxDone => ctxDone', Discovers' => Discovers,
         discovery # 0 /\ discovery' = 0 => ctxDone' \/ ~Discovers',
         pc' \in {"idle", "enrich"} => pc \in {"idle", "enrich"},
         pc' = "discoverLate" => discovery' = 0
  PROVE  AskInv'
<1>1. NoAnswer' <=> NoAnswer
  BY DEF NoAnswer
<1>2. Discovers' /\ discovery' = 0 => ~NoAnswer' \/ ctxDone'
  BY <1>1 DEF AskInv
<1>3. DiscoveryAnsweredOnce'
  BY <1>2 DEF AskInv, DiscoveryAnsweredOnce, NoAnswer, Discovers
<1> QED BY <1>1, <1>2, <1>3 DEF AskInv

LEMMA AskExecute ==
  ASSUME TypeOK, TurnInv, AskInv, Execute, UNCHANGED senderVars, ctxDone => ctxDone'
  PROVE  AskInv'
<1> USE AskKept DEF senderVars, sessionVars, Goto, Fail, Discovers
<1>1. CASE Enrich
  <2>1. CASE pc' # "discover"
    <3>1. pc' \in {"precheck", "fail"} /\ UNCHANGED <<discovery, mcpResult, answering>>
      BY <1>1, <2>1 DEF Enrich
    <3> QED BY <3>1
  <2>2. CASE pc' = "discover"
    <3>1. /\ discovery' = lastID + 1 /\ pc' = "discover" /\ UNCHANGED <<mcpResult, answering>>
          /\ NoAnswer
      BY <1>1, <2>2 DEF Enrich, AskInv
    <3>2. discovery' # 0 /\ NoAnswer'
      BY <3>1 DEF TypeOK, NoAnswer
    <3> QED BY <3>1, <3>2 DEF AskInv, DiscoveryAnsweredOnce, NoAnswer
  <2> QED BY <2>1, <2>2
<1>2. CASE ReceiveMcpState
  <2>1. /\ discovery = 0 /\ discovery' = 0 /\ pc' \in {"precheck", "fail"}
        /\ UNCHANGED answering /\ mcpResult' = "empty" /\ mcpResult # "empty"
    BY <1>2 DEF ReceiveMcpState, AskInv, DiscoveryAnsweredOnce
  <2> QED BY <2>1 DEF AskInv, DiscoveryAnsweredOnce
<1>3. CASE DiscoveryCanceled
  BY <1>3 DEF DiscoveryCanceled
<1>4. CASE DiscoveryTimeout
  BY <1>4 DEF DiscoveryTimeout
<1>5. CASE FinishTurn \/ FinishFailure
  <2>1. /\ UNCHANGED <<mcpResult, answering>> /\ pc' = "exit"
        /\ discovery' \in {discovery, 0}
    BY <1>5 DEF FinishTurn, FinishFailure, Finish
  <2> QED BY <2>1
<1>6. CASE Precheck \/ AcquireConversation \/ PublishDelta \/ EndPass \/ CommitTurn \/ RefuseTool
           \/ OpenTool \/ ReceiveResult \/ StopWaiting
  <2>1. /\ UNCHANGED <<mcpResult, answering, discovery>>
        /\ pc' \notin {"idle", "enrich", "discover", "discoverLate"}
    BY <1>6 DEF Precheck, AcquireConversation, PublishDelta, EndPass, CommitTurn, RefuseTool,
       OpenTool, InsertPending, ReceiveResult, StopWaiting
  <2> QED BY <2>1
<1> QED BY <1>1, <1>2, <1>3, <1>4, <1>5, <1>6 DEF Execute, Proceed

(* finish takes the request away and makes the run's context done. *)
LEMMA AskFinish ==
  ASSUME TurnInv, AskInv, NEW code, NEW last, Finish(code, last), UNCHANGED <<pc, mcpResult, answering>>,
         ctxDone => ctxDone'
  PROVE  AskInv'
<1>1. discovery' \in {discovery, 0} /\ (pc = "discoverLate" => discovery' = 0)
  BY DEF Finish, sessionVars, AskInv
<1>2. discovery # 0 /\ discovery' = 0 => ctxDone' \/ ~Discovers'
  <2> SUFFICES ASSUME discovery # 0, discovery' = 0, Discovers' PROVE ctxDone'
    OBVIOUS
  <2>1. run # None
    BY DEF TurnInv, Discovers
  <2> QED BY <2>1, FinishContext DEF ctxDone
<1> QED BY <1>1, <1>2, AskKept DEF Discovers

LEMMA AskApply ==
  ASSUME TypeOK, AskInv, NEW q \in Senders, NEW m, ApplyToolResult(q, m), ctxDone => ctxDone'
  PROVE  AskInv'
<1>0. UNCHANGED <<pc, mcpResult>>
  BY DEF ApplyToolResult, runnerVars
<1>1. CASE TakeMcpState(q, m)
  <2>1. /\ discovery # 0 /\ discovery' = 0 /\ m.body # "empty"
        /\ answering'[q] = m.body
        /\ \A other \in Senders \ {q} : answering'[other] = answering[other]
    BY <1>1 DEF TakeMcpState, ResultRefused, AnswersDiscovery, TypeOK
  <2>2. mcpResult = "empty" /\ (\A other \in Senders : answering[other] = "empty")
        /\ pc \notin {"idle", "enrich"}
    BY <2>1 DEF AskInv, DiscoveryAnsweredOnce
  <2>3. DiscoveryAnsweredOnce'
    BY <1>0, <2>1, <2>2 DEF DiscoveryAnsweredOnce
  <2>4. ~NoAnswer'
    BY <2>1 DEF NoAnswer
  <2> QED BY <1>0, <2>1, <2>2, <2>3, <2>4 DEF AskInv
<1>2. CASE ~TakeMcpState(q, m)
  <2>1. UNCHANGED <<discovery, answering>>
    BY <1>2 DEF ApplyToolResult, RefuseResult, TakeProgress, DispatchEditWrite, CompleteTool, sessionVars
  <2> QED BY <1>0, <2>1, AskKept DEF Discovers, AskInv
<1> QED BY <1>1, <1>2

LEMMA AskSend ==
  ASSUME TypeOK, CarryInv, AskInv, NEW q \in Senders, SendResult(q) \/ AbandonResult(q),
         ctxDone => ctxDone'
  PROVE  AskInv'
<1>1. /\ UNCHANGED <<pc, discovery>> /\ answering'[q] = "empty"
      /\ \A other \in Senders \ {q} : answering'[other] = answering[other]
  BY DEF SendResult, AbandonResult, TypeOK, sessionVars, runnerVars
<1>2. CASE answering[q] = "empty"
  <2>1. UNCHANGED mcpResult /\ \A other \in Senders : answering'[other] = answering[other]
    BY <1>1, <1>2 DEF SendResult, AbandonResult, runnerVars
  <2>2. NoAnswer' <=> NoAnswer
    BY <2>1 DEF NoAnswer
  <2>3. Discovers' /\ discovery' = 0 => ~NoAnswer' \/ ctxDone'
    BY <1>1, <2>2 DEF AskInv, Discovers
  <2>4. DiscoveryAnsweredOnce'
    BY <1>1, <2>1, <2>3 DEF AskInv, DiscoveryAnsweredOnce, NoAnswer, Discovers
  <2> QED BY <1>1, <2>2, <2>3, <2>4 DEF AskInv
<1>3. CASE answering[q] # "empty"
  <2>1. discovery = 0 /\ pc \notin {"idle", "enrich"} /\ sending[q] = None
        /\ \A other \in Senders : answering'[other] = "empty"
    BY <1>1, <1>3 DEF CarryInv, AskInv, NoAnswer, DiscoveryAnsweredOnce, TypeOK
  <2>2. mcpResult' # "empty" \/ ctxDone'
    BY <1>3, <2>1 DEF SendResult, AbandonResult
  <2>3. DiscoveryAnsweredOnce'
    BY <1>1, <2>1, <2>2 DEF DiscoveryAnsweredOnce
  <2> QED BY <1>1, <2>1, <2>2, <2>3 DEF AskInv, NoAnswer
<1> QED BY <1>2, <1>3

LEMMA AskStep ==
  ASSUME IInv, CarryInv, AskInv, [Next]_vars
  PROVE  AskInv'
<1>0. TypeOK /\ TurnInv /\ (ctxDone => ctxDone')
  BY ContextStays DEF IInv
<1>1. CASE UNCHANGED <<pc, mcpResult, answering, discovery>>
  BY <1>0, <1>1, AskKept DEF Discovers, AskInv
<1>2. ASSUME NEW r \in Runs, Start(r), UNCHANGED senderVars PROVE AskInv'
  <2>1. pc = "idle" /\ pc' = "enrich" /\ UNCHANGED <<mcpResult, answering, discovery>>
    BY <1>0, <1>2 DEF Start, TurnInv, senderVars
  <2>2. discovery = 0 /\ NoAnswer
    BY <2>1 DEF AskInv
  <2> QED BY <2>1, <2>2 DEF AskInv, DiscoveryAnsweredOnce, NoAnswer, Discovers
<1>3. ASSUME NEW s \in DirectStreams, NEW r \in Runs, OpenDirectRun(s, r) PROVE AskInv'
  <2>1. CASE Start(r)
    <3>1. pc = "idle" /\ pc' = "enrich" /\ UNCHANGED <<mcpResult, answering, discovery>>
      BY <1>0, <1>3, <2>1 DEF OpenDirectRun, Start, TurnInv
    <3>2. discovery = 0 /\ NoAnswer
      BY <3>1 DEF AskInv
    <3> QED BY <3>1, <3>2 DEF AskInv, DiscoveryAnsweredOnce, NoAnswer, Discovers
  <2>2. CASE ~Start(r)
    BY <1>1, <1>3, <2>2 DEF OpenDirectRun, sessionVars, runnerVars
  <2> QED BY <2>1, <2>2
<1>4. CASE Execute /\ UNCHANGED <<streamVars, senderVars>>
  BY <1>0, <1>4, AskExecute
<1>5. ASSUME NEW s \in Streams, Subscribe(s) \/ StreamLoop(s) \/ DropStream(s)
      PROVE  UNCHANGED <<pc, mcpResult, answering, discovery>>
  BY <1>5 DEF Subscribe, StreamLoop, Snapshot, WriteSnapshot, Wake, Heartbeat, Unsubscribe, CancelRun,
     DropStream, sessionVars, runnerVars, senderVars
<1>6. ASSUME NEW s \in Streams, StartTimeout(s) PROVE AskInv'
  BY <1>0, <1>6, AskFinish DEF StartTimeout, runnerVars, senderVars
<1>7. ASSUME NEW s \in DirectStreams, RejectUpload(s) PROVE AskInv'
  BY <1>0, <1>7, AskFinish DEF RejectUpload, runnerVars
<1>8. ASSUME NEW q \in Senders, EndUpload(q) \/ MatchDetached(q)
      PROVE  UNCHANGED <<pc, mcpResult, answering, discovery>>
  BY <1>8 DEF EndUpload, MatchDetached, sessionVars, runnerVars
<1>9. ASSUME NEW q \in Senders, UploadResult(q) \/ ApplyDetached(q) PROVE AskInv'
  BY <1>0, <1>9, AskApply DEF UploadResult, ApplyDetached
<1>10. ASSUME NEW q \in Senders, SendResult(q) \/ AbandonResult(q) PROVE AskInv'
  BY <1>0, <1>10, AskSend
<1>11. CASE CancelRoot \/ UNCHANGED vars
  BY <1>1, <1>11 DEF CancelRoot, vars, sessionVars, runnerVars, senderVars
<1> QED BY <1>1, <1>2, <1>3, <1>4, <1>5, <1>6, <1>7, <1>8, <1>9, <1>10, <1>11
        DEF Next, BidiAppend, Senders

(* Somebody is always there to answer the runner when discovery runs out of *)
(* time with the request taken (agent.go:692-722), and never two.           *)
THEOREM DiscoveriesAnsweredOnce == Spec => []DiscoveryAnsweredOnce
<1>1. Init => CarryInv /\ AskInv
  BY SessionAssumption DEF Init, CarryInv, AskInv, NoAnswer, Discovers, DiscoveryAnsweredOnce, Senders,
     SessionAssumption
<1>2. IInv /\ CarryInv /\ AskInv /\ [Next]_vars => (CarryInv /\ AskInv)'
  BY CarryStep, AskStep DEF IInv
<1>3. AskInv => DiscoveryAnsweredOnce
  BY DEF AskInv
<1> QED BY <1>1, <1>2, <1>3, Inductive, PTL DEF Spec

-----------------------------------------------------------------------------
(* What is written is written by the run or for one of its calls, or when   *)
(* the run ends.                                                            *)
LEMMA WrittenByRun ==
  ASSUME IInv, [Next]_vars, run' = None
  PROVE  UNCHANGED events /\ run = None
<1>0. TypeOK
  BY DEF IInv
<1>1. ASSUME run # None PROVE FALSE
  <2>1. UNCHANGED run
    <3> USE DEF sessionVars, contextVars
    <3>1. ASSUME NEW r, Start(r) PROVE FALSE
      BY <1>1, <3>1 DEF Start
    <3>2. CASE CancelRoot \/ UNCHANGED vars \/ (\E r \in Runs : BidiAppend(r))
               \/ (\E s \in DirectStreams, r \in Runs : OpenDirectRun(s, r))
      BY <3>1, <3>2 DEF CancelRoot, BidiAppend, OpenDirectRun, vars
    <3>3. CASE Execute
      BY <3>3 DEF Execute, Proceed, Enrich, ReceiveMcpState, DiscoveryCanceled, DiscoveryTimeout,
         Precheck, AcquireConversation, PublishDelta, EndPass, CommitTurn, RefuseTool, OpenTool,
         InsertPending, ReceiveResult, StopWaiting, FinishTurn, FinishFailure, Finish
    <3>4. ASSUME NEW s, Subscribe(s) \/ StreamLoop(s) \/ StartTimeout(s) \/ DropStream(s)
          PROVE  UNCHANGED run
      BY <3>4 DEF Subscribe, StreamLoop, Snapshot, WriteSnapshot, Wake, Heartbeat, Unsubscribe,
         CancelRun, DropStream, StartTimeout, Finish
    <3>5. ASSUME NEW q, UploadResult(q) \/ EndUpload(q) \/ RejectUpload(q) \/ MatchDetached(q)
                        \/ ApplyDetached(q) \/ SendResult(q) \/ AbandonResult(q)
          PROVE  UNCHANGED run
      BY <3>5, ApplyContext DEF UploadResult, EndUpload, RejectUpload, MatchDetached, ApplyDetached,
         SendResult, AbandonResult, Finish
    <3> QED BY <3>2, <3>3, <3>4, <3>5 DEF Next
  <2> QED BY <1>1, <2>1
<1>2. pc = "idle" /\ pendingByMessage = {} /\ pendingByExec = {} /\ run = None
  BY <1>0, <1>1, NothingInFlight DEF IInv, TurnInv
<1>3. \A m : Found(m) = {}
  BY <1>2 DEF Found, CallsAt
<1>4. ASSUME NEW q, NEW m, ApplyToolResult(q, m) PROVE UNCHANGED events
  BY <1>3, <1>4 DEF ApplyToolResult, RefuseResult, TakeMcpState, TakeProgress, DispatchEditWrite,
     CompleteTool, sessionVars, logVars
<1>5. ASSUME NEW code, Finish(code, <<>>) PROVE UNCHANGED events
  BY <1>0, <1>5, ConcatProperties, EmptySeq DEF Finish, TypeOK, sessionVars, logVars
<1>6. ~Execute
  BY <1>2 DEF Execute, Proceed, Enrich, ReceiveMcpState, DiscoveryCanceled, DiscoveryTimeout,
     Precheck, AcquireConversation, PublishDelta, EndPass, CommitTurn, RefuseTool, OpenTool,
     ReceiveResult, StopWaiting, FinishTurn, FinishFailure
<1>7. ASSUME NEW s, Subscribe(s) \/ StreamLoop(s) \/ StartTimeout(s) \/ DropStream(s)
      PROVE  UNCHANGED events
  BY <1>5, <1>7 DEF Subscribe, StreamLoop, Snapshot, WriteSnapshot, Wake, Heartbeat, Unsubscribe,
     CancelRun, DropStream, StartTimeout, sessionVars, logVars
<1>8. ASSUME NEW q, UploadResult(q) \/ EndUpload(q) \/ RejectUpload(q) \/ MatchDetached(q)
                    \/ ApplyDetached(q) \/ SendResult(q) \/ AbandonResult(q)
      PROVE  UNCHANGED events
  BY <1>4, <1>5, <1>8 DEF UploadResult, EndUpload, RejectUpload, MatchDetached, ApplyDetached,
     SendResult, AbandonResult, sessionVars, logVars
<1>9. CASE CancelRoot \/ UNCHANGED vars \/ (\E r \in Runs : BidiAppend(r))
           \/ (\E s \in DirectStreams, r \in Runs : OpenDirectRun(s, r))
  BY <1>9 DEF CancelRoot, BidiAppend, OpenDirectRun, Start, vars, sessionVars, logVars
<1> QED BY <1>2, <1>6, <1>7, <1>8, <1>9 DEF Next

(* A canceled run stays canceled. *)
LEMMA CancellationStays ==
  ASSUME [Next]_vars, run # None, canceled
  PROVE  canceled'
<1> USE DEF sessionVars, contextVars
<1>1. CASE CancelRoot \/ UNCHANGED vars \/ (\E r \in Runs : BidiAppend(r))
           \/ (\E s \in DirectStreams, r \in Runs : OpenDirectRun(s, r))
  BY <1>1 DEF CancelRoot, BidiAppend, OpenDirectRun, Start, vars
<1>2. CASE Execute
  BY <1>2, FinishContext DEF Execute, Proceed, Enrich, ReceiveMcpState, DiscoveryCanceled,
     DiscoveryTimeout, Precheck, AcquireConversation, PublishDelta, EndPass, CommitTurn, RefuseTool,
     OpenTool, InsertPending, ReceiveResult, StopWaiting, FinishTurn, FinishFailure
<1>3. ASSUME NEW s, Subscribe(s) \/ StreamLoop(s) \/ StartTimeout(s) \/ DropStream(s)
      PROVE  UNCHANGED canceled \/ canceled'
  BY <1>3, FinishContext DEF Subscribe, StreamLoop, Snapshot, WriteSnapshot, Wake, Heartbeat,
     Unsubscribe, CancelRun, DropStream, StartTimeout
<1>4. ASSUME NEW q, UploadResult(q) \/ EndUpload(q) \/ RejectUpload(q) \/ MatchDetached(q)
                    \/ ApplyDetached(q) \/ SendResult(q) \/ AbandonResult(q)
      PROVE  UNCHANGED canceled \/ canceled'
  BY <1>4, ApplyContext, FinishContext DEF UploadResult, EndUpload, RejectUpload, MatchDetached,
     ApplyDetached, SendResult, AbandonResult
<1> QED BY <1>1, <1>2, <1>3, <1>4 DEF Next

(* Who was given an event, and left. *)
Left(s) == phase[s] \in {"cancel", "closed"} /\ cursor[s] > 0

(* A step that leaves the streams and their number alone. *)
LEMMA LeftKept ==
  ASSUME IInv, ReadersInv, LeftInv, [Next]_vars, UNCHANGED <<streamVars, subscribers>>
  PROVE  AbandonedRunIsCanceled'
<1> SUFFICES ASSUME subscribers' = 0, ~done', NEW s \in Streams, phase'[s] \in {"cancel", "closed"},
                    cursor'[s] > 0
             PROVE  canceled' \/ \E t \in Streams : phase'[t] = "cancel"
  BY DEF AbandonedRunIsCanceled
<1>1. ~done
  BY NextGrows DEF IInv, LogGrows, done
<1>2. Left(s) /\ subscribers = 0
  BY DEF Left, streamVars
<1>3. canceled \/ \E t \in Streams : phase[t] = "cancel"
  BY <1>1, <1>2 DEF LeftInv, AbandonedRunIsCanceled, Left
<1>4. run # None
  <2>1. events # <<>>
    BY <1>2 DEF Left, ReadersInv, IInv, TypeOK
  <2> QED BY <2>1 DEF LeftInv
<1> QED BY <1>3, <1>4, CancellationStays DEF streamVars

LEMMA LeftStream ==
  ASSUME IInv, ReadersInv, LeftInv, NEW s \in Streams,
         Subscribe(s) \/ StreamLoop(s) \/ StartTimeout(s) \/ DropStream(s), [Next]_vars
  PROVE  AbandonedRunIsCanceled'
<1>0. TypeOK
  BY DEF IInv
<1> SUFFICES ASSUME subscribers' = 0, ~done', NEW t \in Streams, phase'[t] \in {"cancel", "closed"},
                    cursor'[t] > 0
             PROVE  canceled' \/ \E u \in Streams : phase'[u] = "cancel"
  BY DEF AbandonedRunIsCanceled
<1>1. ~done
  BY NextGrows DEF IInv, LogGrows, done
<1>2. \A u \in Streams : cursor[u] > 0 => run # None
  BY <1>0 DEF LeftInv, ReadersInv, TypeOK
<1>3. CASE Unsubscribe(s)
  <2>1. UNCHANGED <<cursor, run>>
    BY <1>3 DEF Unsubscribe
  <2>2. run # None
    BY <1>2, <2>1
  <2> QED BY <1>0, <1>1, <1>3, <2>2 DEF Unsubscribe, TypeOK
<1>4. CASE CancelRun(s)
  BY <1>4 DEF CancelRun
<1>5. CASE ~Unsubscribe(s) /\ ~CancelRun(s)
  <2>1. UNCHANGED subscribers
    BY <1>0, <1>5 DEF Subscribe, StreamLoop, Snapshot, WriteSnapshot, Wake, Heartbeat, DropStream,
       StartTimeout, Finish, sessionVars, TypeOK
  <2>2. /\ phase'[s] \notin {"cancel", "closed"} /\ phase[s] # "cancel"
        /\ \A u \in Streams : u # s => phase'[u] = phase[u] /\ cursor'[u] = cursor[u]
    BY <1>0, <1>5 DEF Subscribe, StreamLoop, Snapshot, WriteSnapshot, Wake, Heartbeat, DropStream,
       StartTimeout, TypeOK
  <2>3. t # s /\ Left(t) /\ subscribers = 0
    BY <2>1, <2>2 DEF Left
  <2>4. canceled \/ \E u \in Streams : phase[u] = "cancel"
    BY <1>1, <2>3 DEF LeftInv, AbandonedRunIsCanceled, Left
  <2>5. canceled => canceled'
    BY <1>2, <2>3, CancellationStays DEF Left
  <2>6. \A u \in Streams : phase[u] = "cancel" => phase'[u] = "cancel"
    BY <2>2
  <2> QED BY <2>4, <2>5, <2>6
<1> QED BY <1>3, <1>4, <1>5

(* Nobody else leaves a stream, and nothing uncancels a run. *)
LEMMA LeftStep ==
  ASSUME IInv, ReadersInv, LeftInv, [Next]_vars
  PROVE  LeftInv'
<1>0. TypeOK
  BY DEF IInv
<1>1. run' = None => events' = <<>>
  BY WrittenByRun DEF LeftInv
<1> USE DEF sessionVars
<1>2. CASE UNCHANGED <<streamVars, subscribers>>
  <2>1. AbandonedRunIsCanceled'
    BY <1>2, LeftKept
  <2> QED BY <1>1, <1>2, <2>1 DEF LeftInv, streamVars
<1>3. ASSUME NEW s \in Streams, Subscribe(s) \/ StreamLoop(s) \/ StartTimeout(s) \/ DropStream(s)
      PROVE  LeftInv'
  <2>1. AbandonedRunIsCanceled'
    BY <1>3, LeftStream
  <2>2. /\ phase'[s] \notin {"idle", "joining"}
        /\ \A t \in Streams : t # s => phase'[t] = phase[t] /\ cursor'[t] = cursor[t]
    BY <1>0, <1>3 DEF Subscribe, StreamLoop, Snapshot, WriteSnapshot, Wake, Heartbeat, Unsubscribe,
       CancelRun, DropStream, StartTimeout, TypeOK
  <2>3. \A t \in Streams : phase'[t] \in {"idle", "joining"} => cursor'[t] = 0
    BY <2>2 DEF LeftInv
  <2> QED BY <1>1, <2>1, <2>3 DEF LeftInv
<1>4. ASSUME NEW s \in DirectStreams, NEW r \in Runs, OpenDirectRun(s, r) PROVE LeftInv'
  <2>1. /\ s \in Streams /\ phase[s] = "idle" /\ phase'[s] \in {"joining", "closed"}
        /\ UNCHANGED <<cursor, subscribers>>
        /\ \A t \in Streams : t # s => phase'[t] = phase[t]
    BY <1>0, <1>4, SessionAssumption DEF OpenDirectRun, Start, TypeOK, SessionAssumption
  <2>2. cursor[s] = 0
    BY <2>1 DEF LeftInv
  <2>3. AbandonedRunIsCanceled'
    <3> SUFFICES ASSUME subscribers' = 0, ~done', NEW t \in Streams,
                        phase'[t] \in {"cancel", "closed"}, cursor'[t] > 0
                 PROVE  canceled' \/ \E u \in Streams : phase'[u] = "cancel"
      BY DEF AbandonedRunIsCanceled
    <3>1. t # s /\ Left(t) /\ subscribers = 0
      BY <2>1, <2>2 DEF Left
    <3>2. ~done /\ UNCHANGED canceled
      BY <1>4 DEF OpenDirectRun, Start, contextVars, done
    <3>3. canceled \/ \E u \in Streams : phase[u] = "cancel"
      BY <3>1, <3>2 DEF LeftInv, AbandonedRunIsCanceled, Left
    <3> QED BY <2>1, <3>2, <3>3
  <2>4. \A t \in Streams : phase'[t] \in {"idle", "joining"} => cursor'[t] = 0
    BY <2>1 DEF LeftInv
  <2> QED BY <1>1, <2>3, <2>4 DEF LeftInv
<1>5. ASSUME Execute, UNCHANGED <<streamVars, senderVars>> PROVE UNCHANGED subscribers
  BY <1>5 DEF Execute, Proceed, Enrich, ReceiveMcpState, DiscoveryCanceled, DiscoveryTimeout, Precheck,
     AcquireConversation, PublishDelta, EndPass, CommitTurn, RefuseTool, OpenTool, InsertPending,
     ReceiveResult, StopWaiting, FinishTurn, FinishFailure, Finish
<1>6. ASSUME NEW q, UploadResult(q) \/ EndUpload(q) \/ RejectUpload(q) \/ MatchDetached(q)
                    \/ ApplyDetached(q) \/ SendResult(q) \/ AbandonResult(q)
      PROVE  UNCHANGED <<streamVars, subscribers>>
  BY <1>6, ApplyContext DEF UploadResult, EndUpload, RejectUpload, MatchDetached, ApplyDetached,
     SendResult, AbandonResult, Finish
<1>7. CASE CancelRoot \/ UNCHANGED vars \/ \E r \in Runs : BidiAppend(r)
  BY <1>2, <1>7 DEF CancelRoot, BidiAppend, Start, vars
<1> QED BY <1>2, <1>3, <1>4, <1>5, <1>6, <1>7 DEF Next

(* unsubscribe decides under the lock and cancels after it                  *)
(* (agent.go:1248-1261): whatever happens in between, a run whose last      *)
(* stream has left is canceled, or that stream is about to cancel it.       *)
THEOREM AbandonedRunsAreCanceled == Spec => []AbandonedRunIsCanceled
<1>1. Init => ReadersInv /\ LeftInv
  <2> SUFFICES ASSUME Init PROVE ReadersInv /\ LeftInv
    OBVIOUS
  <2>1. Len(events) = 0
    BY LenProperties, EmptySeq DEF Init
  <2> QED BY <2>1 DEF Init, ReadersInv, LeftInv, AbandonedRunIsCanceled
<1>2. IInv /\ ReadersInv /\ LeftInv /\ [Next]_vars => (ReadersInv /\ LeftInv)'
  BY ReadersStep, LeftStep
<1>3. LeftInv => AbandonedRunIsCanceled
  BY DEF LeftInv
<1> QED BY <1>1, <1>2, <1>3, Inductive, PTL DEF Spec

=============================================================================
