------------------------------ MODULE ShellOutput ------------------------------
(***************************************************************************)
(* The output of one Shell call: the deltas the client sends are kept by   *)
(* agentSession.applyToolResult (server/agent.go) within a bound for each  *)
(* stream and made into the call's result by           *)
(* FinalizeShellToolResult (protocol/tool_shell.go). AgentSession has the  *)
(* call itself, its identity and its place in the session; all of this     *)
(* happens under session.mu, one message at a time.                        *)
(***************************************************************************)
EXTENDS BoundedText

CONSTANTS
  MaxBytes,    \* maxShellStreamBytes
  Deltas,      \* what a message may bring, as it arrives
  MaxDeltas    \* bound on the messages with output

ASSUME OutputAssumption ==
  /\ MaxBytes \in Nat /\ MaxDeltas \in Nat /\ \A delta \in Deltas : delta \in Seq(RawUnits)

VARIABLES
  kept,       \* pending.stdout, pending.stderr
  truncated,  \* pending.truncated
  said,       \* what the command has written, as valid UTF-8
  taken,      \* deltas so far
  result      \* the terminal result

shellVars == <<kept, truncated, said, taken, result>>

Outputs == {"stdout", "stderr"}
Terminal == {"exit", "rejected", "permissionDenied", "backgrounded"}
NoResult == [event |-> "none"]

ShellInit ==
  /\ kept = [s \in Outputs |-> <<>>] /\ said = kept
  /\ truncated = FALSE /\ taken = 0 /\ result = NoResult

TakeDelta_LastCutOnly(s, delta) ==
  LET bounded == Bounded(delta, MaxBytes - Bytes(kept[s]))
  IN  /\ result = NoResult /\ taken < MaxDeltas
      /\ kept' = [kept EXCEPT ![s] = @ \o bounded.text]
      /\ truncated' = bounded.cut
      /\ said' = [said EXCEPT ![s] = @ \o ToValidUTF8(delta)]
      /\ taken' = taken + 1
      /\ UNCHANGED result

(* A delta of one of the streams. What is accepted of it is what is kept    *)
(* and what the progress event shows; when nothing is, there is none.       *)
TakeDelta(s, delta) ==
  LET bounded == Bounded(delta, MaxBytes - Bytes(kept[s]))
  IN  /\ result = NoResult /\ taken < MaxDeltas
      /\ kept' = [kept EXCEPT ![s] = @ \o bounded.text]
      /\ truncated' = (truncated \/ bounded.cut)
      /\ said' = [said EXCEPT ![s] = @ \o ToValidUTF8(delta)]
      /\ taken' = taken + 1
      /\ UNCHANGED result

(* FinalizeShellToolResult: what the provider is given of a command that    *)
(* has exited; of one that has not, only why.                               *)
Content(event) ==
  IF event = "exit"
  THEN [text |-> [s \in Outputs |-> Trim(kept[s])], marked |-> truncated]
  ELSE [text |-> [s \in Outputs |-> <<>>], marked |-> FALSE]

(* The terminal message ends the call.                                      *)
TakeTerminal(event) ==
  /\ result = NoResult
  /\ result' = [event |-> event, content |-> Content(event)]
  /\ UNCHANGED <<kept, truncated, said, taken>>

ShellNext ==
  \/ \E s \in Outputs, delta \in Deltas : TakeDelta(s, delta)
  \/ \E event \in Terminal : TakeTerminal(event)

ShellSpec == ShellInit /\ [][ShellNext]_shellVars

-------------------------------------------------------------------------------
(* Output stays within its bound and is only lost there: as long as a whole *)
(* rune still fits, nothing of the stream is missing, however the output    *)
(* was cut into deltas and whatever was invalid in it. Behind the first     *)
(* loss no more than three bytes can follow, of later and smaller deltas.   *)
HeadIsKept ==
  \A s \in Outputs :
    /\ Bytes(kept[s]) =< MaxBytes
    /\ HeadKept(kept[s], said[s], MaxBytes)

(* The provider is told that output is missing exactly when some is, of     *)
(* whichever stream, although the flag is one for both; without the mark it *)
(* has all that was said, but for the space around it.                      *)
LossIsTold ==
  result.event = "exit" =>
    /\ result.content.marked = (kept # said)
    /\ ~result.content.marked => result.content.text = [s \in Outputs |-> Trim(said[s])]

===============================================================================
