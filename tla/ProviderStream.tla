---------------------------- MODULE ProviderStream ----------------------------
(***************************************************************************)
(* One provider pass: the HTTP request of internal/provider/openai, its    *)
(* line reader (sse.go), the decoder of each endpoint (chat.go,            *)
(* responses.go) and the runner that gathers the pass                      *)
(* (Runner.runProviderPass). The other end is a provider that streams a    *)
(* response event by event, well or badly, over a connection that may end  *)
(* anywhere; the turn may be canceled at any time. What an event says is   *)
(* kept, not how: deltas are numbered, and a line has a cost, not a length.*)
(* Token usage is left out. HTTP and the network are external.             *)
(***************************************************************************)
EXTENDS Naturals, Sequences

CONSTANTS
  Indexes,        \* output indexes of tool calls
  MaxDeltas,      \* bound on the text and reasoning deltas of a response
  MaxFragments,   \* bound on the argument fragments of a call
  MaxEventBytes   \* what the lines of one event may cost

ASSUME StreamAssumption ==
  /\ MaxDeltas \in Nat /\ MaxFragments \in Nat
  /\ MaxEventBytes \in Nat /\ MaxEventBytes >= 2

VARIABLES
  endpoint,   \* the model's endpoint
  conn,       \* the connection: not yet answered, open, ended or broken
  wire,       \* lines of the last event that were sent and not yet read
  said,       \* history: what the provider has said
  fault,      \* history: the response is not a complete conforming one
  canceled,   \* the pass's context is done
  checked,    \* readSSE is past the context check of its loop
  reader,     \* readSSE: name, data, eventBytes
  terminal,   \* the decoder has seen the event that ends a response
  seen,       \* streamChat: seenTools
  gathered,   \* runProviderPass: text and calls, and what it passed on
  outcome     \* of the pass

providerVars == <<endpoint, said, fault>>
readerVars == <<checked, reader, terminal, seen, gathered, outcome>>
vars == <<endpoint, conn, wire, said, fault, canceled, readerVars>>

(***************************************************************************)
(* Events. n numbers a delta, 0 for an empty one; i is the call's index;   *)
(* id tells whether the call's ID and name are there.                      *)
(***************************************************************************)
Finishes == {"", "tool_calls", "stop"}

Delta(kind, n) == [kind |-> kind, n |-> n, i |-> 0, id |-> FALSE, finish |-> ""]
Plain(kind) == Delta(kind, 0)
CallDelta(i, id, n) == [Delta("call", n) EXCEPT !.i = i, !.id = id]
CallDone(i) == [Plain("callDone") EXCEPT !.i = i]

(* A line: half is 0 for a payload on one data line, 1 and 2 for its parts *)
(* on two, 3 for what a cut left of it; an untyped payload takes its type  *)
(* from the event line.                                                    *)
Line(field, event, half, typed, size) ==
  [field |-> field, event |-> event, half |-> half, typed |-> typed, size |-> size]
Data(event, half) == Line("data", event, half, TRUE, 1)
Blank == Line("", Plain("other"), 0, TRUE, 0)
Comment == Line(":", Plain("other"), 0, TRUE, 1)

Frames(event) ==
  {<<Data(event, 0), Blank>>, <<Data(event, 1), Data(event, 2), Blank>>, <<Comment, Data(event, 0), Blank>>}
  \cup IF endpoint = "responses" /\ event.kind # "[DONE]"
       THEN {<<Line("event", event, 0, TRUE, 1), Line("data", event, 0, FALSE, 1), Blank>>} ELSE {}
Oversized(event) == <<Line("data", event, 0, TRUE, MaxEventBytes + 1), Blank>>
KeepAlive == <<Comment, Blank>>

Running == outcome = "running"
Chat == endpoint = "chat"

Init ==
  /\ endpoint \in {"chat", "responses"} /\ conn = "requested" /\ wire = <<>>
  /\ said = [deltas |-> <<>>, call |-> [i \in Indexes |-> "unsaid"],
             args |-> [i \in Indexes |-> 0], finished |-> FALSE, terminal |-> FALSE, ended |-> FALSE]
  /\ fault = FALSE /\ canceled = FALSE /\ checked = FALSE
  /\ reader = [name |-> "", data |-> <<>>, bytes |-> 0]
  /\ terminal = FALSE /\ seen = {}
  /\ gathered = [text |-> <<>>, passed |-> <<>>,
                 calls |-> [i \in Indexes |-> [known |-> FALSE, id |-> FALSE, args |-> <<>>, done |-> FALSE]]]
  /\ outcome = "running"

(***************************************************************************)
(* The provider. Say sends an event; bad says it is not one a conforming   *)
(* provider sends there. A provider that is slow, silent or wrong is one   *)
(* of these behaviours; an oversized event is wrong too.                   *)
(***************************************************************************)
Say(event, next, bad) ==
  /\ conn = "open" /\ Running /\ wire = <<>> /\ ~said.ended
  /\ said' = next
  /\ \/ wire' \in Frames(event) /\ fault' = (fault \/ bad)
     \/ wire' = Oversized(event) /\ fault' = TRUE
  /\ UNCHANGED <<endpoint, conn, canceled, readerVars>>

Open == {i \in Indexes : said.call[i] = "open"}
Speaking == ~said.finished /\ ~said.terminal

(* A chunk of chat may carry the finish reason with its last delta, and    *)
(* "tool_calls" closes the calls; "stop" stands for every other reason.    *)
Closing(s, finish) ==
  CASE finish = "" -> s
    [] finish = "stop" -> [s EXCEPT !.finished = TRUE]
    [] finish = "tool_calls" ->
         [s EXCEPT !.finished = TRUE, !.call = [i \in Indexes |-> IF s.call[i] = "open" THEN "closed" ELSE s.call[i]]]
IllClosed(s, finish) ==
  \E i \in Indexes : s.call[i] = "open" /\ (finish = "stop" \/ (finish = "tool_calls" /\ s.args[i] = 0))
SayChunk(event, next, bad) ==
  /\ Speaking
  /\ \E finish \in Finishes :
       /\ finish = "" \/ Chat
       /\ Say([event EXCEPT !.finish = finish], Closing(next, finish), bad \/ IllClosed(next, finish))

SayDelta == \E kind \in {"text", "reasoning"} :
  /\ Len(said.deltas) < MaxDeltas
  /\ \/ SayChunk(Delta(kind, Len(said.deltas) + 1), [said EXCEPT !.deltas = Append(@, kind)], FALSE)
     \/ SayChunk(Plain(kind), said, ~Chat)

OpenCall(i) == \E n \in {0, 1} :
  /\ said.call[i] = "unsaid" /\ n <= MaxFragments /\ (n = 0 \/ Chat)
  /\ SayChunk(CallDelta(i, TRUE, n), [said EXCEPT !.call[i] = "open", !.args[i] = n], FALSE)

(* An argument fragment, or a delta that says nothing.                     *)
SayArguments(i) == \E id \in BOOLEAN :
  /\ said.call[i] = "open" /\ (~id \/ Chat)
  /\ \/ /\ said.args[i] < MaxFragments
        /\ SayChunk(CallDelta(i, id, said.args[i] + 1), [said EXCEPT !.args[i] = @ + 1], FALSE)
     \/ SayChunk(CallDelta(i, id, 0), said, ~id)

CloseCall(i) ==
  /\ ~Chat /\ said.call[i] # "unsaid"
  /\ SayChunk(CallDone(i), [said EXCEPT !.call[i] = "closed"], said.args[i] = 0)

SayOther == SayChunk(Plain("other"), said, FALSE)

Complete ==
  /\ ~Chat /\ Speaking
  /\ Say(Plain("completed"), [said EXCEPT !.terminal = TRUE], Open # {})

SayDone == Say(Plain("[DONE]"), [said EXCEPT !.ended = TRUE, !.terminal = @ \/ Chat],
               IF Chat THEN Open # {} ELSE ~said.terminal)

SayError == Say(Plain("error"), [said EXCEPT !.ended = TRUE], TRUE)
SayBroken == Say(Plain("broken"), said, TRUE)

SayNothing ==
  /\ conn = "open" /\ Running /\ wire = <<>> /\ ~said.ended /\ wire' = KeepAlive
  /\ UNCHANGED <<endpoint, conn, said, fault, canceled, readerVars>>

(* The connection ends. What was not read yet is lost, but for a part of    *)
(* the next line perhaps. readSSE meets the end only after all that came    *)
(* before it: an end that comes while lines wait to be read is no other.    *)
Cut ==
  /\ conn = "open" /\ Running
  /\ \E torn \in BOOLEAN, end \in {"eof", "reset"} :
       LET lost == {wire[j] : j \in DOMAIN wire}
           left == torn /\ wire # <<>> /\ wire[1].field = "data"
       IN /\ wire' = IF left THEN <<[wire[1] EXCEPT !.half = 3]>> ELSE <<>>
          /\ conn' = end
          /\ fault' = (fault \/ end = "reset" \/ ~said.terminal \/ (\E l \in lost : l.field # ""))
          /\ said' = [said EXCEPT !.terminal =
               @ /\ ~\E l \in lost : l.field = "data" /\ l.event.kind = IF Chat THEN "[DONE]" ELSE "completed"]
  /\ UNCHANGED <<endpoint, canceled, readerVars>>

Cancel ==
  /\ Running /\ ~canceled /\ canceled' = TRUE
  /\ UNCHANGED <<conn, wire, providerVars, readerVars>>

Provider ==
  \/ SayDelta \/ SayOther \/ Complete \/ SayDone \/ SayError \/ SayBroken \/ SayNothing
  \/ \E i \in Indexes : OpenCall(i) \/ SayArguments(i) \/ CloseCall(i)

(***************************************************************************)
(* Client.doStreamRequest. An error or a refusal ends the pass; Do waits   *)
(* for the answer as long as the context lives.                            *)
(***************************************************************************)
Failure == IF canceled THEN "canceled" ELSE "failed"

Connect ==
  /\ conn = "requested" /\ Running
  /\ \/ conn' = "open" /\ UNCHANGED <<fault, outcome>>
     \/ conn' = "reset" /\ fault' = TRUE /\ outcome' = Failure   \* no answer
     \/ conn' = "eof" /\ fault' = TRUE /\ outcome' = Failure     \* a status or type that is no stream
  /\ UNCHANGED <<endpoint, wire, said, canceled, checked, reader, terminal, seen, gathered>>

ConnectCanceled ==
  /\ conn = "requested" /\ Running /\ canceled /\ outcome' = "canceled"
  /\ UNCHANGED <<endpoint, conn, wire, said, fault, canceled, checked, reader, terminal, seen, gathered>>

(***************************************************************************)
(* What the callback of runProviderPass makes of an event: it passes a     *)
(* delta of text on to the session, which refuses it once the context is   *)
(* done, and adds to the pass.                                             *)
(***************************************************************************)
Valid(event) ==
  CASE event.kind \in {"text", "reasoning"} -> event.n # 0
    [] event.kind = "call" -> event.id \/ event.n # 0
    [] OTHER -> TRUE
Refused(event) == event.kind \in {"text", "reasoning"} /\ canceled

(* The accumulator of a call: a delta is added to it, it is complete.       *)
Extended(call, event) ==
  [call EXCEPT !.known = TRUE, !.id = @ \/ event.id,
               !.args = IF event.n = 0 THEN @ ELSE Append(@, event.n)]
Completed(call) == [call EXCEPT !.known = TRUE, !.done = TRUE]

(* Mutant: reasoning overtakes the deltas before it. *)
Gather_ReasoningFirst(g, event) ==
  CASE event.kind = "text" ->
         [g EXCEPT !.text = Append(@, event.n), !.passed = Append(@, event.n)]
    [] event.kind = "reasoning" -> [g EXCEPT !.passed = <<event.n>> \o @]
    [] event.kind = "call" -> [g EXCEPT !.calls[event.i] = Extended(@, event)]
    [] event.kind = "callDone" -> [g EXCEPT !.calls[event.i] = Completed(@)]
    [] OTHER -> g
Gather(g, event) ==
  CASE event.kind = "text" ->
         [g EXCEPT !.text = Append(@, event.n), !.passed = Append(@, event.n)]
    [] event.kind = "reasoning" -> [g EXCEPT !.passed = Append(@, event.n)]
    [] event.kind = "call" -> [g EXCEPT !.calls[event.i] = Extended(@, event)]
    [] event.kind = "callDone" -> [g EXCEPT !.calls[event.i] = Completed(@)]
    [] OTHER -> g

MarkDone(g, indexes) ==
  [g EXCEPT !.calls = [i \in Indexes |->
     IF i \in indexes THEN Completed(g.calls[i]) ELSE g.calls[i]]]

(* The end of runProviderPass: every call is done and has an identity and  *)
(* arguments that are an object.                                           *)
Whole_NotDone(call) == call.id /\ call.args # <<>>
Whole(call) == call.done /\ call.id /\ call.args # <<>>
PassOutcome(g) == IF \A i \in Indexes : g.calls[i].known => Whole(g.calls[i]) THEN "ok" ELSE "failed"

(* streamChat and streamResponses once readSSE returned without an error.  *)
Return_Unchecked(g, t) == PassOutcome(g)
Return(g, t) == IF t THEN PassOutcome(g) ELSE Failure
GoOn(last) == IF last THEN Return(gathered', terminal') ELSE "running"

(***************************************************************************)
(* The decoders: what an event does to the pass, and whether reading goes  *)
(* on ("running"), ends, or ends the pass.                                 *)
(***************************************************************************)
ChatEvent(event, last) ==
  \/ /\ event.kind = "[DONE]" /\ terminal' = TRUE /\ outcome' = Return(gathered, TRUE)
     /\ UNCHANGED <<seen, gathered>>
  \/ /\ event.kind \in {"broken", "error"} /\ outcome' = Failure
     /\ UNCHANGED <<terminal, seen, gathered>>
  \/ LET empty == event.kind \in {"text", "reasoning"} /\ event.n = 0
         saw == IF event.kind = "call" THEN seen \cup {event.i} ELSE seen
         closed == IF event.finish = "tool_calls" THEN saw ELSE {}
         bad == ~empty /\ (~Valid(event) \/ Refused(event))
     IN /\ event.kind \in {"text", "reasoning", "call", "other"}
        /\ terminal' = terminal
        /\ seen' = saw
        /\ gathered' = IF bad THEN gathered
                       ELSE MarkDone(IF empty THEN gathered ELSE Gather(gathered, event), closed)
        /\ outcome' = IF bad THEN Failure ELSE GoOn(last)

ResponsesEvent(event, kind, last) ==
  /\ seen' = seen
  /\ \/ /\ event.kind = "[DONE]" /\ outcome' = Return(gathered, terminal)
        /\ UNCHANGED <<terminal, gathered>>
     \/ /\ kind \in {"broken", "error"} /\ outcome' = Failure
        /\ UNCHANGED <<terminal, gathered>>
     \/ /\ kind \in {"text", "reasoning", "call", "callDone"}
        /\ terminal' = terminal
        /\ LET bad == ~Valid(event) \/ Refused(event)
           IN /\ gathered' = IF bad THEN gathered ELSE Gather(gathered, event)
              /\ outcome' = IF bad THEN Failure ELSE GoOn(last)
     \/ /\ kind = "completed" /\ terminal' = TRUE /\ gathered' = gathered
        /\ outcome' = GoOn(last)
     \/ /\ kind \in {"other", ""} /\ UNCHANGED <<terminal, gathered>>
        /\ outcome' = GoOn(last)

(* A payload is JSON when it is all there, on one data line or on two.     *)
Intact(data) ==
  \/ Len(data) = 1 /\ data[1].half = 0
  \/ Len(data) = 2 /\ data[1].half = 1 /\ data[2].half = 2 /\ data[1].event = data[2].event
Decoded(data) == IF Intact(data) THEN data[1].event ELSE Plain("broken")
TypeOf(data) ==
  IF ~Intact(data) \/ data[1].event.kind = "broken" THEN "broken"
  ELSE IF data[1].typed THEN data[1].event.kind ELSE reader.name

Handle(data, last) ==
  IF Chat THEN ChatEvent(Decoded(data), last) ELSE ResponsesEvent(Decoded(data), TypeOf(data), last)

(***************************************************************************)
(* readSSE.                                                                *)
(***************************************************************************)
CheckContext_None ==
  /\ conn # "requested" /\ Running /\ ~checked
  /\ checked' = TRUE /\ outcome' = outcome
  /\ UNCHANGED <<endpoint, conn, wire, said, fault, canceled, reader, terminal, seen, gathered>>
CheckContext ==
  /\ conn # "requested" /\ Running /\ ~checked
  /\ IF canceled THEN outcome' = "canceled" /\ checked' = checked
                 ELSE checked' = TRUE /\ outcome' = outcome
  /\ UNCHANGED <<endpoint, conn, wire, said, fault, canceled, reader, terminal, seen, gathered>>

TooLarge(bytes) == bytes > MaxEventBytes

Fresh_KeepsBytes == [name |-> "", data |-> <<>>, bytes |-> reader.bytes]
Fresh == [name |-> "", data |-> <<>>, bytes |-> 0]

ReadLine ==
  /\ Running /\ checked /\ wire # <<>>
  /\ LET line == Head(wire)
         bytes == reader.bytes + line.size
     IN \/ /\ TooLarge(bytes) /\ outcome' = Failure
           /\ UNCHANGED <<reader, terminal, seen, gathered>>
        \/ /\ ~TooLarge(bytes) /\ line.field # ""
           /\ reader' = [name |-> IF line.field = "event" THEN line.event.kind ELSE reader.name,
                         data |-> IF line.field = "data" THEN Append(reader.data, line) ELSE reader.data,
                         bytes |-> bytes]
           /\ UNCHANGED <<terminal, seen, gathered, outcome>>
        \/ /\ line.field = "" /\ reader' = Fresh
           /\ IF reader.data = <<>> THEN UNCHANGED <<terminal, seen, gathered, outcome>>
              ELSE Handle(reader.data, FALSE)
  /\ wire' = Tail(wire) /\ checked' = FALSE
  /\ UNCHANGED <<endpoint, conn, said, fault, canceled>>

(* The end of the body is an empty line too: what was read is dispatched.  *)
ReadEOF ==
  /\ Running /\ checked /\ wire = <<>> /\ conn = "eof"
  /\ IF reader.data = <<>>
     THEN outcome' = Return(gathered, terminal) /\ UNCHANGED <<reader, terminal, seen, gathered>>
     ELSE Handle(reader.data, TRUE) /\ reader' = Fresh
  /\ checked' = FALSE
  /\ UNCHANGED <<endpoint, conn, wire, said, fault, canceled>>

ReadError ==
  /\ Running /\ checked /\ (canceled \/ (wire = <<>> /\ conn = "reset"))
  /\ outcome' = Failure /\ checked' = FALSE
  /\ UNCHANGED <<endpoint, conn, wire, said, fault, canceled, reader, terminal, seen, gathered>>

Reader == ConnectCanceled \/ CheckContext \/ ReadLine \/ ReadEOF \/ ReadError

Next == Provider \/ Cut \/ Cancel \/ Connect \/ Reader

Spec == Init /\ [][Next]_vars

(* Only the runner's own goroutine is scheduled fairly: the provider may   *)
(* fall silent, and the client sets no timeout.                            *)
FairSpec == Spec /\ WF_vars(Reader)

(***************************************************************************)
(* Properties.                                                             *)
(***************************************************************************)
Ended == ~Running

TypeOK ==
  /\ endpoint \in {"chat", "responses"} /\ conn \in {"requested", "open", "eof", "reset"}
  /\ \A j \in DOMAIN wire : wire[j].field \in {"", ":", "event", "data"}
  /\ fault \in BOOLEAN /\ canceled \in BOOLEAN /\ checked \in BOOLEAN /\ terminal \in BOOLEAN
  /\ reader.bytes \in 0..MaxEventBytes /\ Len(reader.data) <= MaxEventBytes
  /\ seen \subseteq Indexes
  /\ \A i \in Indexes : gathered.calls[i].args \in Seq(1..MaxFragments)
  /\ outcome \in {"running", "ok", "failed", "canceled"}

(* A response that was cut short is never taken for a complete one: a pass *)
(* succeeds only when the provider has sent the event that ends a          *)
(* response, and nothing broke before it (streamChat and streamResponses,  *)
(* "terminal event is missing").                                           *)
NoTruncatedSuccess ==
  outcome = "ok" => /\ said.terminal
                    /\ conn # "requested"
                    /\ Len(gathered.passed) = Len(said.deltas)

(* A pass that succeeds hands the runner exactly the calls the provider    *)
(* made, each complete, with its own argument fragments and no others, in  *)
(* the order they were sent, however the calls were interleaved            *)
(* (runProviderPass: the accumulators and "tool call is incomplete").      *)
WholeCalls ==
  outcome = "ok" => \A i \in Indexes :
    IF said.call[i] = "unsaid" THEN ~gathered.calls[i].known
    ELSE /\ said.call[i] = "closed" /\ gathered.calls[i].id
         /\ gathered.calls[i].args = [n \in 1..said.args[i] |-> n]

(* What the session was shown is always a prefix of what the provider      *)
(* said, and the pass's text is the text deltas among it: no delta is      *)
(* shown twice, skipped or reordered.                                      *)
ShownIsSaid ==
  /\ gathered.passed = [n \in 1..Len(gathered.passed) |-> n]
  /\ Len(gathered.passed) <= Len(said.deltas)
  /\ \A j, k \in DOMAIN gathered.text : j < k => gathered.text[j] < gathered.text[k]
  /\ {gathered.text[j] : j \in DOMAIN gathered.text} =
       {n \in DOMAIN gathered.passed : said.deltas[n] = "text"}

(* A complete response of a conforming provider is understood, whatever    *)
(* its events, its framing, keepalives, and the close after the last line: *)
(* a pass fails only for a fault of the provider, of the connection, or by *)
(* cancellation.                                                           *)
ConformingIsUnderstood == outcome = "failed" => fault

(* A pass ends when its context is done, even under a provider that keeps  *)
(* the connection busy, when the connection ends, and when a chat response *)
(* has ended even if the connection stays open.                            *)
PassEnds ==
  (canceled \/ conn \in {"eof", "reset"} \/ (Chat /\ said.ended)) ~> Ended
================================================================================
