------------------------- MODULE ProviderStreamProofs -------------------------
(***************************************************************************)
(* Proofs about ProviderStream: what the runner makes of a response agrees *)
(* with what the provider said, for any number of calls, deltas and        *)
(* fragments, and for any limit on the size of an event.                   *)
(***************************************************************************)
EXTENDS ProviderStream, SequenceTheorems, TLAPS

(***************************************************************************)
(* What has been gathered agrees with what has been said: all of it has    *)
(* been delivered.                                                         *)
(***************************************************************************)
Shown(g, s) ==
  /\ g.passed = [n \in 1..Len(g.passed) |-> n]
  /\ Len(g.passed) <= Len(s.deltas)
  /\ \A j, k \in DOMAIN g.text : j < k => g.text[j] < g.text[k]
  /\ {g.text[j] : j \in DOMAIN g.text} = {n \in DOMAIN g.passed : s.deltas[n] = "text"}

CallAgrees(call, state, args) ==
  /\ call.known <=> state # "unsaid"
  /\ call.id <=> state # "unsaid"
  /\ call.done <=> state = "closed"
  /\ call.args = [n \in 1..args |-> n]
  /\ state = "unsaid" => args = 0

CallsAgree(g, s) == \A i \in Indexes : CallAgrees(g.calls[i], s.call[i], s.args[i])

Settled(s, g, saw, t) ==
  /\ Shown(g, s) /\ Len(g.passed) = Len(s.deltas)
  /\ CallsAgree(g, s)
  /\ Chat => saw = {i \in Indexes : s.call[i] # "unsaid"}
  /\ t <=> s.terminal

(* What a conforming provider does not say.                                *)
Conforming(s) ==
  \A i \in Indexes :
    /\ s.call[i] = "closed" => s.args[i] # 0
    /\ s.terminal => s.call[i] # "open"

SaidType ==
  [deltas : Seq({"text", "reasoning"}), call : [Indexes -> {"unsaid", "open", "closed"}],
   args : [Indexes -> 0..MaxFragments], finished : BOOLEAN, terminal : BOOLEAN, ended : BOOLEAN]
CallType == [known : BOOLEAN, id : BOOLEAN, args : Seq(1..MaxFragments), done : BOOLEAN]
GatheredType == [text : Seq(Nat), passed : Seq(Nat), calls : [Indexes -> CallType]]

-----------------------------------------------------------------------------
(* Numbers in order                                                         *)

LEMMA CountUp ==
  ASSUME NEW m \in Nat
  PROVE  /\ [n \in 1..m |-> n] \in Seq(Nat) /\ Len([n \in 1..m |-> n]) = m
         /\ [n \in 1..m |-> n] \in Seq(1..m)
         /\ Append([n \in 1..m |-> n], m + 1) = [n \in 1..(m + 1) |-> n]
         /\ ([n \in 1..m |-> n] = <<>>) <=> m = 0
<1> DEFINE up(k) == [n \in 1..k |-> n]
<1>1. up(m) \in Seq(Nat) /\ up(m) \in Seq(1..m) /\ Len(up(m)) = m
  OBVIOUS
<1>2. Append(up(m), m + 1) = up(m + 1)
  <2>1. Append(up(m), m + 1) \in Seq(Nat) /\ up(m + 1) \in Seq(Nat)
    OBVIOUS
  <2>2. Len(Append(up(m), m + 1)) = m + 1 /\ Len(up(m + 1)) = m + 1
    OBVIOUS
  <2>3. \A n \in 1..(m + 1) : Append(up(m), m + 1)[n] = up(m + 1)[n]
    BY <1>1
  <2>4. QED
    BY <2>1, <2>2, <2>3, SeqEqual
<1>3. (up(m) = <<>>) <=> m = 0
  BY <1>1, EmptySeq
<1>4. QED
  BY <1>1, <1>2, <1>3
(***************************************************************************)
(* What a delta adds, when all that was said before it was delivered       *)
(***************************************************************************)

LEMMA CallTypes ==
  ASSUME NEW c \in CallType, NEW e, e.id \in BOOLEAN, e.n \in 0..MaxFragments
  PROVE  Extended(c, e) \in CallType /\ Completed(c) \in CallType
<1>1. Completed(c) \in CallType
  BY DEF Completed, CallType
<1> DEFINE more == IF e.n = 0 THEN c.args ELSE Append(c.args, e.n)
           id == c.id \/ e.id
<1>2. more \in Seq(1..MaxFragments)
  <2>1. c.args \in Seq(1..MaxFragments)
    BY DEF CallType
  <2>2. CASE e.n # 0
    <3>1. e.n \in 1..MaxFragments
      BY <2>2
    <3>2. QED
      BY <2>1, <2>2, <3>1
  <2>3. QED
    BY <2>1, <2>2
<1>3. id \in BOOLEAN
  OBVIOUS
<1>4. Extended(c, e) = [c EXCEPT !.known = TRUE, !.id = id, !.args = more]
  BY Zenon DEF Extended
<1>5. Extended(c, e) \in CallType
  <2> HIDE DEF id, more
  <2>1. QED
    BY <1>2, <1>3, <1>4 DEF CallType
<1>6. QED
  BY <1>1, <1>5

LEMMA GatherTypes ==
  ASSUME NEW g \in GatheredType, NEW e,
         e.kind \in {"text", "reasoning"} => e.n \in Nat,
         e.kind = "call" => e.n \in 0..MaxFragments /\ e.id \in BOOLEAN
  PROVE  Gather(g, e) \in GatheredType
<1>1. CASE e.kind \in {"text", "reasoning"}
  <2>1. Append(g.text, e.n) \in Seq(Nat) /\ Append(g.passed, e.n) \in Seq(Nat)
    BY <1>1 DEF GatheredType
  <2>2. CASE e.kind = "text"
    BY <2>1, <2>2 DEF Gather, GatheredType
  <2>3. CASE e.kind = "reasoning"
    BY <2>1, <2>3 DEF Gather, GatheredType
  <2>4. QED
    BY <1>1, <2>2, <2>3
<1>2. CASE e.kind = "call"
  <2>1. Gather(g, e) = [g EXCEPT !.calls[e.i] = Extended(@, e)]
    BY <1>2 DEF Gather
  <2>2. e.i \in Indexes => Extended(g.calls[e.i], e) \in CallType
    <3>1. e.n \in 0..MaxFragments /\ e.id \in BOOLEAN
      BY <1>2
    <3>2. e.i \in Indexes => g.calls[e.i] \in CallType
      BY DEF GatheredType
    <3>3. QED
      BY <3>1, <3>2, CallTypes
  <2>3. QED
    BY <2>1, <2>2 DEF GatheredType
<1>3. CASE e.kind = "callDone"
  <2>1. Gather(g, e) = [g EXCEPT !.calls[e.i] = Completed(@)]
    BY <1>3 DEF Gather
  <2>2. e.i \in Indexes => Completed(g.calls[e.i]) \in CallType
    BY DEF GatheredType, CallType, Completed
  <2>3. QED
    BY <2>1, <2>2 DEF GatheredType
<1>4. CASE e.kind \notin {"text", "reasoning", "call", "callDone"}
  BY <1>4 DEF Gather
<1>5. QED
  BY <1>1, <1>2, <1>3, <1>4

LEMMA MarkTypes ==
  ASSUME NEW g \in GatheredType, NEW J
  PROVE  MarkDone(g, J) \in GatheredType
BY DEF MarkDone, Completed, GatheredType, CallType

LEMMA DeltaSettles ==
  ASSUME NEW s \in SaidType, NEW g \in GatheredType, NEW saw, NEW t, Settled(s, g, saw, t),
         NEW e, e.kind \in {"text", "reasoning"}, e.n = Len(s.deltas) + 1
  PROVE  Settled([s EXCEPT !.deltas = Append(@, e.kind)], Gather(g, e), saw, t)
<1> DEFINE n == Len(s.deltas)
           u == [s EXCEPT !.deltas = Append(@, e.kind)]
           h == Gather(g, e)
<1>1. n \in Nat /\ s.deltas \in Seq({"text", "reasoning"}) /\ Len(u.deltas) = n + 1
      /\ (\A j \in 1..n : u.deltas[j] = s.deltas[j]) /\ u.deltas[n + 1] = e.kind /\ e.n = n + 1
  BY DEF SaidType
<1>2. g.text \in Seq(Nat) /\ g.passed \in Seq(Nat) /\ Len(g.passed) = n /\ Len(g.text) \in Nat
  BY DEF GatheredType, Settled
<1>3. g.passed = [j \in 1..n |-> j]
  BY <1>2 DEF Settled, Shown
<1>4. h.passed = [j \in 1..(n + 1) |-> j] /\ Len(h.passed) = n + 1 /\ DOMAIN h.passed = 1..(n + 1)
  <2>1. h.passed = Append(g.passed, n + 1)
    BY DEF Gather, GatheredType
  <2>2. QED
    BY <2>1, <1>1, <1>3, CountUp
<1>5. h.calls = g.calls /\ u.call = s.call /\ u.args = s.args /\ u.terminal = s.terminal
  BY DEF Gather, GatheredType, SaidType
<1> HIDE DEF n
<1>6. CASE e.kind = "reasoning"
  <2>1. h.text = g.text
    BY <1>6 DEF Gather, GatheredType
  <2>2. {j \in 1..(n + 1) : u.deltas[j] = "text"} = {j \in 1..n : s.deltas[j] = "text"}
    BY <1>1, <1>6
  <2>3. DOMAIN g.passed = 1..n
    BY <1>3
  <2>4. QED
    BY <1>1, <1>2, <1>4, <1>5, <2>1, <2>2, <2>3 DEF Settled, Shown, CallsAgree
<1>7. CASE e.kind = "text"
  <2> DEFINE m == Len(g.text)
  <2>1. h.text = Append(g.text, n + 1)
    BY <1>1, <1>7 DEF Gather, GatheredType
  <2>2. m \in Nat /\ DOMAIN h.text = 1..(m + 1) /\ DOMAIN g.text = 1..m /\ DOMAIN g.passed = 1..n
    BY <1>1, <1>2, <2>1, <1>3
  <2>3. (\A j \in 1..m : h.text[j] = g.text[j]) /\ h.text[m + 1] = n + 1
    BY <1>1, <1>2, <2>1
  <2>4. \A j \in 1..m : g.text[j] \in 1..n /\ s.deltas[g.text[j]] = "text"
    BY <2>2 DEF Settled, Shown
  <2> HIDE DEF m, u, h
  <2>5. ASSUME NEW j \in DOMAIN h.text, NEW k \in DOMAIN h.text, j < k PROVE h.text[j] < h.text[k]
    <3>1. CASE k \in 1..m
      BY <2>2, <2>3, <2>5, <3>1 DEF Settled, Shown
    <3>2. CASE k = m + 1
      BY <1>1, <1>2, <2>2, <2>3, <2>4, <2>5, <3>2
    <3>3. QED
      BY <1>2, <2>2, <3>1, <3>2
  <2>6. {h.text[j] : j \in DOMAIN h.text} = {g.text[j] : j \in DOMAIN g.text} \cup {n + 1}
    <3>1. \A j \in 1..m : h.text[j] \in {g.text[k] : k \in 1..m}
      BY <2>3
    <3>2. \A j \in 1..(m + 1) : j \in 1..m \/ j = m + 1
      BY <2>2
    <3>3. \A k \in 1..m : k \in 1..(m + 1) /\ g.text[k] = h.text[k]
      BY <2>2, <2>3
    <3>4. m + 1 \in 1..(m + 1)
      BY <2>2
    <3>5. QED
      BY <2>2, <2>3, <3>1, <3>2, <3>3, <3>4
  <2>7. {j \in 1..(n + 1) : u.deltas[j] = "text"} = {j \in 1..n : s.deltas[j] = "text"} \cup {n + 1}
    BY <1>1, <1>7
  <2>8. Shown(h, u) /\ CallsAgree(h, u)
    <3>1. {g.text[j] : j \in DOMAIN g.text} = {j \in 1..n : s.deltas[j] = "text"}
      BY <2>2 DEF Settled, Shown
    <3>2. {h.text[j] : j \in DOMAIN h.text} = {j \in DOMAIN h.passed : u.deltas[j] = "text"}
      BY <1>4, <2>6, <2>7, <3>1
    <3>3. Len(h.passed) <= Len(u.deltas) /\ h.passed = [j \in 1..Len(h.passed) |-> j]
      BY <1>1, <1>4
    <3>4. CallsAgree(h, u)
      BY <1>5 DEF Settled, CallsAgree
    <3>5. QED
      BY <2>5, <3>2, <3>3, <3>4 DEF Shown
  <2>9. Len(h.passed) = Len(u.deltas)
    BY <1>1, <1>4
  <2>10. QED
    BY <1>5, <2>8, <2>9 DEF Settled, u, h
<1>8. QED
  BY <1>6, <1>7
(***************************************************************************)
(* What an event says of a call                                            *)
(***************************************************************************)

LEMMA ExtendedAgrees ==
  ASSUME NEW c \in CallType, NEW state \in {"unsaid", "open"}, NEW a \in Nat, CallAgrees(c, state, a),
         NEW e, e.id \in BOOLEAN, e.id \/ state = "open", e.n \in {0, a + 1}
  PROVE  CallAgrees(Extended(c, e), "open", IF e.n = 0 THEN a ELSE a + 1)
<1> DEFINE d == Extended(c, e)
           more == IF e.n = 0 THEN c.args ELSE Append(c.args, e.n)
<1>1. d.known /\ d.done = c.done /\ d.args = more
  BY DEF Extended, CallType
<1>2. d.id = (c.id \/ e.id)
  BY Zenon DEF Extended, CallType
<1>3. d.id
  BY <1>2 DEF CallAgrees
<1>4. ~d.done
  BY <1>1 DEF CallAgrees, CallType
<1>5. more = [n \in 1..(IF e.n = 0 THEN a ELSE a + 1) |-> n]
  <2>1. CASE e.n = 0
    BY <2>1 DEF CallAgrees
  <2>2. CASE e.n # 0
    <3>1. e.n = a + 1 /\ c.args = [n \in 1..a |-> n]
      BY <2>2 DEF CallAgrees
    <3>2. QED
      BY <2>2, <3>1, CountUp
  <2>3. QED
    BY <2>1, <2>2
<1> HIDE DEF d, more
<1>6. CallAgrees(d, "open", IF e.n = 0 THEN a ELSE a + 1)
  BY <1>1, <1>3, <1>4, <1>5 DEF CallAgrees
<1>7. QED
  BY <1>6 DEF d

LEMMA CompletedAgrees ==
  ASSUME NEW c \in CallType, NEW state \in {"open", "closed"}, NEW a, CallAgrees(c, state, a)
  PROVE  CallAgrees(Completed(c), "closed", a)
BY DEF CallAgrees, Completed, CallType

LEMMA SameDeltas ==
  ASSUME NEW s, NEW g, NEW u, NEW h, Shown(g, s),
         u.deltas = s.deltas, h.text = g.text, h.passed = g.passed
  PROVE  Shown(h, u)
BY DEF Shown

(* An argument delta, of a new call or of an open one. *)
LEMMA CallSettles ==
  ASSUME NEW s \in SaidType, NEW g \in GatheredType, NEW saw, NEW t, Settled(s, g, saw, t),
         NEW i \in Indexes, s.call[i] # "closed",
         NEW e, e.kind = "call", e.i = i, e.id \in BOOLEAN, e.n \in {0, s.args[i] + 1},
         e.id \/ s.call[i] = "open",
         NEW u \in SaidType, u.deltas = s.deltas, u.terminal = s.terminal,
         u.call = [s.call EXCEPT ![i] = "open"],
         u.args = [s.args EXCEPT ![i] = IF e.n = 0 THEN @ ELSE @ + 1]
  PROVE  Settled(u, Gather(g, e), IF Chat THEN saw \cup {i} ELSE saw, t)
<1> DEFINE h == Gather(g, e)
<1>1. h.text = g.text /\ h.passed = g.passed
      /\ h.calls = [g.calls EXCEPT ![i] = Extended(g.calls[i], e)]
  BY DEF Gather, GatheredType
<1>2. /\ s.args \in [Indexes -> 0..MaxFragments] /\ s.call \in [Indexes -> {"unsaid", "open", "closed"}]
      /\ g.calls \in [Indexes -> CallType]
  BY DEF SaidType, GatheredType
<1>3. CallAgrees(Extended(g.calls[i], e), "open", IF e.n = 0 THEN s.args[i] ELSE s.args[i] + 1)
  <2>1. CallAgrees(g.calls[i], s.call[i], s.args[i])
    BY DEF Settled, CallsAgree
  <2>2. g.calls[i] \in CallType /\ s.call[i] \in {"unsaid", "open"} /\ s.args[i] \in Nat
    BY <1>2
  <2>3. QED
    BY <2>1, <2>2, ExtendedAgrees
<1> HIDE DEF h
<1>4. ASSUME NEW j \in Indexes PROVE CallAgrees(h.calls[j], u.call[j], u.args[j])
  <2>1. CASE j = i
    BY <1>1, <1>2, <1>3, <2>1
  <2>2. CASE j # i
    BY <1>1, <1>2, <2>2 DEF Settled, CallsAgree
  <2>3. QED
    BY <2>1, <2>2
<1>5. Chat => saw \cup {i} = {j \in Indexes : u.call[j] # "unsaid"}
  BY <1>2 DEF Settled
<1>6. Shown(h, u) /\ Len(h.passed) = Len(u.deltas)
  BY <1>1, SameDeltas DEF Settled
<1>7. Settled(u, h, IF Chat THEN saw \cup {i} ELSE saw, t)
  BY <1>4, <1>5, <1>6 DEF Settled, CallsAgree
<1>8. QED
  BY <1>7 DEF h

(* The end of a call, of a Responses stream. *)
LEMMA CallDoneSettles ==
  ASSUME NEW s \in SaidType, NEW g \in GatheredType, NEW saw, NEW t, Settled(s, g, saw, t), ~Chat,
         NEW i \in Indexes, s.call[i] # "unsaid", NEW e, e.kind = "callDone", e.i = i
  PROVE  Settled([s EXCEPT !.call[i] = "closed"], Gather(g, e), saw, t)
<1> DEFINE h == Gather(g, e)
           u == [s EXCEPT !.call[i] = "closed"]
<1>1. h.text = g.text /\ h.passed = g.passed
      /\ h.calls = [g.calls EXCEPT ![i] = Completed(g.calls[i])]
  BY DEF Gather, GatheredType
<1>2. u.deltas = s.deltas /\ u.terminal = s.terminal /\ u.args = s.args
      /\ u.call = [s.call EXCEPT ![i] = "closed"]
  BY DEF SaidType
<1>3. /\ s.call \in [Indexes -> {"unsaid", "open", "closed"}] /\ g.calls \in [Indexes -> CallType]
  BY DEF SaidType, GatheredType
<1>4. CallAgrees(Completed(g.calls[i]), "closed", s.args[i])
  <2>1. CallAgrees(g.calls[i], s.call[i], s.args[i])
    BY DEF Settled, CallsAgree
  <2>2. g.calls[i] \in CallType /\ s.call[i] \in {"open", "closed"}
    BY <1>3
  <2>3. QED
    BY <2>1, <2>2, CompletedAgrees
<1> HIDE DEF h, u
<1>5. ASSUME NEW j \in Indexes PROVE CallAgrees(h.calls[j], u.call[j], u.args[j])
  <2>1. CASE j = i
    BY <1>1, <1>2, <1>3, <1>4, <2>1
  <2>2. CASE j # i
    BY <1>1, <1>2, <1>3, <2>2 DEF Settled, CallsAgree
  <2>3. QED
    BY <2>1, <2>2
<1>6. Shown(h, u) /\ Len(h.passed) = Len(u.deltas)
  BY <1>1, <1>2, SameDeltas DEF Settled
<1>7. Settled(u, h, saw, t)
  BY <1>2, <1>5, <1>6 DEF Settled, CallsAgree
<1>8. QED
  BY <1>7 DEF h, u

(* A finish reason closes the calls that are open, on both sides.           *)
LEMMA ClosingSettles ==
  ASSUME NEW s \in SaidType, NEW g \in GatheredType, NEW saw, NEW t, Settled(s, g, saw, t), Chat,
         NEW f \in Finishes
  PROVE  Settled(Closing(s, f), MarkDone(g, IF f = "tool_calls" THEN saw ELSE {}), saw, t)
<1> DEFINE J == IF f = "tool_calls" THEN saw ELSE {}
           h == MarkDone(g, J)
           u == Closing(s, f)
<1>1. h.text = g.text /\ h.passed = g.passed
      /\ h.calls = [i \in Indexes |-> IF i \in J THEN Completed(g.calls[i]) ELSE g.calls[i]]
  BY DEF MarkDone, GatheredType
<1>2. u.deltas = s.deltas /\ u.terminal = s.terminal /\ u.args = s.args
  BY DEF Closing, SaidType, Finishes
<1>3. \A i \in Indexes : u.call[i] = IF f = "tool_calls" /\ s.call[i] = "open" THEN "closed" ELSE s.call[i]
  BY DEF Closing, SaidType, Finishes
<1>4. /\ s.call \in [Indexes -> {"unsaid", "open", "closed"}] /\ g.calls \in [Indexes -> CallType]
  BY DEF SaidType, GatheredType
<1>5. saw = {i \in Indexes : s.call[i] # "unsaid"}
  BY DEF Settled
<1> HIDE DEF h, u
<1>6. ASSUME NEW i \in Indexes PROVE CallAgrees(h.calls[i], u.call[i], u.args[i])
  <2>1. CallAgrees(g.calls[i], s.call[i], s.args[i])
    BY DEF Settled, CallsAgree
  <2>2. CASE f = "tool_calls" /\ s.call[i] # "unsaid"
    <3>1. CallAgrees(Completed(g.calls[i]), "closed", s.args[i])
      BY <1>4, <2>1, <2>2, CompletedAgrees
    <3>2. h.calls[i] = Completed(g.calls[i]) /\ u.call[i] = "closed"
      BY <1>1, <1>3, <1>4, <1>5, <2>2
    <3>3. QED
      BY <1>2, <3>1, <3>2
  <2>3. CASE f # "tool_calls" \/ s.call[i] = "unsaid"
    BY <1>1, <1>2, <1>3, <1>5, <2>1, <2>3
  <2>4. QED
    BY <2>2, <2>3
<1>7. saw = {i \in Indexes : u.call[i] # "unsaid"}
  BY <1>3, <1>5
<1>8. Shown(h, u) /\ Len(h.passed) = Len(u.deltas)
  BY <1>1, <1>2, SameDeltas DEF Settled
<1>9. Settled(u, h, saw, t)
  BY <1>2, <1>6, <1>7, <1>8 DEF Settled, CallsAgree
<1>10. QED
  BY <1>9 DEF h, u
(***************************************************************************)
(* The invariant. At most one event is on its way: its lines are on the    *)
(* wire or with the reader.                                                *)
(***************************************************************************)
Kinds ==
  {"text", "reasoning", "call", "callDone", "other", "completed", "[DONE]", "error", "broken"}
Chunks == {"text", "reasoning", "call", "callDone", "other"}
Closers == {"[DONE]", "error", "broken"}
Events ==
  [kind : Kinds, n : 0..(MaxDeltas + MaxFragments), i : Indexes \cup {0}, id : BOOLEAN,
   finish : Finishes]

LineType ==
  [field : {"", ":", "event", "data"}, event : Events, half : 0..3, typed : BOOLEAN, size : Nat]

(* What the decoder makes of an event. *)
Empty(e) == e.kind \in {"text", "reasoning"} /\ e.n = 0
Added(e) == IF Empty(e) THEN gathered ELSE Gather(gathered, e)
AfterSeen(e) == IF Chat /\ e.kind = "call" THEN seen \cup {e.i} ELSE seen
AfterTerminal(e) == terminal \/ e.kind = "completed" \/ (Chat /\ e.kind = "[DONE]")
Marked(e) == IF e.finish = "tool_calls" THEN AfterSeen(e) ELSE {}
After(e) ==
  IF e.kind \notin Chunks THEN gathered
  ELSE IF Chat THEN MarkDone(Added(e), Marked(e)) ELSE Added(e)

(* The unread lines, with the empty line at their end unless it was cut off. *)
Left0 == wire = <<Blank>> \/ (conn # "open" /\ wire = <<>>)
Left1(l) == wire = <<l, Blank>> \/ (conn # "open" /\ wire = <<l>>)
Left2(l, m) == wire = <<l, m, Blank>> \/ (conn # "open" /\ wire = <<l, m>>)

Read(name, data, bytes) == [name |-> name, data |-> data, bytes |-> bytes]
NameLine(e) == Line("event", e, 0, TRUE, 1)
Untyped(e) == Line("data", e, 0, FALSE, 1)
Large(e) == Line("data", e, 0, TRUE, MaxEventBytes + 1)
Named(e) == ~Chat /\ e.kind # "[DONE]"

(* All data lines of the event are still to be read, or read in part, ...   *)
Unread(e) ==
  \/ reader = Fresh /\ Left1(Data(e, 0))
  \/ reader = Fresh /\ Left2(Data(e, 1), Data(e, 2))
  \/ reader = Fresh /\ Left2(Comment, Data(e, 0))
  \/ reader = Fresh /\ Named(e) /\ Left2(NameLine(e), Untyped(e))
  \/ reader = Fresh /\ fault /\ Left1(Large(e))
  \/ reader = Read("", <<Data(e, 1)>>, 1) /\ Left1(Data(e, 2))
  \/ reader = Read("", <<>>, 1) /\ Left1(Data(e, 0))
  \/ reader = Read(e.kind, <<>>, 1) /\ Named(e) /\ Left1(Untyped(e))
(* ... or it waits for its end. *)
ReadWhole(e) ==
  \/ reader = Read("", <<Data(e, 0)>>, 1)
  \/ reader = Read("", <<Data(e, 0)>>, 2)
  \/ reader = Read("", <<Data(e, 1), Data(e, 2)>>, 2)
  \/ reader = Read(e.kind, <<Untyped(e)>>, 2) /\ Named(e)
Carried(e) == Unread(e) \/ (ReadWhole(e) /\ Left0)

(* No event is on its way. *)
Nothing ==
  \/ reader = Fresh /\ wire = <<>>
  \/ reader = Fresh /\ Left1(Comment)
  \/ reader = Read("", <<>>, 1) /\ Left0

Expected(e, s) ==
  /\ e.kind \notin {"error", "broken"}
  /\ Valid(e) \/ (Chat /\ Empty(e))
  /\ e.kind = "[DONE]" => s.terminal

SaidBy(e, s) ==
  /\ Chat => e.kind \notin {"callDone", "completed"}
  /\ e.kind \in {"call", "callDone"} => e.i \in Indexes
  /\ After(e) \in GatheredType
  /\ Settled(s, After(e), AfterSeen(e), AfterTerminal(e))
  /\ terminal => e.kind \in Closers /\ Settled(s, gathered, seen, terminal)

Idle == Nothing /\ Settled(said, gathered, seen, terminal)
Pending(e) == Carried(e) /\ SaidBy(e, said) /\ (fault \/ Expected(e, said))

(* The last event was cut off before its last line: what is left of it, on  *)
(* the wire or with the reader, is no payload.                              *)
Useless(line) == line.half \in {1, 3} /\ line.size \in Nat \ {0}
BrokenOff ==
  /\ conn # "open" /\ fault
  /\ wire \in Seq(LineType)
  /\ \A j \in DOMAIN wire : wire[j].field = "data" => Useless(wire[j])
  /\ \A j \in DOMAIN reader.data : reader.data[j].half \in {1, 3}
  /\ terminal => Settled(said, gathered, seen, terminal)

ReadOK ==
  /\ said \in SaidType /\ Len(said.deltas) <= MaxDeltas
  /\ gathered \in GatheredType
  /\ reader.data \in Seq(LineType)
  /\ Len(reader.data) <= reader.bytes
  /\ reader = Read(reader.name, reader.data, reader.bytes)

ConnInv ==
  /\ conn = "requested" => ~checked /\ ~fault /\ wire = <<>> /\ reader = Fresh
  /\ conn = "reset" => fault
  /\ conn = "eof" => fault \/ said.terminal
  /\ fault \/ Conforming(said)
  /\ Chat /\ Running => ~terminal

PassInv == Running => Idle \/ BrokenOff \/ \E e \in Events : Pending(e)

EndInv ==
  /\ outcome = "failed" => fault
  /\ outcome = "ok" =>
       /\ conn # "requested" /\ terminal
       /\ Settled(said, gathered, seen, terminal) /\ PassOutcome(gathered) = "ok"

IInv == TypeOK /\ ReadOK /\ ShownIsSaid /\ ConnInv /\ PassInv /\ EndInv

(***************************************************************************)
(* The provider says something: all that was said before was delivered     *)
(***************************************************************************)

LEMMA OpenIsIdle ==
  ASSUME IInv, Running, conn = "open", wire = <<>>
  PROVE  reader = Fresh /\ Settled(said, gathered, seen, terminal)
<1>1. ~BrokenOff
  BY DEF BrokenOff
<1>2. ASSUME NEW e \in Events PROVE ~Pending(e)
  BY DEF Pending, Carried, Unread, Left0, Left1, Left2
<1>3. Idle
  BY <1>1, <1>2 DEF IInv, PassInv
<1>4. QED
  BY <1>3 DEF Idle, Nothing, Left0, Left1

(* What must hold of an event and of what it makes of said. *)
Sayable(e, s, bad) ==
  /\ e \in Events /\ SaidBy(e, s)
  /\ s \in SaidType /\ Len(s.deltas) <= MaxDeltas /\ Shown(gathered, s)
  /\ fault \/ bad \/ (Expected(e, s) /\ Conforming(s))

LEMMA LinesOf ==
  /\ \A a : \A j \in DOMAIN <<a>> : <<a>>[j] = a
  /\ \A a, b : \A j \in DOMAIN <<a, b>> : <<a, b>>[j] = a \/ <<a, b>>[j] = b
  /\ \A a, b, c : \A j \in DOMAIN <<a, b, c>> :
       <<a, b, c>>[j] = a \/ <<a, b, c>>[j] = b \/ <<a, b, c>>[j] = c
OBVIOUS

LEMMA SayStep ==
  ASSUME IInv, NEW e, NEW s, NEW bad \in BOOLEAN, Say(e, s, bad), Sayable(e, s, bad)
  PROVE  IInv'
<1>1. /\ conn = "open" /\ conn' = "open" /\ Running /\ wire = <<>> /\ said' = s
      /\ fault' \in BOOLEAN /\ (fault => fault') /\ (bad => fault')
      /\ UNCHANGED <<endpoint, canceled, checked, reader, terminal, seen, gathered, outcome>>
  BY DEF Say, readerVars, IInv, TypeOK
<1>2. reader' = Fresh
  BY <1>1, OpenIsIdle
<1>3. Carried(e)'
  <2>1. CASE wire' = Oversized(e) /\ fault' = TRUE
    BY <1>2, <2>1 DEF Carried, Unread, Left1, Oversized, Large
  <2>2. CASE wire' \in Frames(e)
    <3>1. Named(e)' <=> (endpoint = "responses" /\ e.kind # "[DONE]")
      BY <1>1 DEF Named, Chat, IInv, TypeOK
    <3>2. \/ wire' = <<Data(e, 0), Blank>> \/ wire' = <<Data(e, 1), Data(e, 2), Blank>>
          \/ wire' = <<Comment, Data(e, 0), Blank>>
          \/ Named(e)' /\ wire' = <<NameLine(e), Untyped(e), Blank>>
      BY <2>2, <3>1 DEF Frames, NameLine, Untyped
    <3>3. QED
      BY <1>2, <3>2 DEF Carried, Unread, Left1, Left2
  <2>3. QED
    BY <2>1, <2>2 DEF Say
<1>4. SaidBy(e, s)' <=> SaidBy(e, s)
  BY <1>1 DEF SaidBy, Settled, After, AfterSeen, AfterTerminal, Marked, Added, Chat
<1>5. Pending(e)'
  <2>1. fault' \/ Expected(e, s)
    BY <1>1 DEF Sayable
  <2>2. Expected(e, s)' <=> Expected(e, s)
    BY <1>1 DEF Expected, Chat
  <2>3. QED
    BY <1>1, <1>3, <1>4, <2>1, <2>2 DEF Pending, Sayable
<1>6. TypeOK'
  <2>1. \A j \in DOMAIN wire' : wire'[j].field \in {"", ":", "event", "data"}
    <3>1. /\ Blank.field = "" /\ Comment.field = ":" /\ Data(e, 0).field = "data"
          /\ Data(e, 1).field = "data" /\ Data(e, 2).field = "data"
          /\ Line("event", e, 0, TRUE, 1).field = "event"
          /\ Line("data", e, 0, FALSE, 1).field = "data"
          /\ Line("data", e, 0, TRUE, MaxEventBytes + 1).field = "data"
      BY DEF Blank, Comment, Data, Line
    <3>2. CASE wire' = Oversized(e)
      BY <3>1, <3>2, LinesOf DEF Oversized
    <3>3. CASE wire' \in Frames(e)
      <4>1. CASE wire' = <<Data(e, 0), Blank>>
        <5>1. \A j \in DOMAIN wire' : wire'[j] = Data(e, 0) \/ wire'[j] = Blank
          BY <4>1, LinesOf
        <5>2. QED
          BY <3>1, <5>1
      <4>2. CASE wire' = <<Data(e, 1), Data(e, 2), Blank>>
        <5>1. \A j \in DOMAIN wire' : wire'[j] = Data(e, 1) \/ wire'[j] = Data(e, 2) \/ wire'[j] = Blank
          BY <4>2, LinesOf
        <5>2. QED
          BY <3>1, <5>1
      <4>3. CASE wire' = <<Comment, Data(e, 0), Blank>>
        <5>1. \A j \in DOMAIN wire' : wire'[j] = Comment \/ wire'[j] = Data(e, 0) \/ wire'[j] = Blank
          BY <4>3, LinesOf
        <5>2. QED
          BY <3>1, <5>1
      <4>4. CASE wire' = <<Line("event", e, 0, TRUE, 1), Line("data", e, 0, FALSE, 1), Blank>>
        <5>1. \A j \in DOMAIN wire' : \/ wire'[j] = Line("event", e, 0, TRUE, 1)
                                        \/ wire'[j] = Line("data", e, 0, FALSE, 1)
                                        \/ wire'[j] = Blank
          BY <4>4, LinesOf
        <5>2. QED
          BY <3>1, <5>1
      <4>5. QED
        BY <3>3, <4>1, <4>2, <4>3, <4>4 DEF Frames
    <3>4. QED
      BY <3>2, <3>3 DEF Say
  <2>2. QED
    BY <1>1, <2>1 DEF IInv, TypeOK
<1>7. ReadOK'
  BY <1>1 DEF IInv, ReadOK, Sayable, Read
<1>8. ShownIsSaid'
  BY <1>1 DEF Sayable, Shown, ShownIsSaid
<1>9. ConnInv'
  <2>1. fault' \/ Conforming(s)
    BY <1>1 DEF Sayable
  <2>2. QED
    BY <1>1, <2>1 DEF IInv, ConnInv, Running, Chat
<1>10. EndInv'
  BY <1>1 DEF EndInv, Running
<1>11. QED
  BY <1>5, <1>6, <1>7, <1>8, <1>9, <1>10 DEF IInv, PassInv, Sayable

LEMMA StillShown ==
  ASSUME IInv, NEW s, s.deltas = said.deltas \/ \E kind : s.deltas = Append(said.deltas, kind)
  PROVE  Shown(gathered, s)
<1>1. said.deltas \in Seq({"text", "reasoning"}) /\ gathered.passed \in Seq(Nat)
  BY DEF IInv, ReadOK, SaidType, GatheredType
<1>2. Len(said.deltas) <= Len(s.deltas) /\ \A n \in 1..Len(said.deltas) : s.deltas[n] = said.deltas[n]
  BY <1>1
<1>3. DOMAIN gathered.passed \subseteq 1..Len(said.deltas) /\ Len(gathered.passed) \in Nat
      /\ Len(said.deltas) \in Nat /\ Len(s.deltas) \in Nat
  BY <1>1 DEF IInv, ShownIsSaid
<1>4. {n \in DOMAIN gathered.passed : s.deltas[n] = "text"}
        = {n \in DOMAIN gathered.passed : said.deltas[n] = "text"}
  BY <1>2, <1>3
<1>5. QED
  BY <1>2, <1>3, <1>4 DEF IInv, ShownIsSaid, Shown

(* A chunk of a response that goes on: e is what it says, with whatever     *)
(* finish reason it comes.                                                  *)
LEMMA ChunkStep ==
  ASSUME IInv, NEW e \in Events, NEW s \in SaidType, NEW bad \in BOOLEAN, SayChunk(e, s, bad),
         e.kind \in Chunks, Chat => e.kind # "callDone",
         e.kind \in {"call", "callDone"} => e.i \in Indexes,
         Settled(s, Added(e), AfterSeen(e), terminal), Added(e) \in GatheredType,
         Len(s.deltas) <= MaxDeltas, s.deltas = said.deltas \/ \E kind : s.deltas = Append(said.deltas, kind),
         fault \/ bad \/ (Expected(e, s) /\ Conforming(s))
  PROVE  IInv'
<1>1. PICK f \in Finishes : /\ f = "" \/ Chat
                            /\ Say([e EXCEPT !.finish = f], Closing(s, f), bad \/ IllClosed(s, f))
  BY DEF SayChunk
<1> DEFINE m == [e EXCEPT !.finish = f]
           u == Closing(s, f)
<1>2. m \in Events /\ m.kind = e.kind /\ m.n = e.n /\ m.i = e.i /\ m.id = e.id /\ m.finish = f
  BY DEF Events
<1>3. Added(m) = Added(e) /\ AfterSeen(m) = AfterSeen(e)
  BY <1>2 DEF Added, Empty, Gather, Extended, AfterSeen
<1>4. u \in SaidType /\ u.deltas = s.deltas /\ u.terminal = s.terminal /\ u.args = s.args
  BY DEF Closing, SaidType, Finishes
<1>5. ~terminal /\ ~s.terminal
  BY <1>1, OpenIsIdle DEF SayChunk, Speaking, Say, Settled
<1>6. Settled(u, After(m), AfterSeen(m), AfterTerminal(m))
  <2>1. AfterTerminal(m) = terminal
    BY <1>2 DEF AfterTerminal, Chunks, IInv, TypeOK
  <2>2. CASE Chat
    BY <1>2, <1>3, <2>1, <2>2, ClosingSettles DEF After, Marked
  <2>3. CASE ~Chat
    <3>1. u = s
      BY <1>1, <2>3 DEF Closing
    <3>2. QED
      BY <1>2, <1>3, <2>1, <2>3, <3>1 DEF After
  <2>4. QED
    BY <2>2, <2>3
<1>7. SaidBy(m, u)
  <2>2. After(m) \in GatheredType
    <3>1. After(m) = gathered \/ After(m) = Added(m) \/ After(m) = MarkDone(Added(m), Marked(m))
      BY DEF After
    <3>2. gathered \in GatheredType
      BY DEF IInv, ReadOK
    <3>3. QED
      BY <1>3, <3>1, <3>2, MarkTypes
  <2>3. QED
    BY <1>2, <1>5, <1>6, <2>2 DEF SaidBy, Chunks
<1>8. Shown(gathered, u)
  <2>1. u.deltas = said.deltas \/ \E kind : u.deltas = Append(said.deltas, kind)
    BY <1>4
  <2> HIDE DEF u
  <2>2. QED
    BY <2>1, StillShown
<1>9. fault \/ bad \/ IllClosed(s, f) \/ (Expected(m, u) /\ Conforming(u))
  <2>1. ASSUME ~fault, ~bad, ~IllClosed(s, f) PROVE Expected(m, u) /\ Conforming(u)
    <3>1. Expected(m, u)
      BY <1>2, <2>1 DEF Expected, Valid, Empty, Chunks
    <3>2. \A i \in Indexes : u.call[i] = "closed" => s.args[i] # 0
      BY <2>1 DEF Closing, SaidType, Finishes, IllClosed, Conforming
    <3>3. QED
      BY <1>4, <1>5, <3>1, <3>2 DEF Conforming
  <2>2. QED
    BY <2>1
<1>10. (bad \/ IllClosed(s, f)) \in BOOLEAN
  BY DEF IllClosed
<1> HIDE DEF m, u
<1>11. Sayable(m, u, bad \/ IllClosed(s, f))
  BY <1>2, <1>4, <1>7, <1>8, <1>9 DEF Sayable
<1>12. QED
  BY <1>1, <1>10, <1>11, SayStep DEF m, u
LEMMA DeltaEvent ==
  ASSUME NEW kind \in Kinds, NEW n \in 0..(MaxDeltas + MaxFragments)
  PROVE  /\ Delta(kind, n) \in Events /\ Delta(kind, n).kind = kind /\ Delta(kind, n).n = n
         /\ Plain(kind) \in Events /\ Plain(kind).kind = kind /\ Plain(kind).n = 0
         /\ Plain(kind).finish = ""
BY StreamAssumption DEF Delta, Plain, Events, Finishes

LEMMA CallEvent ==
  ASSUME NEW i \in Indexes, NEW id \in BOOLEAN, NEW n \in 0..(MaxDeltas + MaxFragments)
  PROVE  /\ CallDelta(i, id, n) \in Events /\ CallDelta(i, id, n).kind = "call"
         /\ CallDelta(i, id, n).n = n /\ CallDelta(i, id, n).i = i /\ CallDelta(i, id, n).id = id
<1>1. Delta("call", n) \in Events /\ Delta("call", n).kind = "call" /\ Delta("call", n).n = n
  BY DeltaEvent DEF Kinds
<1>2. QED
  BY <1>1 DEF CallDelta, Events

LEMMA CallDoneEvent ==
  ASSUME NEW i \in Indexes
  PROVE  CallDone(i) \in Events /\ CallDone(i).kind = "callDone" /\ CallDone(i).i = i
<1>1. 0 \in 0..(MaxDeltas + MaxFragments) /\ "callDone" \in Kinds
  BY StreamAssumption DEF Kinds
<1>2. Plain("callDone") \in Events /\ Plain("callDone").kind = "callDone"
  BY <1>1, DeltaEvent
<1>3. QED
  BY <1>2 DEF CallDone, Events

LEMMA DeltaStep ==
  ASSUME IInv, SayDelta
  PROVE  IInv'
<1>1. PICK kind \in {"text", "reasoning"} :
        /\ Len(said.deltas) < MaxDeltas
        /\ \/ SayChunk(Delta(kind, Len(said.deltas) + 1), [said EXCEPT !.deltas = Append(@, kind)], FALSE)
           \/ SayChunk(Plain(kind), said, ~Chat)
  BY DEF SayDelta
<1>2. /\ said \in SaidType /\ gathered \in GatheredType /\ Settled(said, gathered, seen, terminal)
      /\ fault \/ Conforming(said)
  BY <1>1, OpenIsIdle DEF SayChunk, Say, IInv, ReadOK, ConnInv
<1>3. kind \in Kinds /\ kind \in Chunks
  BY DEF Kinds, Chunks
<1>4. Len(said.deltas) \in Nat /\ said.deltas \in Seq({"text", "reasoning"})
  BY <1>2 DEF SaidType
<1>8. 0 \in 0..(MaxDeltas + MaxFragments)
  BY StreamAssumption
<1>5. CASE SayChunk(Delta(kind, Len(said.deltas) + 1), [said EXCEPT !.deltas = Append(@, kind)], FALSE)
  <2> DEFINE n == Len(said.deltas) + 1
             e == Delta(kind, n)
             s == [said EXCEPT !.deltas = Append(@, kind)]
  <2>1. n \in 0..(MaxDeltas + MaxFragments) /\ n # 0
    BY <1>1, <1>4, StreamAssumption
  <2>2. e.kind = kind /\ e.n = n /\ e \in Events
    BY <1>3, <2>1, DeltaEvent
  <2>3. s \in SaidType /\ s.deltas = Append(said.deltas, kind) /\ s.call = said.call
        /\ s.args = said.args /\ s.terminal = said.terminal
    <3>1. Append(said.deltas, kind) \in Seq({"text", "reasoning"})
      BY <1>4
    <3>2. QED
      BY <1>2, <3>1 DEF SaidType
  <2>10. Len(s.deltas) <= MaxDeltas
    BY <1>1, <1>4, <2>3, StreamAssumption
  <2> HIDE DEF e
  <2>4. Settled(s, Gather(gathered, e), seen, terminal)
    BY <1>2, <2>2, DeltaSettles
  <2>5. Added(e) = Gather(gathered, e) /\ AfterSeen(e) = seen
    BY <2>1, <2>2 DEF Added, Empty, AfterSeen
  <2>6. Gather(gathered, e) \in GatheredType
    BY <1>2, <2>1, <2>2, GatherTypes
  <2>7. Expected(e, s) /\ (fault \/ Conforming(s))
    BY <1>2, <2>1, <2>2, <2>3 DEF Expected, Valid, Conforming
  <2> HIDE DEF s
  <2>8. SayChunk(e, s, FALSE)
    BY <1>5 DEF e, s
  <2>9. QED
    BY <1>3, <2>2, <2>3, <2>4, <2>5, <2>6, <2>7, <2>8, <2>10, ChunkStep
<1>6. CASE SayChunk(Plain(kind), said, ~Chat)
  <2> DEFINE e == Plain(kind)
  <2>1. e.kind = kind /\ e.n = 0 /\ e \in Events
    BY <1>3, <1>8, DeltaEvent
  <2> HIDE DEF e
  <2>2. Added(e) = gathered /\ AfterSeen(e) = seen
    BY <2>1 DEF Added, Empty, AfterSeen
  <2>3. Chat => Expected(e, said)
    BY <2>1 DEF Expected, Empty
  <2>4. SayChunk(e, said, ~Chat) /\ (~Chat) \in BOOLEAN /\ Len(said.deltas) <= MaxDeltas
    BY <1>6 DEF e, IInv, ReadOK
  <2>5. QED
    BY <1>2, <1>3, <2>1, <2>2, <2>3, <2>4, ChunkStep
<1>7. QED
  BY <1>1, <1>5, <1>6

(* A delta of a call that is new or open. *)
LEMMA CallDeltaStep ==
  ASSUME IInv, NEW i \in Indexes, NEW id \in BOOLEAN, NEW n \in {0, said.args[i] + 1},
         said.call[i] # "closed", id \/ said.call[i] = "open", n <= MaxFragments,
         NEW bad \in BOOLEAN, bad \/ id \/ n # 0,
         NEW s \in SaidType, s.deltas = said.deltas, s.terminal = said.terminal,
         s.call = [said.call EXCEPT ![i] = "open"],
         s.args = [said.args EXCEPT ![i] = IF n = 0 THEN @ ELSE @ + 1],
         SayChunk(CallDelta(i, id, n), s, bad)
  PROVE  IInv'
<1> DEFINE e == CallDelta(i, id, n)
<1>1. /\ said \in SaidType /\ gathered \in GatheredType /\ Settled(said, gathered, seen, terminal)
      /\ fault \/ Conforming(said)
  BY OpenIsIdle DEF SayChunk, Say, IInv, ReadOK, ConnInv
<1>2. said.args[i] \in 0..MaxFragments /\ said.args \in [Indexes -> 0..MaxFragments]
      /\ said.call \in [Indexes -> {"unsaid", "open", "closed"}]
  BY <1>1 DEF SaidType
<1>3. n \in 0..(MaxDeltas + MaxFragments) /\ n \in 0..MaxFragments
  BY <1>2, StreamAssumption
<1>4. e.kind = "call" /\ e.n = n /\ e.i = i /\ e.id = id /\ e \in Events
  BY <1>3, CallEvent
<1> HIDE DEF e
<1>5. Settled(s, Gather(gathered, e), IF Chat THEN seen \cup {i} ELSE seen, terminal)
  <2>1. /\ e.kind = "call" /\ e.i = i /\ e.id \in BOOLEAN /\ e.n \in {0, said.args[i] + 1}
        /\ e.id \/ said.call[i] = "open"
        /\ s.args = [said.args EXCEPT ![i] = IF e.n = 0 THEN @ ELSE @ + 1]
    BY <1>4
  <2>2. QED
    BY <1>1, <2>1, CallSettles
<1>6. Settled(s, Added(e), AfterSeen(e), terminal) /\ Added(e) = Gather(gathered, e)
  BY <1>4, <1>5 DEF Added, Empty, AfterSeen
<1>7. Gather(gathered, e) \in GatheredType
  BY <1>1, <1>3, <1>4, GatherTypes
<1>8. bad \/ Expected(e, s)
  BY <1>4 DEF Expected, Valid
<1>9. SayChunk(e, s, bad)
  BY DEF e
<1>10. Conforming(said) => Conforming(s)
  <2>1. ~said.terminal
    BY <1>9 DEF SayChunk, Speaking
  <2>2. ASSUME Conforming(said), NEW j \in Indexes, s.call[j] = "closed" PROVE s.args[j] # 0
    BY <1>2, <2>2 DEF Conforming
  <2>3. QED
    BY <2>1, <2>2 DEF Conforming
<1>11. Len(s.deltas) <= MaxDeltas /\ e.kind \in Chunks /\ e.kind # "callDone"
  BY <1>4 DEF IInv, ReadOK, Chunks
<1>12. QED
  BY <1>1, <1>4, <1>6, <1>7, <1>8, <1>9, <1>10, <1>11, ChunkStep

LEMMA OpenStep ==
  ASSUME IInv, NEW i \in Indexes, OpenCall(i)
  PROVE  IInv'
<1>1. PICK n \in {0, 1} :
        /\ said.call[i] = "unsaid" /\ n <= MaxFragments
        /\ SayChunk(CallDelta(i, TRUE, n), [said EXCEPT !.call[i] = "open", !.args[i] = n], FALSE)
  BY DEF OpenCall
<1>2. said \in SaidType /\ Settled(said, gathered, seen, terminal)
  BY <1>1, OpenIsIdle DEF SayChunk, Say, IInv, ReadOK
<1>3. said.args[i] = 0
  BY <1>1, <1>2 DEF Settled, CallsAgree, CallAgrees
<1> DEFINE s == [said EXCEPT !.call[i] = "open", !.args[i] = n]
<1>4. /\ s \in SaidType /\ s.deltas = said.deltas /\ s.terminal = said.terminal
      /\ s.call = [said.call EXCEPT ![i] = "open"] /\ s.args = [said.args EXCEPT ![i] = n]
  <2>1. n \in 0..MaxFragments
    BY <1>1, StreamAssumption
  <2>2. QED
    BY <1>2, <2>1 DEF SaidType
<1>5. /\ n \in {0, said.args[i] + 1} /\ said.call[i] # "closed"
      /\ n = IF n = 0 THEN said.args[i] ELSE said.args[i] + 1
  BY <1>1, <1>3
<1>6. s.args = [said.args EXCEPT ![i] = IF n = 0 THEN @ ELSE @ + 1]
  <2>1. [said.args EXCEPT ![i] = n] = [said.args EXCEPT ![i] = IF n = 0 THEN @ ELSE @ + 1]
    BY <1>5
  <2>2. QED
    BY <1>4, <2>1
<1>7. SayChunk(CallDelta(i, TRUE, n), s, FALSE)
  BY <1>1
<1> HIDE DEF s
<1>8. n <= MaxFragments /\ TRUE \in BOOLEAN /\ FALSE \in BOOLEAN
  BY <1>1
<1>9. QED
  BY <1>4, <1>5, <1>6, <1>7, <1>8, CallDeltaStep

LEMMA ArgumentsStep ==
  ASSUME IInv, NEW i \in Indexes, SayArguments(i)
  PROVE  IInv'
<1>1. PICK id \in BOOLEAN :
        /\ said.call[i] = "open"
        /\ \/ /\ said.args[i] < MaxFragments
              /\ SayChunk(CallDelta(i, id, said.args[i] + 1), [said EXCEPT !.args[i] = @ + 1], FALSE)
           \/ SayChunk(CallDelta(i, id, 0), said, ~id)
  BY DEF SayArguments
<1>2. said \in SaidType /\ said.args[i] \in Nat
  BY DEF IInv, ReadOK, SaidType
<1>3. CASE /\ said.args[i] < MaxFragments
           /\ SayChunk(CallDelta(i, id, said.args[i] + 1), [said EXCEPT !.args[i] = @ + 1], FALSE)
  <2> DEFINE n == said.args[i] + 1
             s == [said EXCEPT !.args[i] = @ + 1]
  <2>1. /\ s \in SaidType /\ s.deltas = said.deltas /\ s.terminal = said.terminal
        /\ s.call = said.call /\ s.args = [said.args EXCEPT ![i] = @ + 1]
    <3>1. [said.args EXCEPT ![i] = @ + 1] \in [Indexes -> 0..MaxFragments]
      BY <1>2, <1>3, StreamAssumption DEF SaidType
    <3>2. QED
      BY <1>2, <3>1 DEF SaidType
  <2>2. n \in {0, said.args[i] + 1} /\ n <= MaxFragments /\ n # 0 /\ said.call[i] # "closed"
    BY <1>1, <1>2, <1>3, StreamAssumption
  <2>3. SayChunk(CallDelta(i, id, n), s, FALSE)
    BY <1>3
  <2>4. s.call = [said.call EXCEPT ![i] = "open"]
        /\ s.args = [said.args EXCEPT ![i] = IF n = 0 THEN @ ELSE @ + 1]
    BY <1>1, <1>2, <2>1, <2>2 DEF SaidType
  <2> HIDE DEF n, s
  <2>5. QED
    BY <1>1, <2>1, <2>2, <2>3, <2>4, CallDeltaStep
<1>4. CASE SayChunk(CallDelta(i, id, 0), said, ~id)
  <2>1. said.call = [said.call EXCEPT ![i] = "open"]
        /\ said.args = [said.args EXCEPT ![i] = IF 0 = 0 THEN @ ELSE @ + 1]
    BY <1>1, <1>2 DEF SaidType
  <2>2. 0 <= MaxFragments /\ said.call[i] # "closed" /\ (~id) \in BOOLEAN
    BY <1>1, StreamAssumption
  <2>3. QED
    BY <1>1, <1>2, <1>4, <2>1, <2>2, CallDeltaStep
<1>5. QED
  BY <1>1, <1>3, <1>4

LEMMA CloseStep ==
  ASSUME IInv, NEW i \in Indexes, CloseCall(i)
  PROVE  IInv'
<1> DEFINE e == CallDone(i)
           s == [said EXCEPT !.call[i] = "closed"]
           bad == said.args[i] = 0
<1>1. ~Chat /\ said.call[i] # "unsaid" /\ SayChunk(e, s, bad)
  BY DEF CloseCall
<1>2. /\ said \in SaidType /\ gathered \in GatheredType /\ Settled(said, gathered, seen, terminal)
      /\ fault \/ Conforming(said)
  BY <1>1, OpenIsIdle DEF SayChunk, Say, IInv, ReadOK, ConnInv
<1>3. e.kind = "callDone" /\ e.i = i /\ e \in Events
  BY CallDoneEvent
<1>4. s \in SaidType /\ s.deltas = said.deltas /\ s.args = said.args /\ s.terminal = said.terminal
      /\ s.call = [said.call EXCEPT ![i] = "closed"]
      /\ said.call \in [Indexes -> {"unsaid", "open", "closed"}]
  BY <1>2 DEF SaidType
<1> HIDE DEF e
<1>5. Settled(s, Gather(gathered, e), seen, terminal)
  BY <1>1, <1>2, <1>3, CallDoneSettles
<1>6. Added(e) = Gather(gathered, e) /\ AfterSeen(e) = seen
  BY <1>3 DEF Added, Empty, AfterSeen
<1>7. Gather(gathered, e) \in GatheredType
  BY <1>2, <1>3, GatherTypes
<1>8. Expected(e, s)
  BY <1>3 DEF Expected, Valid
<1>9. bad \/ (Conforming(said) => Conforming(s))
  <2>1. ~said.terminal
    BY <1>1 DEF SayChunk, Speaking
  <2>2. QED
    BY <1>4, <2>1 DEF Conforming
<1> HIDE DEF s
<1>10. bad \in BOOLEAN /\ Len(s.deltas) <= MaxDeltas /\ e.kind \in Chunks
  BY <1>3, <1>4 DEF IInv, ReadOK, Chunks
<1> HIDE DEF bad
<1>11. QED
  BY <1>1, <1>2, <1>3, <1>4, <1>5, <1>6, <1>7, <1>8, <1>9, <1>10, ChunkStep
LEMMA OtherStep ==
  ASSUME IInv, SayOther
  PROVE  IInv'
<1> DEFINE e == Plain("other")
<1>1. SayChunk(e, said, FALSE)
  BY DEF SayOther
<1>2. /\ said \in SaidType /\ gathered \in GatheredType /\ Settled(said, gathered, seen, terminal)
      /\ fault \/ Conforming(said)
  BY <1>1, OpenIsIdle DEF SayChunk, Say, IInv, ReadOK, ConnInv
<1>3. e \in Events /\ e.kind = "other"
  <2>1. 0 \in 0..(MaxDeltas + MaxFragments) /\ "other" \in Kinds
    BY StreamAssumption DEF Kinds
  <2>2. QED
    BY <2>1, DeltaEvent
<1> HIDE DEF e
<1>4. Added(e) = gathered /\ AfterSeen(e) = seen
  BY <1>3 DEF Added, Gather, AfterSeen
<1>5. Expected(e, said)
  BY <1>3 DEF Expected, Valid
<1>6. Len(said.deltas) <= MaxDeltas /\ e.kind \in Chunks /\ FALSE \in BOOLEAN
  BY <1>3 DEF IInv, ReadOK, Chunks
<1>7. QED
  BY <1>1, <1>2, <1>3, <1>4, <1>5, <1>6, ChunkStep

(* Events that say nothing of the content. *)
LEMMA ControlStep ==
  ASSUME IInv, NEW kind \in Kinds \ Chunks, NEW s \in SaidType, NEW bad \in BOOLEAN,
         Say(Plain(kind), s, bad),
         s.deltas = said.deltas, s.call = said.call, s.args = said.args,
         Chat => kind # "completed",
         s.terminal <=> terminal \/ kind = "completed" \/ (Chat /\ kind = "[DONE]"),
         terminal => kind \in Closers,
         bad \/ (kind \notin {"error", "broken"} /\ (kind = "[DONE]" => s.terminal)),
         bad \/ (s.terminal => (\A i \in Indexes : said.call[i] # "open") \/ said.terminal)
  PROVE  IInv'
<1> DEFINE e == Plain(kind)
<1>1. e \in Events /\ e.kind = kind /\ e.n = 0
  <2>1. 0 \in 0..(MaxDeltas + MaxFragments)
    BY StreamAssumption
  <2>2. QED
    BY <2>1, DeltaEvent
<1>2. Running /\ Settled(said, gathered, seen, terminal)
  BY OpenIsIdle DEF Say
<1>3. After(e) = gathered /\ AfterSeen(e) = seen /\ (AfterTerminal(e) <=> s.terminal)
  BY <1>1 DEF After, AfterSeen, AfterTerminal, Chunks
<1>4. Shown(gathered, s)
  BY <1>2, SameDeltas DEF Settled
<1>5. Settled(s, gathered, seen, s.terminal)
  BY <1>2, <1>4 DEF Settled, CallsAgree
<1>6. terminal => (s.terminal <=> terminal)
  OBVIOUS
<1>7. SaidBy(e, s)
  <2>1. Settled(s, After(e), AfterSeen(e), AfterTerminal(e))
    BY <1>3, <1>5 DEF Settled
  <2>2. terminal => Settled(s, gathered, seen, terminal)
    BY <1>5, <1>6 DEF Settled
  <2>3. e.kind \notin {"call", "callDone"}
    BY <1>1 DEF Chunks
  <2>4. After(e) \in GatheredType
    BY <1>3 DEF IInv, ReadOK
  <2>5. QED
    BY <1>1, <2>1, <2>2, <2>3, <2>4 DEF SaidBy
<1>8. fault \/ bad \/ (Expected(e, s) /\ Conforming(s))
  <2>1. bad \/ Expected(e, s)
    BY <1>1 DEF Expected, Valid, Chunks
  <2>2. fault \/ bad \/ Conforming(s)
    <3>1. fault \/ Conforming(said)
      BY DEF IInv, ConnInv
    <3>2. QED
      BY <3>1 DEF Conforming
  <2>3. QED
    BY <2>1, <2>2
<1>9. Len(s.deltas) <= MaxDeltas
  BY DEF IInv, ReadOK
<1> HIDE DEF e
<1>10. Sayable(e, s, bad)
  BY <1>1, <1>4, <1>7, <1>8, <1>9 DEF Sayable
<1>11. QED
  BY <1>10, SayStep DEF e

LEMMA CompleteStep ==
  ASSUME IInv, Complete
  PROVE  IInv'
<1> DEFINE s == [said EXCEPT !.terminal = TRUE]
           bad == Open # {}
<1>1. ~Chat /\ ~said.terminal /\ Say(Plain("completed"), s, bad)
  BY DEF Complete, Speaking
<1>2. said \in SaidType /\ Settled(said, gathered, seen, terminal)
  BY <1>1, OpenIsIdle DEF Say, IInv, ReadOK
<1>3. /\ s \in SaidType /\ s.deltas = said.deltas /\ s.call = said.call /\ s.args = said.args
      /\ s.terminal
  BY <1>2 DEF SaidType
<1>4. bad \/ \A i \in Indexes : said.call[i] # "open"
  BY DEF Open
<1>5. ~terminal /\ bad \in BOOLEAN /\ "completed" \in Kinds \ Chunks
  BY <1>1, <1>2 DEF Settled, Kinds, Chunks
<1> HIDE DEF s, bad
<1>6. QED
  BY <1>1, <1>3, <1>4, <1>5, ControlStep

LEMMA DoneStep ==
  ASSUME IInv, SayDone
  PROVE  IInv'
<1> DEFINE s == [said EXCEPT !.ended = TRUE, !.terminal = @ \/ Chat]
           bad == IF Chat THEN Open # {} ELSE ~said.terminal
<1>1. Say(Plain("[DONE]"), s, bad)
  BY DEF SayDone
<1>2. said \in SaidType /\ Settled(said, gathered, seen, terminal)
  BY <1>1, OpenIsIdle DEF Say, IInv, ReadOK
<1>3. s.terminal = (said.terminal \/ Chat) /\ (said.terminal \/ Chat) \in BOOLEAN
  BY <1>2, Zenon DEF SaidType
<1>4. s = [[said EXCEPT !.ended = TRUE] EXCEPT !.terminal = s.terminal]
  BY <1>2, <1>3 DEF SaidType
<1>5. s.terminal \in BOOLEAN
  BY <1>3
<1>6. s \in SaidType /\ s.deltas = said.deltas /\ s.call = said.call /\ s.args = said.args
  <2> DEFINE v == s.terminal
  <2> HIDE DEF v
  <2>1. s = [[said EXCEPT !.ended = TRUE] EXCEPT !.terminal = v] /\ v \in BOOLEAN
    BY <1>4, <1>5 DEF v
  <2> HIDE DEF s
  <2>2. QED
    BY <1>2, <2>1 DEF SaidType
<1>7. bad \in BOOLEAN
  BY <1>2 DEF SaidType
<1>8. bad \/ (s.terminal /\ ((\A i \in Indexes : said.call[i] # "open") \/ said.terminal))
  BY <1>3 DEF Open
<1>9. s.terminal <=> (terminal \/ Chat)
  BY <1>2, <1>3 DEF Settled
<1>10. "[DONE]" \in Kinds \ Chunks /\ "[DONE]" \in Closers
  BY DEF Kinds, Chunks, Closers
<1> HIDE DEF s, bad
<1>11. QED
  BY <1>1, <1>6, <1>7, <1>8, <1>9, <1>10, ControlStep

LEMMA BadStep ==
  ASSUME IInv, SayError \/ SayBroken
  PROVE  IInv'
<1>1. PICK kind \in {"error", "broken"}, s \in {said, [said EXCEPT !.ended = TRUE]} :
        Say(Plain(kind), s, TRUE)
  BY DEF SayError, SayBroken
<1>2. said \in SaidType /\ Settled(said, gathered, seen, terminal)
  BY <1>1, OpenIsIdle DEF Say, IInv, ReadOK
<1>3. /\ s \in SaidType /\ s.deltas = said.deltas /\ s.call = said.call /\ s.args = said.args
      /\ s.terminal = said.terminal
  BY <1>2 DEF SaidType
<1>4. kind \in Kinds \ Chunks /\ kind \in Closers /\ kind \notin {"completed", "[DONE]"}
  BY DEF Kinds, Chunks, Closers
<1>5. s.terminal <=> terminal
  BY <1>2, <1>3 DEF Settled
<1>6. QED
  BY <1>1, <1>3, <1>4, <1>5, ControlStep

LEMMA NothingStep ==
  ASSUME IInv, SayNothing
  PROVE  IInv'
<1>1. /\ conn = "open" /\ Running /\ wire = <<>> /\ wire' = <<Comment, Blank>>
      /\ UNCHANGED <<endpoint, conn, said, fault, canceled, checked, reader, outcome, terminal, seen,
                     gathered>>
  BY DEF SayNothing, KeepAlive, readerVars
<1>2. reader = Fresh /\ Settled(said, gathered, seen, terminal)
  BY <1>1, OpenIsIdle
<1>3. Idle'
  BY <1>1, <1>2 DEF Idle, Nothing, Left1, Settled, Chat
<1>4. TypeOK'
  <2>1. \A j \in DOMAIN wire' : wire'[j] = Comment \/ wire'[j] = Blank
    BY <1>1, LinesOf
  <2>2. \A j \in DOMAIN wire' : wire'[j].field \in {"", ":", "event", "data"}
    <3>1. Comment.field = ":" /\ Blank.field = ""
      BY DEF Comment, Blank, Line
    <3>2. QED
      BY <2>1, <3>1
  <2>3. QED
    BY <1>1, <2>2 DEF IInv, TypeOK
<1>5. ReadOK' /\ ShownIsSaid' /\ ConnInv' /\ EndInv'
  BY <1>1 DEF IInv, ReadOK, Read, ShownIsSaid, ConnInv, EndInv, Chat, Running
<1>6. QED
  BY <1>3, <1>4, <1>5 DEF IInv, PassInv

(***************************************************************************)
(* Sequences of up to three lines                                          *)
(***************************************************************************)

LEMMA Short ==
  ASSUME NEW S, NEW q \in Seq(S)
  PROVE  /\ Len(q) = 0 => q = <<>>
         /\ Len(q) = 1 => q = <<q[1]>>
         /\ Len(q) = 2 => q = <<q[1], q[2]>>
         /\ Len(q) = 3 => q = <<q[1], q[2], q[3]>>
<1>1. Len(q) = 0 => q = <<>>
  BY EmptySeq
<1>2. ASSUME Len(q) = 1 PROVE q = <<q[1]>>
  <2>1. q[1] \in S
    BY <1>2
  <2>2. <<q[1]>> \in Seq(S) /\ Len(<<q[1]>>) = 1 /\ <<q[1]>>[1] = q[1]
    BY <2>1
  <2>3. QED
    BY <1>2, <2>2, SeqEqual
<1>3. ASSUME Len(q) = 2 PROVE q = <<q[1], q[2]>>
  <2>1. q[1] \in S /\ q[2] \in S
    BY <1>3, ElementOfSeq
  <2>2. /\ <<q[1], q[2]>> \in Seq(S) /\ Len(<<q[1], q[2]>>) = 2
        /\ <<q[1], q[2]>>[1] = q[1] /\ <<q[1], q[2]>>[2] = q[2]
    BY <2>1
  <2>3. \A i \in 1..2 : q[i] = <<q[1], q[2]>>[i]
    BY <2>2
  <2>4. QED
    BY <1>3, <2>2, <2>3, SeqEqual
<1>4. ASSUME Len(q) = 3 PROVE q = <<q[1], q[2], q[3]>>
  <2>1. q[1] \in S /\ q[2] \in S /\ q[3] \in S
    <3>1. 1 \in 1..Len(q) /\ 2 \in 1..Len(q) /\ 3 \in 1..Len(q)
      BY <1>4
    <3>2. QED
      BY <3>1, ElementOfSeq
  <2>2. /\ <<q[1], q[2], q[3]>> \in Seq(S) /\ Len(<<q[1], q[2], q[3]>>) = 3
        /\ <<q[1], q[2], q[3]>>[1] = q[1] /\ <<q[1], q[2], q[3]>>[2] = q[2]
        /\ <<q[1], q[2], q[3]>>[3] = q[3]
    BY <2>1
  <2>3. \A i \in 1..3 : q[i] = <<q[1], q[2], q[3]>>[i]
    BY <2>2
  <2>4. QED
    BY <1>4, <2>2, <2>3, SeqEqual
<1>5. QED
  BY <1>1, <1>2, <1>3, <1>4

LEMMA Appends ==
  ASSUME NEW S, NEW a \in S, NEW b \in S
  PROVE  /\ <<>> \o <<a>> = <<a>> /\ <<a>> \o <<b>> = <<a, b>>
         /\ Append(<<>>, a) = <<a>> /\ Append(<<a>>, b) = <<a, b>>
<1>1. <<a>> \in Seq(S) /\ Len(<<a>>) = 1 /\ <<a>>[1] = a /\ <<b>> \in Seq(S) /\ Len(<<b>>) = 1
      /\ <<b>>[1] = b /\ <<>> \in Seq(S) /\ Len(<<>>) = 0
  OBVIOUS
<1>2. <<a>> \o <<b>> = <<a, b>>
  <2> DEFINE q == <<a>> \o <<b>>
  <2>1. q \in Seq(S) /\ Len(q) = 2 /\ \A i \in 1..2 : q[i] = IF i <= 1 THEN <<a>>[i] ELSE <<b>>[i - 1]
    BY <1>1, ConcatProperties
  <2>2. q[1] = a /\ q[2] = b
    BY <1>1, <2>1
  <2> HIDE DEF q
  <2>3. q = <<q[1], q[2]>>
    BY <2>1, Short
  <2>4. QED
    BY <2>2, <2>3 DEF q
<1>3. Append(<<a>>, b) = <<a, b>>
  <2> DEFINE q == Append(<<a>>, b)
  <2>1. q \in Seq(S) /\ Len(q) = 2 /\ q[1] = a /\ q[2] = b
    BY <1>1
  <2> HIDE DEF q
  <2>2. q = <<q[1], q[2]>>
    BY <2>1, Short
  <2>3. QED
    BY <2>1, <2>2 DEF q
<1>4. Append(<<>>, a) = <<a>>
  <2> DEFINE q == Append(<<>>, a)
  <2>1. q \in Seq(S) /\ Len(q) = 1 /\ q[1] = a
    BY <1>1
  <2> HIDE DEF q
  <2>2. q = <<q[1]>>
    BY <2>1, Short
  <2>3. QED
    BY <2>1, <2>2 DEF q
<1>5. <<>> \o <<a>> = <<a>>
  OBVIOUS
<1>6. QED
  BY <1>2, <1>3, <1>4, <1>5

LEMMA Tuples ==
  ASSUME NEW a, NEW b, NEW c
  PROVE  /\ Len(<<a>>) = 1 /\ Len(<<a, b>>) = 2 /\ Len(<<a, b, c>>) = 3
         /\ <<a>>[1] = a /\ <<a, b>>[1] = a /\ <<a, b>>[2] = b
         /\ <<a, b, c>>[1] = a /\ <<a, b, c>>[2] = b /\ <<a, b, c>>[3] = c
         /\ Head(<<a>>) = a /\ Head(<<a, b>>) = a /\ Head(<<a, b, c>>) = a
         /\ Tail(<<a>>) = <<>> /\ Tail(<<a, b>>) = <<b>> /\ Tail(<<a, b, c>>) = <<b, c>>
         /\ <<a>> \o <<>> = <<a>> /\ <<a, b>> \o <<>> = <<a, b>> /\ <<a, b, c>> \o <<>> = <<a, b, c>>
         /\ DOMAIN <<a>> = {1} /\ DOMAIN <<a, b>> = {1, 2} /\ DOMAIN <<a, b, c>> = {1, 2, 3}
OBVIOUS

LEMMA LineTypes ==
  ASSUME NEW e \in Events
  PROVE  /\ \A h \in 0..3 : Data(e, h) \in LineType
         /\ NameLine(e) \in LineType /\ Untyped(e) \in LineType /\ Large(e) \in LineType
         /\ Blank \in LineType /\ Comment \in LineType
<1>1. Plain("other") \in Events
  <2>1. 0 \in 0..(MaxDeltas + MaxFragments) /\ "other" \in Kinds
    BY StreamAssumption DEF Kinds
  <2>2. QED
    BY <2>1, DeltaEvent
<1>2. MaxEventBytes + 1 \in Nat
  BY StreamAssumption
<1>3. QED
  BY <1>1, <1>2 DEF Data, NameLine, Untyped, Large, Blank, Comment, Line, LineType

(***************************************************************************)
(* The connection ends                                                     *)
(***************************************************************************)

(* What is left of the unread lines w when the connection ends. *)
CutOff(w, torn) ==
  IF torn /\ w # <<>> /\ w[1].field = "data" THEN <<[w[1] EXCEPT !.half = 3]>> ELSE <<>>

LEMMA TornLine ==
  ASSUME NEW l \in LineType
  PROVE  /\ [l EXCEPT !.half = 3] \in LineType /\ [l EXCEPT !.half = 3].half = 3
         /\ [l EXCEPT !.half = 3].field = l.field /\ [l EXCEPT !.half = 3].size = l.size
<1>1. 3 \in 0..3
  OBVIOUS
<1>2. QED
  BY <1>1 DEF LineType

LEMMA CutLines ==
  ASSUME NEW w \in Seq(LineType), NEW torn \in BOOLEAN
  PROVE  /\ CutOff(w, torn) \in Seq(LineType)
         /\ \A j \in DOMAIN CutOff(w, torn) : CutOff(w, torn)[j] = [w[1] EXCEPT !.half = 3]
         /\ w = <<>> \/ w[1].field # "data" => CutOff(w, torn) = <<>>
<1> DEFINE t == [w[1] EXCEPT !.half = 3]
<1>1. CASE torn /\ w # <<>> /\ w[1].field = "data"
  <2>1. w[1] \in LineType
    BY <1>1
  <2>2. t \in LineType
    BY <2>1, TornLine
  <2>3. CutOff(w, torn) = <<t>>
    BY <1>1 DEF CutOff
  <2> HIDE DEF t
  <2>4. <<t>> \in Seq(LineType) /\ \A j \in DOMAIN <<t>> : <<t>>[j] = t
    BY <2>2
  <2>5. QED
    BY <1>1, <2>3, <2>4 DEF t
<1>2. CASE ~(torn /\ w # <<>> /\ w[1].field = "data")
  BY <1>2 DEF CutOff
<1>3. QED
  BY <1>1, <1>2

(* The lines of an event as they were sent: its last line but the empty one *)
(* is the only one that completes a payload.                                *)
Sent(w) ==
  /\ w \in Seq(LineType)
  /\ Len(w) \in 0..3
  /\ w # <<>> => w[Len(w)] = Blank
  /\ Len(w) > 1 => \A j \in DOMAIN reader.data : reader.data[j].half \in {1, 3}
  /\ \A j \in DOMAIN w : w[j].field = "data" =>
       /\ j < Len(w) - 1 => w[j].half = 1
       /\ w[j].size # 0
       /\ terminal => w[j].event.kind # IF Chat THEN "[DONE]" ELSE "completed"
  /\ \A j \in DOMAIN w : w[j].field = "" => j = Len(w)

LEMMA LineFacts ==
  /\ Blank.field = "" /\ Blank.size = 0 /\ Comment.field = ":" /\ Comment.size = 1
  /\ \A e : /\ NameLine(e).field = "event" /\ NameLine(e).size = 1 /\ NameLine(e).event = e
            /\ Untyped(e).field = "data" /\ Untyped(e).size = 1 /\ Untyped(e).event = e
            /\ Untyped(e).half = 0 /\ ~Untyped(e).typed
            /\ Large(e).field = "data" /\ Large(e).size = MaxEventBytes + 1 /\ Large(e).event = e
            /\ Large(e).half = 0
  /\ \A e, h :
       /\ Data(e, h).field = "data" /\ Data(e, h).size = 1 /\ Data(e, h).event = e
       /\ Data(e, h).half = h /\ Data(e, h).typed
BY DEF Blank, Comment, NameLine, Untyped, Large, Data, Line

(* A data line of e, or a line that carries nothing. *)
Fitting(e, l) ==
  /\ l \in LineType /\ l.field # ""
  /\ l.field = "data" => l.event = e /\ l.size # 0

LEMMA Fittings ==
  ASSUME NEW e \in Events
  PROVE  /\ Fitting(e, Comment) /\ Fitting(e, NameLine(e)) /\ Fitting(e, Untyped(e))
         /\ Fitting(e, Large(e))
         /\ Fitting(e, Data(e, 0)) /\ Fitting(e, Data(e, 1)) /\ Fitting(e, Data(e, 2))
<1>1. MaxEventBytes + 1 # 0
  BY StreamAssumption
<1>2. Fitting(e, Comment) /\ Fitting(e, NameLine(e))
  BY LineTypes, LineFacts DEF Fitting
<1>3. Fitting(e, Untyped(e)) /\ Fitting(e, Large(e))
  <2>1. Untyped(e) \in LineType /\ Large(e) \in LineType
    BY LineTypes
  <2>2. /\ Untyped(e).field = "data" /\ Untyped(e).event = e /\ Untyped(e).size = 1
        /\ Large(e).field = "data" /\ Large(e).event = e /\ Large(e).size = MaxEventBytes + 1
    BY LineFacts
  <2>3. QED
    BY <1>1, <2>1, <2>2 DEF Fitting
<1>4. ASSUME NEW h \in 0..3 PROVE Fitting(e, Data(e, h))
  <2>1. Data(e, h) \in LineType
    BY LineTypes
  <2>2. Data(e, h).field = "data" /\ Data(e, h).event = e /\ Data(e, h).size = 1
    BY DEF Data, Line
  <2>3. QED
    BY <2>1, <2>2 DEF Fitting
<1>5. 0 \in 0..3 /\ 1 \in 0..3 /\ 2 \in 0..3
  OBVIOUS
<1>6. QED
  BY <1>2, <1>3, <1>4, <1>5

LEMMA SentLines ==
  ASSUME NEW e \in Events, NEW l, NEW m, Fitting(e, l), Fitting(e, m),
         terminal => e.kind # IF Chat THEN "[DONE]" ELSE "completed",
         \A j \in DOMAIN reader.data : reader.data[j].half \in {1, 3},
         l.field = "data" => l.half = 1
  PROVE  Sent(<<l, m, Blank>>) /\ Sent(<<m, Blank>>)
<1>1. l \in LineType /\ m \in LineType /\ Blank \in LineType
  BY LineTypes DEF Fitting
<1>2. Sent(<<l, m, Blank>>)
  <2> DEFINE w == <<l, m, Blank>>
  <2>1. w \in Seq(LineType) /\ Len(w) = 3 /\ w[1] = l /\ w[2] = m /\ w[3] = Blank
        /\ DOMAIN w = {1, 2, 3} /\ w # <<>>
    BY <1>1
  <2> HIDE DEF w
  <2>2. ASSUME NEW j \in DOMAIN w
        PROVE  /\ w[j].field = "data" =>
                    /\ j < Len(w) - 1 => w[j].half = 1
                    /\ w[j].size # 0
                    /\ terminal => w[j].event.kind # IF Chat THEN "[DONE]" ELSE "completed"
               /\ w[j].field = "" => j = Len(w)
    <3>1. CASE j = 1
      BY <2>1, <3>1 DEF Fitting
    <3>2. CASE j = 2
      <4>1. ~(j < Len(w) - 1)
        BY <2>1, <3>2
      <4>2. QED
        BY <2>1, <3>2, <4>1 DEF Fitting
    <3>3. CASE j = 3
      BY <2>1, <3>3, LineFacts
    <3>4. QED
      BY <2>1, <2>2, <3>1, <3>2, <3>3
  <2>3. 3 \in 0..3 /\ w[Len(w)] = Blank
    BY <2>1
  <2>4. QED
    BY <2>1, <2>2, <2>3 DEF Sent, w
<1>3. Sent(<<m, Blank>>)
  <2> DEFINE w == <<m, Blank>>
  <2>1. w \in Seq(LineType) /\ Len(w) = 2 /\ w[1] = m /\ w[2] = Blank
        /\ DOMAIN w = {1, 2} /\ w # <<>>
    BY <1>1
  <2> HIDE DEF w
  <2>2. ASSUME NEW j \in DOMAIN w
        PROVE  /\ w[j].field = "data" =>
                    /\ j < Len(w) - 1 => w[j].half = 1
                    /\ w[j].size # 0
                    /\ terminal => w[j].event.kind # IF Chat THEN "[DONE]" ELSE "completed"
               /\ w[j].field = "" => j = Len(w)
    <3>1. CASE j = 1
      <4>1. ~(j < Len(w) - 1)
        BY <2>1, <3>1
      <4>2. QED
        BY <2>1, <3>1, <4>1 DEF Fitting
    <3>2. CASE j = 2
      BY <2>1, <3>2, LineFacts
    <3>4. QED
      BY <2>1, <2>2, <3>1, <3>2
  <2>3. 2 \in 0..3 /\ w[Len(w)] = Blank
    BY <2>1
  <2>4. QED
    BY <2>1, <2>2, <2>3 DEF Sent, w
<1>4. QED
  BY <1>2, <1>3

LEMMA ReadFields ==
  ASSUME NEW n, NEW d, NEW b, reader = Read(n, d, b)
  PROVE  reader.name = n /\ reader.data = d /\ reader.bytes = b
BY DEF Read

LEMMA FreshFields == Fresh.name = "" /\ Fresh.data = <<>> /\ Fresh.bytes = 0
BY DEF Fresh

LEMMA NoneSent == Sent(<<>>) /\ Sent(<<Blank>>)
<1>1. Blank \in LineType
  <2>1. 0 \in 0..(MaxDeltas + MaxFragments) /\ "other" \in Kinds
    BY StreamAssumption DEF Kinds
  <2>2. PICK e \in Events : TRUE
    BY <2>1, DeltaEvent
  <2>3. QED
    BY <2>2, LineTypes
<1>2. Sent(<<>>)
  BY DEF Sent
<1>3. Sent(<<Blank>>)
  <2> DEFINE w == <<Blank>>
  <2>1. w \in Seq(LineType) /\ Len(w) = 1 /\ w[1] = Blank /\ DOMAIN w = {1} /\ w # <<>>
    BY <1>1
  <2> HIDE DEF w
  <2>2. \A j \in DOMAIN w : j = 1 /\ w[j].field = "" /\ w[j].field # "data"
    BY <2>1, LineFacts
  <2>3. 1 \in 0..3 /\ ~(1 > 1)
    OBVIOUS
  <2>4. QED
    BY <2>1, <2>2, <2>3 DEF Sent, w
<1>4. QED
  BY <1>2, <1>3

LEMMA AllSent ==
  ASSUME IInv, Running, conn = "open"
  PROVE  Sent(wire)
<1>1. Idle \/ \E e \in Events : Pending(e)
  BY DEF IInv, PassInv, BrokenOff
<1>2. Left0 => wire = <<Blank>>
  BY DEF Left0
<1>3. (\A l : Left1(l) => wire = <<l, Blank>>) /\ (\A l, m : Left2(l, m) => wire = <<l, m, Blank>>)
  BY DEF Left1, Left2
<1>4. reader.data = <<>> => \A j \in DOMAIN reader.data : reader.data[j].half \in {1, 3}
  OBVIOUS
<1>5. Fresh.data = <<>>
  BY FreshFields
<1>6. CASE Idle
  <2> DEFINE e == Plain("other")
  <2>1. e \in Events /\ e.kind = "other"
    <3>1. 0 \in 0..(MaxDeltas + MaxFragments) /\ "other" \in Kinds
      BY StreamAssumption DEF Kinds
    <3>2. QED
      BY <3>1, DeltaEvent
  <2> HIDE DEF e
  <2>2. CASE reader = Fresh /\ wire = <<Comment, Blank>>
    <3>1. Fitting(e, Comment) /\ Comment.field # "data"
      BY <2>1, Fittings, LineFacts
    <3>2. \A j \in DOMAIN reader.data : reader.data[j].half \in {1, 3}
      BY <1>4, <1>5, <2>2
    <3>3. e.kind # IF Chat THEN "[DONE]" ELSE "completed"
      BY <2>1
    <3>4. QED
      BY <2>1, <2>2, <3>1, <3>2, <3>3, SentLines
  <2>3. QED
    BY <1>2, <1>3, <1>6, <2>2, NoneSent DEF Idle, Nothing
<1>7. ASSUME NEW e \in Events, Pending(e) PROVE Sent(wire)
  <2>1. terminal => e.kind # IF Chat THEN "[DONE]" ELSE "completed"
    BY <1>7 DEF Pending, SaidBy, Closers, IInv, ConnInv
  <2>2. /\ Fitting(e, Comment) /\ Fitting(e, NameLine(e)) /\ Fitting(e, Untyped(e))
        /\ Fitting(e, Large(e))
        /\ Fitting(e, Data(e, 0)) /\ Fitting(e, Data(e, 1)) /\ Fitting(e, Data(e, 2))
    BY Fittings
  <2>3. CASE ReadWhole(e) /\ Left0
    BY <1>2, <2>3, NoneSent
  <2>4. CASE reader = Fresh
    <3>1. \A j \in DOMAIN reader.data : reader.data[j].half \in {1, 3}
      BY <1>4, <1>5, <2>4
    <3>2. /\ Comment.field # "data" /\ NameLine(e).field # "data" /\ Data(e, 1).half = 1
      <4>1. Comment.field = ":" /\ NameLine(e).field = "event" /\ Data(e, 1).half = 1
        BY DEF Comment, NameLine, Data, Line
      <4>2. QED
        BY <4>1
    <3>3. CASE Left1(Data(e, 0))
      BY <1>3, <2>1, <2>2, <3>1, <3>2, <3>3, SentLines
    <3>4. CASE Left2(Data(e, 1), Data(e, 2))
      <4>1. Fitting(e, Data(e, 1)) /\ Fitting(e, Data(e, 2))
        BY <2>2
      <4>2. QED
        BY <1>3, <2>1, <3>1, <3>2, <3>4, <4>1, SentLines
    <3>5. CASE Left2(Comment, Data(e, 0))
      BY <1>3, <2>1, <2>2, <3>1, <3>2, <3>5, SentLines
    <3>6. CASE Left2(NameLine(e), Untyped(e))
      BY <1>3, <2>1, <2>2, <3>1, <3>2, <3>6, SentLines
    <3>7. CASE Left1(Large(e))
      BY <1>3, <2>1, <2>2, <3>1, <3>2, <3>7, SentLines
    <3>8. /\ reader # Read("", <<Data(e, 1)>>, 1) /\ reader # Read("", <<>>, 1)
          /\ reader # Read(e.kind, <<>>, 1)
      <4>1. reader.bytes = 0
        BY <2>4, FreshFields
      <4>2. 0 # 1
        OBVIOUS
      <4>3. reader.bytes # 1
        BY <4>1, <4>2
      <4>4. QED
        BY <4>3, ReadFields
    <3>9. ~ReadWhole(e) => Unread(e)
      BY <1>7 DEF Pending, Carried
    <3>10. QED
      BY <1>7, <2>3, <2>4, <3>3, <3>4, <3>5, <3>6, <3>7, <3>8, <3>9 DEF Pending, Carried, Unread
  <2>5. CASE reader = Read("", <<Data(e, 1)>>, 1) /\ Left1(Data(e, 2))
    <3>1. \A j \in DOMAIN reader.data : reader.data[j].half \in {1, 3}
      <4>1. reader.data = <<Data(e, 1)>> /\ Data(e, 1).half = 1
        BY <2>5, ReadFields DEF Data, Line
      <4>2. QED
        BY <4>1
    <3>2. Fitting(e, Data(e, 2)) /\ Fitting(e, Comment) /\ Comment.field # "data"
      BY <2>2, LineFacts
    <3>3. QED
      BY <1>3, <2>1, <2>5, <3>1, <3>2, SentLines
  <2>6. CASE reader.data = <<>> /\ (Left1(Data(e, 0)) \/ Left1(Untyped(e)))
    <3>1. Fitting(e, Data(e, 0)) /\ Fitting(e, Untyped(e)) /\ Fitting(e, Comment) /\ Comment.field # "data"
      BY <2>2, LineFacts
    <3>2. \A j \in DOMAIN reader.data : reader.data[j].half \in {1, 3}
      BY <1>4, <2>6
    <3>3. QED
      BY <1>3, <2>1, <2>6, <3>1, <3>2, SentLines
  <2>7. (ReadWhole(e) /\ Left0) \/ Unread(e)
    BY <1>7 DEF Pending, Carried
  <2>8. reader = Read("", <<>>, 1) \/ reader = Read(e.kind, <<>>, 1) => reader.data = <<>>
    BY ReadFields
  <2>9. QED
    BY <2>3, <2>4, <2>5, <2>6, <2>7, <2>8 DEF Unread
<1>8. QED
  BY <1>1, <1>6, <1>7

LEMMA CutStep ==
  ASSUME IInv, Cut
  PROVE  IInv'
<1>1. /\ conn = "open" /\ Running /\ outcome' = outcome
      /\ UNCHANGED <<endpoint, canceled, checked, reader, terminal, seen, gathered>>
  BY DEF Cut, readerVars
<1>2. PICK torn \in BOOLEAN, end \in {"eof", "reset"} :
        LET lost == {wire[j] : j \in DOMAIN wire}
        IN /\ wire' = CutOff(wire, torn)
           /\ conn' = end
           /\ fault' = (fault \/ end = "reset" \/ ~said.terminal \/ (\E l \in lost : l.field # ""))
           /\ said' = [said EXCEPT !.terminal =
                @ /\ ~\E l \in lost : l.field = "data" /\ l.event.kind = IF Chat THEN "[DONE]" ELSE "completed"]
  BY DEF Cut, CutOff
<1> DEFINE lost == {wire[j] : j \in DOMAIN wire}
           unsaid == \E l \in lost : l.field = "data" /\ l.event.kind = IF Chat THEN "[DONE]" ELSE "completed"
           part == \E l \in lost : l.field # ""
<1>3. /\ wire' = CutOff(wire, torn) /\ conn' \in {"eof", "reset"}
      /\ fault' = (fault \/ conn' = "reset" \/ ~said.terminal \/ part)
      /\ said' = [said EXCEPT !.terminal = @ /\ ~unsaid]
  BY <1>2
<1>4. unsaid => part
  OBVIOUS
<1>5. unsaid \in BOOLEAN /\ part \in BOOLEAN
  OBVIOUS
<1>6. Sent(wire)
  BY <1>1, AllSent
<1>7. /\ wire \in Seq(LineType) /\ Len(wire) \in 0..3 /\ DOMAIN wire = 1..Len(wire)
      /\ wire # <<>> => wire[Len(wire)] = Blank
      /\ wire = <<>> => Len(wire) = 0
  <2>1. wire \in Seq(LineType) /\ Len(wire) \in 0..3 /\ (wire # <<>> => wire[Len(wire)] = Blank)
    BY <1>6 DEF Sent
  <2>2. QED
    BY <2>1
<1>8. said \in SaidType /\ said.terminal \in BOOLEAN
  BY DEF IInv, ReadOK, SaidType
<1>9. \A j \in DOMAIN wire : wire[j] \in lost
  OBVIOUS
<1>10. \A l \in lost : \E j \in DOMAIN wire : l = wire[j]
  OBVIOUS
<1> HIDE DEF lost
<1>11. \A j \in DOMAIN wire : wire[j].field # "" => part
  BY <1>9
<1> HIDE DEF part
<1>12. /\ said' \in SaidType /\ said'.deltas = said.deltas /\ said'.call = said.call
       /\ said'.args = said.args /\ said'.terminal = (said.terminal /\ ~unsaid)
       /\ ~unsaid => said' = said
  <2> DEFINE v == said.terminal /\ ~unsaid
  <2>1. v \in BOOLEAN
    BY <1>5, <1>8
  <2>2. ~unsaid => v = said.terminal
    BY <1>8
  <2>3. said' = [said EXCEPT !.terminal = v]
    BY <1>3
  <2> HIDE DEF v
  <2>4. said' \in SaidType /\ said'.deltas = said.deltas /\ said'.call = said.call
        /\ said'.args = said.args /\ said'.terminal = v /\ (v = said.terminal => said' = said)
    BY <1>8, <2>1, <2>3 DEF SaidType
  <2>5. QED
    BY <2>2, <2>4 DEF v
<1> HIDE DEF unsaid
<1>13. fault' \in BOOLEAN /\ (fault => fault') /\ (part => fault') /\ (~said.terminal => fault')
       /\ (conn' = "reset" => fault')
  BY <1>3, <1>5 DEF IInv, TypeOK
<1>14. TypeOK'
  <2>1. wire' \in Seq(LineType)
    BY <1>3, <1>7, CutLines
  <2>2. \A j \in DOMAIN wire' : wire'[j].field \in {"", ":", "event", "data"}
    <3>1. ASSUME NEW j \in DOMAIN wire' PROVE wire'[j].field \in {"", ":", "event", "data"}
      <4>1. wire'[j] \in LineType
        BY <2>1
      <4>2. QED
        BY <4>1 DEF LineType
    <3>2. QED
      BY <3>1
  <2>3. QED
    BY <1>1, <1>3, <1>13, <2>2 DEF IInv, TypeOK
<1>15. ReadOK'
  BY <1>1, <1>12 DEF IInv, ReadOK, Read
<1>16. ShownIsSaid'
  BY <1>1, <1>12 DEF IInv, ShownIsSaid
<1>17. ConnInv'
  <2>1. fault' \/ Conforming(said')
    BY <1>12, <1>13 DEF IInv, ConnInv, Conforming
  <2>2. fault' \/ said'.terminal
    BY <1>4, <1>12, <1>13
  <2>3. QED
    BY <1>1, <1>3, <1>13, <2>1, <2>2 DEF IInv, ConnInv, Running, Chat
<1>18. EndInv'
  BY <1>1 DEF EndInv, Running
<1>19. CASE Len(wire) > 1
  <2>1. 1 \in DOMAIN wire /\ 1 # Len(wire) /\ wire[1] \in LineType
    BY <1>7, <1>19
  <2>2. part
    BY <1>6, <1>11, <1>19, <2>1 DEF Sent
  <2>3. wire' \in Seq(LineType) /\ \A j \in DOMAIN wire' : wire'[j].field = "data" => Useless(wire'[j])
    <3>1. wire' \in Seq(LineType) /\ \A j \in DOMAIN wire' : wire'[j] = [wire[1] EXCEPT !.half = 3]
      BY <1>3, <1>7, CutLines
    <3>2. ASSUME NEW j \in DOMAIN wire', wire'[j].field = "data" PROVE Useless(wire'[j])
      <4>1. /\ wire'[j].half = 3 /\ wire'[j].size = wire[1].size
            /\ wire[1].field = "data"
        BY <2>1, <3>1, <3>2, TornLine
      <4>2. wire[1].size # 0 /\ wire[1].size \in Nat
        BY <1>6, <2>1, <4>1 DEF Sent, LineType
      <4>3. QED
        BY <4>1, <4>2 DEF Useless
    <3>3. QED
      BY <3>1, <3>2
  <2>4. \A j \in DOMAIN reader.data : reader.data[j].half \in {1, 3}
    BY <1>6, <1>19 DEF Sent
  <2>5. terminal => Settled(said, gathered, seen, terminal)
    BY <1>1 DEF IInv, PassInv, BrokenOff, Idle, Pending, SaidBy
  <2>6. terminal => ~unsaid
    <3>1. ASSUME terminal, NEW l \in lost, l.field = "data"
          PROVE  l.event.kind # IF Chat THEN "[DONE]" ELSE "completed"
      <4>1. PICK j \in DOMAIN wire : l = wire[j]
        BY <1>10
      <4>2. QED
        BY <1>6, <3>1, <4>1 DEF Sent
    <3>2. QED
      BY <3>1 DEF unsaid
  <2>7. terminal => Settled(said', gathered, seen, terminal)
    BY <1>12, <2>5, <2>6
  <2>8. conn' # "open" /\ fault'
    BY <1>3, <1>13, <2>2
  <2>9. BrokenOff'
    <3>1. Settled(said, gathered, seen, terminal)' <=> Settled(said', gathered, seen, terminal)
      BY <1>1 DEF Settled, Chat
    <3>2. QED
      BY <1>1, <2>3, <2>4, <2>7, <2>8, <3>1 DEF BrokenOff, Useless
  <2>10. QED
    BY <1>14, <1>15, <1>16, <1>17, <1>18, <2>9 DEF IInv, PassInv
<1>20. CASE Len(wire) <= 1
  <2>1. ~unsaid
    <3>1. ASSUME NEW l \in lost PROVE l = Blank
      <4>1. PICK j \in DOMAIN wire : l = wire[j]
        BY <1>10
      <4>2. j = Len(wire) /\ wire # <<>>
        BY <1>7, <1>20, <4>1
      <4>3. QED
        BY <1>7, <4>1, <4>2
    <3>2. Blank.field # "data"
      BY LineFacts
    <3>3. QED
      BY <3>1, <3>2 DEF unsaid
  <2>2. said' = said
    BY <1>12, <2>1
  <2>3. wire' = <<>>
    <3>1. ASSUME wire # <<>> PROVE wire[1].field # "data"
      <4>1. Len(wire) = 1
        BY <1>7, <1>20, <3>1
      <4>2. wire[1] = Blank
        BY <1>7, <3>1, <4>1
      <4>3. QED
        BY <4>2, LineFacts
    <3>2. QED
      BY <1>3, <1>7, <3>1, CutLines
  <2>4. conn' # "open"
    BY <1>3
  <2>5. /\ Left0 => Left0'
        /\ \A l : ~Left1(l)
        /\ \A l, m : ~Left2(l, m)
    <3>1. /\ \A l : Len(<<l, Blank>>) = 2
          /\ \A l, m : Len(<<l, m, Blank>>) = 3
      OBVIOUS
    <3>2. /\ \A l : wire # <<l, Blank>>
          /\ \A l, m : wire # <<l, m, Blank>>
      BY <1>20, <3>1
    <3>3. Left0'
      BY <2>3, <2>4 DEF Left0
    <3>4. ASSUME NEW l PROVE ~Left1(l)
      BY <1>1, <3>2 DEF Left1
    <3>5. ASSUME NEW l, NEW m PROVE ~Left2(l, m)
      BY <1>1, <3>2 DEF Left2
    <3>6. QED
      BY <3>3, <3>4, <3>5
  <2>6. ASSUME NEW e \in Events, Pending(e) PROVE Pending(e)'
    <3>1. Named(e)' <=> Named(e)
      BY <1>1 DEF Named, Chat
    <3>2. ReadWhole(e) => ReadWhole(e)'
      BY <1>1, <3>1 DEF ReadWhole
    <3>3. Unread(e) => Unread(e)'
      BY <1>1, <1>13, <2>4, <2>5, <3>1 DEF Unread, Left1, Left2
    <3>4. Carried(e)'
      BY <2>5, <2>6, <3>2, <3>3 DEF Pending, Carried
    <3>5. SaidBy(e, said)' <=> SaidBy(e, said)
      BY <1>1, <2>2 DEF SaidBy, Settled, After, AfterSeen, AfterTerminal, Marked, Added, Chat
    <3>6. Expected(e, said)' <=> Expected(e, said)
      BY <1>1, <2>2 DEF Expected, Chat
    <3>7. QED
      BY <1>13, <2>6, <3>4, <3>5, <3>6 DEF Pending
  <2>7. ASSUME Idle PROVE Idle'
    <3>1. Nothing'
      BY <1>1, <2>3, <2>4, <2>5, <2>7 DEF Idle, Nothing, Left1
    <3>2. Settled(said, gathered, seen, terminal)'
      BY <1>1, <2>2, <2>7 DEF Idle, Settled, Chat
    <3>3. QED
      BY <3>1, <3>2 DEF Idle
  <2>8. ~BrokenOff
    BY <1>1 DEF BrokenOff
  <2>9. PassInv'
    BY <1>1, <2>6, <2>7, <2>8 DEF IInv, PassInv
  <2>10. QED
    BY <1>14, <1>15, <1>16, <1>17, <1>18, <2>9 DEF IInv
<1>21. QED
  BY <1>7, <1>19, <1>20

(***************************************************************************)
(* The pass goes on as it is, or ends                                      *)
(***************************************************************************)

LEMMA Quiet ==
  ASSUME IInv,
         UNCHANGED <<endpoint, conn, wire, said, fault, reader, terminal, seen, gathered, outcome>>,
         canceled' \in BOOLEAN, checked' \in BOOLEAN, conn = "requested" => ~checked'
  PROVE  IInv'
<1>1. TypeOK' /\ ReadOK' /\ ShownIsSaid' /\ ConnInv' /\ EndInv'
  <2>1. TypeOK'
    BY DEF IInv, TypeOK
  <2>2. ReadOK' /\ ShownIsSaid'
    BY DEF IInv, ReadOK, Read, ShownIsSaid
  <2>3. ConnInv'
    BY DEF IInv, ConnInv, Running, Chat
  <2>4. EndInv'
    <3>1. EndInv
      BY DEF IInv
    <3>2. Settled(said, gathered, seen, terminal)' <=> Settled(said, gathered, seen, terminal)
      BY DEF Settled, Chat
    <3>3. QED
      BY <3>1, <3>2 DEF EndInv
  <2>5. QED
    BY <2>1, <2>2, <2>3, <2>4
<1>2. Settled(said, gathered, seen, terminal)' <=> Settled(said, gathered, seen, terminal)
  BY DEF Settled, Chat
<1>3. Idle => Idle'
  BY <1>2 DEF Idle, Nothing, Left0, Left1
<1>4. BrokenOff => BrokenOff'
  BY <1>2 DEF BrokenOff, Useless
<1>5. ASSUME NEW e \in Events, Pending(e) PROVE Pending(e)'
  <2>1. (Left0' <=> Left0) /\ (Named(e)' <=> Named(e))
    BY DEF Left0, Named, Chat
  <2>2. (\A l : Left1(l)' <=> Left1(l)) /\ (\A l, m : Left2(l, m)' <=> Left2(l, m))
    BY DEF Left1, Left2
  <2>3. Unread(e)' <=> Unread(e)
    BY <2>1, <2>2 DEF Unread
  <2>4. ReadWhole(e)' <=> ReadWhole(e)
    BY <2>1 DEF ReadWhole
  <2>5. SaidBy(e, said)' <=> SaidBy(e, said)
    BY DEF SaidBy, Settled, After, AfterSeen, AfterTerminal, Marked, Added, Chat
  <2>6. Expected(e, said)' <=> Expected(e, said)
    BY DEF Expected, Chat
  <2>7. QED
    BY <1>5, <2>1, <2>3, <2>4, <2>5, <2>6 DEF Pending, Carried
<1>6. PassInv'
  BY <1>3, <1>4, <1>5 DEF IInv, PassInv, Running
<1>7. QED
  BY <1>1, <1>6 DEF IInv

LEMMA NoBytes ==
  /\ Len(<<>>) = 0 /\ 0 \in 0..MaxEventBytes /\ 0 <= MaxEventBytes
  /\ <<>> \in Seq(LineType) /\ Len(<<>>) <= 0 /\ DOMAIN <<>> = {}
BY StreamAssumption

LEMMA SameShown ==
  ASSUME ShownIsSaid, UNCHANGED <<said, gathered>>
  PROVE  ShownIsSaid'
BY DEF ShownIsSaid

(* The pass ends with an error: what was gathered stays as it was. *)
LEMMA Stop ==
  ASSUME IInv, outcome' = Failure, canceled \/ fault',
         UNCHANGED <<endpoint, said, canceled, terminal, gathered>>,
         fault' = fault \/ fault' = TRUE,
         conn' = conn \/ (fault' /\ conn' \in {"eof", "reset"}),
         wire' = wire \/ \A j \in DOMAIN wire' : wire'[j].field \in {"", ":", "event", "data"},
         conn' = "requested" => UNCHANGED <<wire, fault>>,
         checked' \in BOOLEAN, conn' = "requested" => ~checked',
         reader' = reader \/ (reader' = Fresh /\ conn # "requested"), seen' \subseteq Indexes
  PROVE  IInv'
<1>1. outcome' \in {"failed", "canceled"} /\ (outcome' = "failed" => fault')
  BY DEF Failure
<1>2. TypeOK'
  <2>1. \A j \in DOMAIN wire' : wire'[j].field \in {"", ":", "event", "data"}
    BY DEF IInv, TypeOK
  <2>2. reader'.bytes \in 0..MaxEventBytes /\ Len(reader'.data) <= MaxEventBytes
    <3>1. Len(<<>>) = 0 /\ 0 \in 0..MaxEventBytes /\ 0 <= MaxEventBytes
      BY NoBytes
    <3>2. CASE reader' = reader
      BY <3>2 DEF IInv, TypeOK
    <3>3. CASE reader' = Fresh
      <4>1. reader'.bytes = 0 /\ Len(reader'.data) = 0
        BY <3>1, <3>3, FreshFields
      <4>2. QED
        BY <3>1, <4>1
    <3>4. QED
      BY <3>2, <3>3
  <2>3. QED
    BY <1>1, <2>1, <2>2 DEF IInv, TypeOK
<1>3. ReadOK'
  <2>1. reader'.data \in Seq(LineType) /\ Len(reader'.data) <= reader'.bytes
        /\ reader' = Read(reader'.name, reader'.data, reader'.bytes)
    <3>1. CASE reader' = reader
      BY <3>1 DEF IInv, ReadOK
    <3>2. CASE reader' = Fresh
      <4>1. <<>> \in Seq(LineType) /\ Len(<<>>) <= 0
        BY NoBytes
      <4>2. Fresh = Read("", <<>>, 0)
        BY DEF Fresh, Read
      <4>3. reader'.name = "" /\ reader'.data = <<>> /\ reader'.bytes = 0
        BY <3>2, FreshFields
      <4>4. QED
        BY <3>2, <4>1, <4>2, <4>3
    <3>3. QED
      BY <3>1, <3>2
  <2>2. QED
    BY <2>1 DEF IInv, ReadOK, Read
<1>4. ShownIsSaid'
  BY SameShown DEF IInv
<1>5. ConnInv'
  <2>1. (conn' = "reset" => fault') /\ (conn' = "eof" => fault' \/ said'.terminal)
        /\ (fault' \/ Conforming(said'))
    BY DEF IInv, ConnInv
  <2>2. conn' = "requested" => ~checked' /\ ~fault' /\ wire' = <<>> /\ reader' = Fresh
    BY DEF IInv, ConnInv
  <2>3. ~Running'
    BY <1>1 DEF Running
  <2>4. QED
    BY <2>1, <2>2, <2>3 DEF ConnInv
<1>6. PassInv' /\ EndInv'
  BY <1>1 DEF PassInv, EndInv, Running
<1>7. QED
  BY <1>2, <1>3, <1>4, <1>5, <1>6 DEF IInv

LEMMA CancelStep ==
  ASSUME IInv, Cancel
  PROVE  IInv'
<1>1. /\ UNCHANGED <<endpoint, conn, wire, said, fault, reader, terminal, seen, gathered, outcome>>
      /\ canceled' = TRUE /\ checked' = checked
  BY DEF Cancel, providerVars, readerVars
<1>2. checked \in BOOLEAN /\ (conn = "requested" => ~checked)
  BY DEF IInv, TypeOK, ConnInv
<1>3. QED
  BY <1>1, <1>2, Quiet

LEMMA ConnectStep ==
  ASSUME IInv, Connect \/ ConnectCanceled
  PROVE  IInv'
<1>1. /\ conn = "requested" /\ Running
      /\ UNCHANGED <<endpoint, wire, said, canceled, checked, reader, terminal, seen, gathered>>
  BY DEF Connect, ConnectCanceled
<1>2. ~checked /\ ~fault /\ wire = <<>> /\ reader = Fresh /\ checked \in BOOLEAN /\ seen \subseteq Indexes
  BY <1>1 DEF IInv, ConnInv, TypeOK
<1>3. CASE conn' = "open" /\ UNCHANGED <<fault, outcome>>
  <2>1. TypeOK' /\ ReadOK' /\ ShownIsSaid' /\ ConnInv' /\ EndInv'
    BY <1>1, <1>3 DEF IInv, TypeOK, ReadOK, Read, ShownIsSaid, ConnInv, EndInv, Chat, Running
  <2>2. Idle
    <3>1. ASSUME NEW e \in Events PROVE ~Pending(e)
      <4>1. ~Unread(e)
        BY <1>1, <1>2 DEF Unread, Left1, Left2
      <4>2. ReadWhole(e) => reader.data # <<>>
        <5>1. \A l, m : <<l>> # <<>> /\ <<l, m>> # <<>>
          OBVIOUS
        <5>2. ReadWhole(e) => \E l, m : reader.data = <<l>> \/ reader.data = <<l, m>>
          <6>1. CASE reader = Read("", <<Data(e, 0)>>, 1)
            BY <6>1, ReadFields
          <6>2. CASE reader = Read("", <<Data(e, 0)>>, 2)
            BY <6>2, ReadFields
          <6>3. CASE reader = Read("", <<Data(e, 1), Data(e, 2)>>, 2)
            <7>1. reader.data = <<Data(e, 1), Data(e, 2)>>
              BY <6>3, ReadFields
            <7>2. QED
              BY <7>1
          <6>4. CASE reader = Read(e.kind, <<Untyped(e)>>, 2)
            BY <6>4, ReadFields
          <6>5. QED
            BY <6>1, <6>2, <6>3, <6>4 DEF ReadWhole
        <5>3. QED
          BY <5>1, <5>2
      <4>3. QED
        BY <1>2, <4>1, <4>2, FreshFields DEF Pending, Carried
    <3>2. QED
      BY <1>1, <1>2, <3>1 DEF IInv, PassInv, BrokenOff
  <2>3. Idle'
    BY <1>1, <1>2, <1>3, <2>2 DEF Idle, Nothing, Settled, Chat
  <2>4. QED
    BY <2>1, <2>3 DEF IInv, PassInv
<1>4. CASE conn' \in {"eof", "reset"} /\ fault' = TRUE /\ outcome' = Failure
  BY <1>1, <1>2, <1>4, Stop
<1>5. CASE UNCHANGED <<conn, fault>> /\ canceled /\ outcome' = "canceled"
  BY <1>1, <1>2, <1>5, Stop DEF Failure
<1>6. QED
  BY <1>3, <1>4, <1>5 DEF Connect, ConnectCanceled

LEMMA CheckStep ==
  ASSUME IInv, CheckContext
  PROVE  IInv'
<1>1. /\ conn # "requested" /\ Running
      /\ UNCHANGED <<endpoint, conn, wire, said, fault, canceled, reader, terminal, seen, gathered>>
  BY DEF CheckContext
<1>2. checked \in BOOLEAN /\ canceled \in BOOLEAN /\ seen \subseteq Indexes
  BY DEF IInv, TypeOK
<1>3. CASE canceled /\ outcome' = "canceled" /\ checked' = checked
  BY <1>1, <1>2, <1>3, Stop DEF Failure
<1>4. CASE checked' = TRUE /\ outcome' = outcome
  BY <1>1, <1>2, <1>4, Quiet
<1>5. QED
  BY <1>3, <1>4 DEF CheckContext

LEMMA ReadErrorStep ==
  ASSUME IInv, ReadError
  PROVE  IInv'
<1>1. /\ outcome' = Failure /\ checked' = FALSE /\ (canceled \/ conn = "reset")
      /\ UNCHANGED <<endpoint, conn, wire, said, fault, canceled, reader, terminal, seen, gathered>>
  BY DEF ReadError
<1>2. seen \subseteq Indexes /\ (conn = "reset" => fault)
  BY DEF IInv, TypeOK, ConnInv
<1>3. QED
  BY <1>1, <1>2, Stop

(***************************************************************************)
(* An event is delivered                                                   *)
(***************************************************************************)

LEMMA WholeWhenSettled ==
  ASSUME NEW s \in SaidType, NEW g, NEW saw, NEW t, t, Settled(s, g, saw, t), Conforming(s)
  PROVE  PassOutcome(g) = "ok"
<1>1. s.terminal
  BY DEF Settled
<1>2. ASSUME NEW i \in Indexes, g.calls[i].known PROVE Whole(g.calls[i])
  <2>1. CallAgrees(g.calls[i], s.call[i], s.args[i])
    BY DEF Settled, CallsAgree
  <2>2. s.call[i] \in {"unsaid", "open", "closed"} /\ s.args[i] \in 0..MaxFragments
    BY DEF SaidType
  <2>3. s.call[i] = "closed"
    BY <1>1, <1>2, <2>1, <2>2 DEF CallAgrees, Conforming
  <2>4. s.args[i] # 0 /\ s.args[i] \in Nat
    BY <2>2, <2>3, StreamAssumption DEF Conforming
  <2>5. g.calls[i].args # <<>>
    BY <2>1, <2>4, CountUp DEF CallAgrees
  <2>6. QED
    BY <2>1, <2>3, <2>5 DEF CallAgrees, Whole
<1>3. QED
  BY <1>2 DEF PassOutcome

LEMMA GatheredTypes ==
  ASSUME NEW g \in GatheredType, NEW i \in Indexes
  PROVE  g.calls[i].args \in Seq(1..MaxFragments)
BY DEF GatheredType, CallType

(* What Stop and Delivered have in common. *)
LEMMA FreshTypes ==
  /\ Fresh.bytes \in 0..MaxEventBytes /\ Len(Fresh.data) <= MaxEventBytes
  /\ Fresh.data \in Seq(LineType) /\ Len(Fresh.data) <= Fresh.bytes
  /\ Fresh = Read(Fresh.name, Fresh.data, Fresh.bytes)
<1>1. Fresh = Read("", <<>>, 0)
  BY DEF Fresh, Read
<1>2. QED
  BY <1>1, FreshFields, NoBytes

LEMMA Delivered ==
  ASSUME IInv, Running, conn # "requested",
         UNCHANGED <<endpoint, conn, said, fault, canceled>>, checked' = FALSE, wire' = <<>>,
         gathered' \in GatheredType, seen' \subseteq Indexes, terminal' \in BOOLEAN,
         Settled(said, gathered', seen', terminal'),
         \/ outcome' = "running" /\ ~(Chat /\ terminal') /\ reader' = Fresh
         \/ outcome' = Return(gathered', terminal') /\ (fault \/ said.terminal)
            /\ (reader' = Fresh \/ reader' = reader)
  PROVE  IInv'
<1>1. reader' = Fresh \/ reader' = reader
  OBVIOUS
<1>2. /\ fault \in BOOLEAN /\ canceled \in BOOLEAN
      /\ endpoint \in {"chat", "responses"} /\ conn \in {"requested", "open", "eof", "reset"}
  BY DEF IInv, TypeOK
<1>3. PassOutcome(gathered') \in {"ok", "failed"} /\ Failure \in {"failed", "canceled"}
  BY DEF PassOutcome, Failure
<1>4. outcome' \in {"running", "ok", "failed", "canceled"}
  BY <1>3 DEF Return
<1>5. /\ reader'.bytes \in 0..MaxEventBytes /\ Len(reader'.data) <= MaxEventBytes
      /\ reader'.data \in Seq(LineType) /\ Len(reader'.data) <= reader'.bytes
      /\ reader' = Read(reader'.name, reader'.data, reader'.bytes)
  <2>1. CASE reader' = Fresh
    BY <2>1, FreshTypes
  <2>2. CASE reader' = reader
    BY <2>2 DEF IInv, TypeOK, ReadOK
  <2>3. QED
    BY <1>1, <2>1, <2>2
<1>6. TypeOK'
  <2>1. \A j \in DOMAIN wire' : wire'[j].field \in {"", ":", "event", "data"}
    BY NoBytes
  <2>2. \A i \in Indexes : gathered'.calls[i].args \in Seq(1..MaxFragments)
    BY GatheredTypes
  <2>3. QED
    BY <1>2, <1>4, <1>5, <2>1, <2>2 DEF TypeOK
<1>7. ReadOK'
  BY <1>5 DEF IInv, ReadOK, Read
<1>8. ShownIsSaid'
  BY DEF Settled, Shown, ShownIsSaid
<1>9. ConnInv'
  <2>1. /\ conn' # "requested" /\ (conn = "reset" => fault) /\ (conn = "eof" => fault \/ said.terminal)
        /\ (fault \/ Conforming(said))
    BY DEF IInv, ConnInv
  <2>2. Running' /\ Chat => ~terminal'
    <3>1. ASSUME Running' PROVE outcome' = "running"
      BY <3>1 DEF Running
    <3>2. "running" \notin {"ok", "failed", "canceled"}
      OBVIOUS
    <3>3. outcome' = Return(gathered', terminal') => outcome' # "running"
      BY <1>3 DEF Return
    <3>4. QED
      BY <3>1, <3>3
  <2>3. Chat' <=> Chat
    BY DEF Chat
  <2>4. QED
    BY <2>1, <2>2, <2>3 DEF ConnInv
<1>10. Settled(said, gathered, seen, terminal)'
  BY DEF Settled, Chat
<1>11. PassInv'
  <2>1. ASSUME Running' PROVE reader' = Fresh
    <3>1. outcome' = Return(gathered', terminal') => outcome' # "running"
      BY <1>3 DEF Return
    <3>2. QED
      BY <2>1, <3>1 DEF Running
  <2>2. Fresh' = Fresh
    BY DEF Fresh
  <2>3. QED
    BY <1>10, <2>1, <2>2 DEF PassInv, Idle, Nothing
<1>12. EndInv'
  <2>1. outcome' = "failed" => fault
    <3>1. ASSUME outcome' = "failed", ~fault PROVE FALSE
      <4>1. outcome' = Return(gathered', terminal') /\ said.terminal
        BY <3>1
      <4>2. terminal'
        BY <4>1 DEF Settled
      <4>3. Conforming(said) /\ said \in SaidType
        BY <3>1 DEF IInv, ConnInv, ReadOK
      <4>4. PassOutcome(gathered') = "ok"
        BY <4>2, <4>3, WholeWhenSettled
      <4>5. QED
        BY <3>1, <4>1, <4>2, <4>4 DEF Return
    <3>2. QED
      BY <3>1
  <2>2. outcome' = "ok" => terminal' /\ PassOutcome(gathered') = "ok"
    BY <1>3 DEF Return
  <2>3. PassOutcome(gathered)' = PassOutcome(gathered')
    BY DEF PassOutcome, Whole
  <2>4. QED
    BY <1>10, <2>1, <2>2, <2>3 DEF EndInv
<1>13. QED
  BY <1>6, <1>7, <1>8, <1>9, <1>11, <1>12 DEF IInv

LEMMA AfterFacts ==
  ASSUME IInv, NEW e \in Events, Pending(e)
  PROVE  /\ e.kind \in Kinds /\ After(e) \in GatheredType /\ AfterSeen(e) \subseteq Indexes
         /\ AfterTerminal(e) \in BOOLEAN
         /\ Settled(said, After(e), AfterSeen(e), AfterTerminal(e))
         /\ fault \/ Expected(e, said)
         /\ terminal => e.kind \in Closers
<1>1. seen \subseteq Indexes /\ terminal \in BOOLEAN
  BY DEF IInv, TypeOK
<1>2. e.kind \in Kinds
  BY DEF Events
<1>3. AfterSeen(e) \subseteq Indexes
  BY <1>1 DEF AfterSeen, Pending, SaidBy
<1>4. AfterTerminal(e) \in BOOLEAN
  BY <1>1 DEF AfterTerminal
<1>5. QED
  BY <1>2, <1>3, <1>4 DEF Pending, SaidBy

(* The decoder gives the event up. *)
LEMMA Fails ==
  ASSUME IInv, Running, conn # "requested", outcome' = Failure, canceled \/ fault,
         UNCHANGED <<endpoint, conn, said, fault, canceled, terminal, gathered>>, checked' = FALSE,
         \A j \in DOMAIN wire' : wire'[j].field \in {"", ":", "event", "data"},
         reader' = reader \/ reader' = Fresh, seen' \subseteq Indexes
  PROVE  IInv'
BY Stop

LEMMA DeliverChat ==
  ASSUME IInv, Running, conn # "requested", NEW e \in Events, Pending(e), Chat,
         NEW last \in BOOLEAN, last => conn = "eof", ChatEvent(e, last),
         UNCHANGED <<endpoint, conn, said, fault, canceled>>, checked' = FALSE,
         reader' = Fresh, wire' = <<>>
  PROVE  IInv'
<1>1. /\ e.kind \in Kinds /\ After(e) \in GatheredType /\ AfterSeen(e) \subseteq Indexes
      /\ AfterTerminal(e) \in BOOLEAN
      /\ Settled(said, After(e), AfterSeen(e), AfterTerminal(e))
      /\ fault \/ Expected(e, said)
  BY AfterFacts
<1>2. ~terminal /\ (conn = "eof" => fault \/ said.terminal) /\ seen \subseteq Indexes
  BY DEF IInv, ConnInv, TypeOK
<1>3. \A j \in DOMAIN wire' : wire'[j].field \in {"", ":", "event", "data"}
  BY NoBytes
<1>4. CASE e.kind = "[DONE]" /\ terminal' = TRUE /\ outcome' = Return(gathered, TRUE)
           /\ UNCHANGED <<seen, gathered>>
  <2>1. After(e) = gathered /\ AfterSeen(e) = seen /\ AfterTerminal(e) = TRUE
    BY <1>4 DEF After, AfterSeen, AfterTerminal, Chunks
  <2>2. Settled(said, gathered', seen', terminal') /\ gathered' \in GatheredType
        /\ seen' \subseteq Indexes /\ terminal' \in BOOLEAN
    BY <1>1, <1>4, <2>1
  <2>3. fault \/ said.terminal
    BY <1>1, <1>4 DEF Expected
  <2>4. outcome' = Return(gathered', terminal')
    BY <1>4
  <2>5. QED
    BY <2>2, <2>3, <2>4, Delivered
<1>5. CASE e.kind \in {"broken", "error"} /\ outcome' = Failure /\ UNCHANGED <<terminal, seen, gathered>>
  <2>1. fault
    BY <1>1, <1>5 DEF Expected
  <2>2. seen' \subseteq Indexes
    BY <1>2, <1>5
  <2>3. QED
    BY <1>3, <1>5, <2>1, <2>2, Fails
<1>6. CASE e.kind \in {"text", "reasoning", "call", "other"}
  <2> DEFINE empty == e.kind \in {"text", "reasoning"} /\ e.n = 0
             saw == IF e.kind = "call" THEN seen \cup {e.i} ELSE seen
             closed == IF e.finish = "tool_calls" THEN saw ELSE {}
             bad == ~empty /\ (~Valid(e) \/ Refused(e))
  <2>1. /\ terminal' = terminal /\ seen' = saw
        /\ gathered' = IF bad THEN gathered
                       ELSE MarkDone(IF empty THEN gathered ELSE Gather(gathered, e), closed)
        /\ outcome' = IF bad THEN Failure ELSE GoOn(last)
    BY <1>6 DEF ChatEvent
  <2>2. saw = AfterSeen(e) /\ (empty <=> Empty(e)) /\ e.kind \in Chunks
        /\ e.kind \notin {"completed", "[DONE]"}
    BY <1>6 DEF AfterSeen, Empty, Chunks
  <2>3. closed = Marked(e) /\ MarkDone(IF empty THEN gathered ELSE Gather(gathered, e), closed) = After(e)
    BY <2>2 DEF Marked, After, Added
  <2>4. AfterTerminal(e) = FALSE /\ terminal' = FALSE
    BY <1>2, <2>1, <2>2 DEF AfterTerminal, IInv, TypeOK
  <2>5. bad => canceled \/ fault
    BY <1>1, <2>2 DEF Expected, Refused
  <2>6. CASE bad
    <3>1. gathered' = gathered /\ outcome' = Failure /\ seen' \subseteq Indexes /\ terminal' = terminal
      BY <1>1, <2>1, <2>2, <2>6
    <3>2. QED
      BY <1>3, <2>5, <2>6, <3>1, Fails
  <2>7. CASE ~bad
    <3>1. gathered' = After(e) /\ outcome' = GoOn(last) /\ seen' = AfterSeen(e)
      BY <2>1, <2>2, <2>3, <2>7
    <3> HIDE DEF empty, saw, closed, bad
    <3>2. Settled(said, gathered', seen', terminal') /\ gathered' \in GatheredType
          /\ seen' \subseteq Indexes /\ terminal' \in BOOLEAN
      BY <1>1, <2>4, <3>1
    <3>3. CASE last
      <4>1. outcome' = Return(gathered', terminal') /\ (fault \/ said.terminal)
        BY <1>2, <3>1, <3>3 DEF GoOn
      <4>2. QED
        BY <3>2, <4>1, Delivered
    <3>4. CASE ~last
      <4>1. outcome' = "running" /\ ~(Chat /\ terminal')
        BY <2>4, <3>1, <3>4 DEF GoOn
      <4>2. QED
        BY <3>2, <4>1, Delivered
    <3>5. QED
      BY <3>3, <3>4
  <2>8. QED
    BY <2>6, <2>7
<1>7. QED
  BY <1>4, <1>5, <1>6 DEF ChatEvent

LEMMA DeliverResponses ==
  ASSUME IInv, Running, conn # "requested", NEW e \in Events, Pending(e), ~Chat,
         NEW last \in BOOLEAN, last => conn = "eof", ResponsesEvent(e, e.kind, last),
         UNCHANGED <<endpoint, conn, said, fault, canceled>>, checked' = FALSE,
         reader' = Fresh, wire' = <<>>
  PROVE  IInv'
<1>1. /\ e.kind \in Kinds /\ After(e) \in GatheredType /\ AfterSeen(e) = seen
      /\ AfterTerminal(e) \in BOOLEAN
      /\ Settled(said, After(e), seen, AfterTerminal(e))
      /\ fault \/ Expected(e, said)
      /\ terminal => e.kind \in Closers
  BY AfterFacts DEF AfterSeen
<1>2. (conn = "eof" => fault \/ said.terminal) /\ seen \subseteq Indexes /\ terminal \in BOOLEAN
      /\ gathered \in GatheredType
  BY DEF IInv, ConnInv, TypeOK, ReadOK
<1>3. \A j \in DOMAIN wire' : wire'[j].field \in {"", ":", "event", "data"}
  BY NoBytes
<1>4. seen' = seen /\ seen' \subseteq Indexes
  BY <1>2 DEF ResponsesEvent
<1>5. CASE e.kind = "[DONE]" /\ outcome' = Return(gathered, terminal) /\ UNCHANGED <<terminal, gathered>>
  <2>1. After(e) = gathered /\ AfterTerminal(e) = terminal
    BY <1>2, <1>5 DEF After, AfterTerminal, Chunks
  <2>2. Settled(said, gathered', seen', terminal') /\ gathered' \in GatheredType /\ terminal' \in BOOLEAN
    BY <1>1, <1>2, <1>4, <1>5, <2>1
  <2>3. fault \/ said.terminal
    BY <1>1, <1>5 DEF Expected
  <2>4. outcome' = Return(gathered', terminal')
    BY <1>5
  <2>5. QED
    BY <1>4, <2>2, <2>3, <2>4, Delivered
<1>6. CASE e.kind \in {"broken", "error"} /\ outcome' = Failure /\ UNCHANGED <<terminal, gathered>>
  <2>1. fault
    BY <1>1, <1>6 DEF Expected
  <2>2. QED
    BY <1>3, <1>4, <1>6, <2>1, Fails
(* The event is taken, and reading goes on or the body has ended. *)
<1>7. ASSUME gathered' = After(e), terminal' = AfterTerminal(e), outcome' = GoOn(last) PROVE IInv'
  <2>1. Settled(said, gathered', seen', terminal') /\ gathered' \in GatheredType /\ terminal' \in BOOLEAN
    BY <1>1, <1>4, <1>7
  <2>2. CASE last
    <3>1. outcome' = Return(gathered', terminal') /\ (fault \/ said.terminal)
      BY <1>2, <1>7, <2>2 DEF GoOn
    <3>2. QED
      BY <1>4, <2>1, <3>1, Delivered
  <2>3. CASE ~last
    <3>1. outcome' = "running" /\ ~(Chat /\ terminal')
      BY <1>7, <2>3 DEF GoOn
    <3>2. QED
      BY <1>4, <2>1, <3>1, Delivered
  <2>4. QED
    BY <2>2, <2>3
<1>8. CASE e.kind \in {"text", "reasoning", "call", "callDone"}
  <2> DEFINE bad == ~Valid(e) \/ Refused(e)
  <2>1. /\ terminal' = terminal
        /\ gathered' = IF bad THEN gathered ELSE Gather(gathered, e)
        /\ outcome' = IF bad THEN Failure ELSE GoOn(last)
    BY <1>8 DEF ResponsesEvent
  <2>2. AfterTerminal(e) = terminal
    BY <1>2, <1>8 DEF AfterTerminal
  <2>3. CASE bad
    <3>1. canceled \/ fault
      BY <1>1, <2>3 DEF Expected, Refused
    <3>2. gathered' = gathered /\ outcome' = Failure
      BY <2>1, <2>3
    <3>3. QED
      BY <1>3, <1>4, <2>1, <3>1, <3>2, Fails
  <2>4. CASE ~bad
    <3>1. ~Empty(e)
      BY <2>4 DEF Empty, Valid
    <3>2. After(e) = Gather(gathered, e)
      BY <1>8, <3>1 DEF After, Added, Chunks
    <3>3. QED
      BY <1>7, <2>1, <2>2, <2>4, <3>2
  <2>5. QED
    BY <2>3, <2>4
<1>9. CASE e.kind = "completed" /\ terminal' = TRUE /\ gathered' = gathered /\ outcome' = GoOn(last)
  <2>1. After(e) = gathered /\ AfterTerminal(e) = TRUE
    BY <1>9 DEF After, AfterTerminal, Chunks
  <2>2. QED
    BY <1>7, <1>9, <2>1
<1>10. CASE e.kind \in {"other", ""} /\ UNCHANGED <<terminal, gathered>> /\ outcome' = GoOn(last)
  <2>1. e.kind = "other"
    BY <1>1, <1>10 DEF Kinds
  <2>2. After(e) = gathered /\ AfterTerminal(e) = terminal
    BY <1>2, <2>1 DEF After, Added, Empty, Gather, AfterTerminal, Chunks
  <2>3. QED
    BY <1>7, <1>10, <2>2
<1>11. QED
  BY <1>5, <1>6, <1>8, <1>9, <1>10 DEF ResponsesEvent

(***************************************************************************)
(* The reader takes a line                                                 *)
(***************************************************************************)

LEMMA Takes ==
  ASSUME ReadLine, NEW n, NEW d, NEW b, reader = Read(n, d, b),
         NEW l, Head(wire) = l, l.field # "", ~TooLarge(b + l.size)
  PROVE  /\ reader' = Read(IF l.field = "event" THEN l.event.kind ELSE n,
                           IF l.field = "data" THEN Append(d, l) ELSE d, b + l.size)
         /\ UNCHANGED <<terminal, seen, gathered, outcome>>
<1>1. reader.name = n /\ reader.data = d /\ reader.bytes = b
  BY ReadFields
<1>2. /\ reader' = [name |-> IF l.field = "event" THEN l.event.kind ELSE reader.name,
                    data |-> IF l.field = "data" THEN Append(reader.data, l) ELSE reader.data,
                    bytes |-> reader.bytes + l.size]
      /\ UNCHANGED <<terminal, seen, gathered, outcome>>
  BY <1>1 DEF ReadLine
<1>3. QED
  BY <1>1, <1>2 DEF Read

LEMMA BytesFit ==
  ASSUME NEW d \in Seq(LineType), NEW b \in Nat, Len(d) <= b, b <= MaxEventBytes
  PROVE  b \in 0..MaxEventBytes /\ Len(d) <= MaxEventBytes
BY StreamAssumption

(* The invariant but for what the reader is at. *)
LEMMA Took ==
  ASSUME IInv, ReadLine, UNCHANGED <<terminal, seen, gathered, outcome>>,
         NEW n, NEW d \in Seq(LineType), NEW b \in Nat, reader' = Read(n, d, b),
         Len(d) <= b, b <= MaxEventBytes,
         \A j \in DOMAIN wire' : wire'[j].field \in {"", ":", "event", "data"},
         PassInv'
  PROVE  IInv'
<1>1. /\ conn # "requested" /\ checked' = FALSE
      /\ UNCHANGED <<endpoint, conn, said, fault, canceled, terminal, seen, gathered, outcome>>
  BY DEF ReadLine, IInv, ConnInv, TypeOK
<1>2. reader'.name = n /\ reader'.data = d /\ reader'.bytes = b
  BY DEF Read
<1>3. b \in 0..MaxEventBytes /\ Len(d) <= MaxEventBytes
  BY BytesFit
<1>4. TypeOK'
  <2>1. reader'.bytes \in 0..MaxEventBytes /\ Len(reader'.data) <= MaxEventBytes
    BY <1>2, <1>3
  <2>2. QED
    BY <1>1, <2>1 DEF IInv, TypeOK
<1>5. ReadOK'
  <2>1. reader'.data \in Seq(LineType) /\ Len(reader'.data) <= reader'.bytes
        /\ reader' = Read(reader'.name, reader'.data, reader'.bytes)
    BY <1>2
  <2>2. QED
    BY <1>1, <2>1 DEF IInv, ReadOK, Read
<1>6. ShownIsSaid'
  BY <1>1, SameShown DEF IInv
<1>7. ConnInv'
  <2>1. ConnInv /\ (Chat' <=> Chat) /\ (Running' <=> Running)
    BY <1>1 DEF IInv, Chat, Running
  <2>2. /\ conn' # "requested" /\ (conn' = "reset" => fault') /\ (conn' = "eof" => fault' \/ said'.terminal)
        /\ (fault' \/ Conforming(said'))
    BY <1>1, <2>1 DEF ConnInv
  <2>3. Chat' /\ Running' => ~terminal'
    <3>1. Chat /\ Running => terminal = FALSE
      BY <2>1 DEF ConnInv, IInv, TypeOK
    <3>2. Chat /\ Running => terminal' = FALSE
      BY <1>1, <3>1
    <3>3. QED
      BY <2>1, <3>2
  <2>4. QED
    BY <2>2, <2>3 DEF ConnInv
<1>8. EndInv'
  <2>1. Running' /\ outcome' = "running"
    BY <1>1 DEF ReadLine, Running
  <2>2. QED
    BY <2>1 DEF EndInv
<1>9. QED
  BY <1>4, <1>5, <1>6, <1>7, <1>8 DEF IInv

LEMMA StillPending ==
  ASSUME NEW e \in Events, Pending(e), Carried(e)',
         UNCHANGED <<endpoint, said, fault, terminal, seen, gathered>>
  PROVE  Pending(e)'
<1>1. SaidBy(e, said)' <=> SaidBy(e, said)
  BY DEF SaidBy, Settled, After, AfterSeen, AfterTerminal, Marked, Added, Chat
<1>2. Expected(e, said)' <=> Expected(e, said)
  BY DEF Expected, Chat
<1>3. QED
  BY <1>1, <1>2 DEF Pending

LEMMA FreshRead == Fresh = Read("", <<>>, 0)
BY DEF Fresh, Read

(* A line of the wire is the only one, or the one before the last. *)
LEMMA LeftLines ==
  /\ \A l : Left1(l) => wire # <<>> /\ Head(wire) = l
                        /\ (Tail(wire) = <<Blank>> \/ (conn # "open" /\ Tail(wire) = <<>>))
  /\ \A l, m : Left2(l, m) => wire # <<>> /\ Head(wire) = l
                        /\ (Tail(wire) = <<m, Blank>> \/ (conn # "open" /\ Tail(wire) = <<m>>))
<1>1. ASSUME NEW l, Left1(l)
      PROVE  wire # <<>> /\ Head(wire) = l /\ (Tail(wire) = <<Blank>> \/ (conn # "open" /\ Tail(wire) = <<>>))
  <2>1. CASE wire = <<l, Blank>>
    <3>1. <<l, Blank>> # <<>> /\ Head(<<l, Blank>>) = l /\ Tail(<<l, Blank>>) = <<Blank>>
      BY Tuples
    <3>2. QED
      BY <2>1, <3>1
  <2>2. CASE conn # "open" /\ wire = <<l>>
    <3>1. <<l>> # <<>> /\ Head(<<l>>) = l /\ Tail(<<l>>) = <<>>
      BY Tuples
    <3>2. QED
      BY <2>2, <3>1
  <2>3. QED
    BY <1>1, <2>1, <2>2 DEF Left1
<1>2. ASSUME NEW l, NEW m, Left2(l, m)
      PROVE  wire # <<>> /\ Head(wire) = l
             /\ (Tail(wire) = <<m, Blank>> \/ (conn # "open" /\ Tail(wire) = <<m>>))
  <2>1. CASE wire = <<l, m, Blank>>
    <3>1. <<l, m, Blank>> # <<>> /\ Head(<<l, m, Blank>>) = l /\ Tail(<<l, m, Blank>>) = <<m, Blank>>
      BY Tuples
    <3>2. QED
      BY <2>1, <3>1
  <2>2. CASE conn # "open" /\ wire = <<l, m>>
    <3>1. <<l, m>> # <<>> /\ Head(<<l, m>>) = l /\ Tail(<<l, m>>) = <<m>>
      BY Tuples
    <3>2. QED
      BY <2>2, <3>1
  <2>3. QED
    BY <1>2, <2>1, <2>2 DEF Left2
<1>3. QED
  BY <1>1, <1>2

(* The lines that are left after the one that is taken. *)
LEMMA TakesLeft ==
  ASSUME ReadLine
  PROVE  /\ \A l : Left1(l) => Left0'
         /\ \A l, m : Left2(l, m) => Left1(m)'
<1>1. wire' = Tail(wire) /\ conn' = conn
  BY DEF ReadLine
<1>2. ASSUME NEW l, Left1(l) PROVE Left0'
  BY <1>1, <1>2, LeftLines DEF Left0
<1>3. ASSUME NEW l, NEW m, Left2(l, m) PROVE Left1(m)'
  BY <1>1, <1>3, LeftLines DEF Left1
<1>4. QED
  BY <1>2, <1>3

LEMMA LineFields ==
  ASSUME NEW w,
         \/ w = <<>> \/ w = <<Blank>>
         \/ \E l : l.field \in {":", "event", "data"} /\ (w = <<l, Blank>> \/ w = <<l>>)
  PROVE  \A j \in DOMAIN w : w[j].field \in {"", ":", "event", "data"}
<1>1. Blank.field = ""
  BY LineFacts
<1>2. CASE w = <<>>
  BY <1>2, NoBytes
<1>3. CASE w = <<Blank>>
  <2>1. \A j \in DOMAIN w : w[j] = Blank
    BY <1>3, LinesOf
  <2>2. QED
    BY <1>1, <2>1
<1>4. CASE \E l : l.field \in {":", "event", "data"} /\ (w = <<l, Blank>> \/ w = <<l>>)
  <2>1. PICK l : l.field \in {":", "event", "data"} /\ (w = <<l, Blank>> \/ w = <<l>>)
    BY <1>4
  <2>2. CASE w = <<l, Blank>>
    <3>1. \A j \in DOMAIN w : w[j] = l \/ w[j] = Blank
      BY <2>2, LinesOf
    <3>2. QED
      BY <1>1, <2>1, <3>1
  <2>3. CASE w = <<l>>
    <3>1. \A j \in DOMAIN w : w[j] = l
      BY <2>3, LinesOf
    <3>2. QED
      BY <2>1, <3>1
  <2>4. QED
    BY <2>1, <2>2, <2>3
<1>5. QED
  BY <1>2, <1>3, <1>4

LEMMA Sizes ==
  /\ ~TooLarge(0 + 1) /\ ~TooLarge(1 + 1) /\ TooLarge(0 + (MaxEventBytes + 1))
  /\ 0 + 1 = 1 /\ 1 + 1 = 2 /\ 1 <= MaxEventBytes /\ 2 <= MaxEventBytes
  /\ \A b \in 0..MaxEventBytes : ~TooLarge(b + 0)
BY StreamAssumption DEF TooLarge

LEMMA TakeIdle ==
  ASSUME IInv, ReadLine, Idle
  PROVE  IInv'
<1>1. /\ wire # <<>> /\ wire' = Tail(wire) /\ Running
      /\ UNCHANGED <<endpoint, conn, said, fault>>
  BY DEF ReadLine
<1>2. CASE reader = Fresh /\ Left1(Comment)
  <2>1. Head(wire) = Comment /\ (wire' = <<Blank>> \/ (conn' # "open" /\ wire' = <<>>)) /\ Left0'
    BY <1>1, <1>2, LeftLines, TakesLeft
  <2>2. Comment.field = ":" /\ Comment.size = 1
    BY LineFacts
  <2>3. reader = Read("", <<>>, 0)
    BY <1>2, FreshRead
  <2>4. reader' = Read("", <<>>, 0 + 1) /\ UNCHANGED <<terminal, seen, gathered, outcome>>
    <3>1. /\ Comment.field \notin {"", "event", "data"}
          /\ ~TooLarge(0 + Comment.size)
      BY <2>2, Sizes
    <3>2. QED
      BY <2>1, <2>2, <2>3, <3>1, Takes
  <2>5. reader' = Read("", <<>>, 1)
    BY <2>4, Sizes
  <2>6. Nothing'
    BY <2>1, <2>5 DEF Nothing
  <2>7. Settled(said, gathered, seen, terminal)'
    BY <1>1, <2>4 DEF Idle, Settled, Chat
  <2>8. PassInv'
    BY <2>6, <2>7 DEF PassInv, Idle
  <2>9. \A j \in DOMAIN wire' : wire'[j].field \in {"", ":", "event", "data"}
    BY <2>1, LineFields
  <2>10. <<>> \in Seq(LineType) /\ 1 \in Nat /\ Len(<<>>) <= 1
    BY NoBytes
  <2>11. QED
    BY <2>4, <2>5, <2>8, <2>9, <2>10, Took, Sizes
<1>3. CASE reader = Read("", <<>>, 1) /\ wire = <<Blank>>
  <2>1. Head(wire) = Blank /\ wire' = <<>>
    <3>1. Head(<<Blank>>) = Blank /\ Tail(<<Blank>>) = <<>>
      BY Tuples
    <3>2. QED
      BY <1>1, <1>3, <3>1
  <2>2. Blank.field = "" /\ Blank.size = 0
    BY LineFacts
  <2>3. reader.data = <<>> /\ reader.bytes \in 0..MaxEventBytes
    BY <1>3, ReadFields DEF IInv, TypeOK
  <2>4. ~TooLarge(reader.bytes + Head(wire).size)
    BY <2>1, <2>2, <2>3, Sizes
  <2>5. reader' = Fresh /\ UNCHANGED <<terminal, seen, gathered, outcome>>
    BY <2>1, <2>2, <2>3, <2>4 DEF ReadLine
  <2>6. Nothing'
    <3>1. Fresh' = Fresh
      BY DEF Fresh
    <3>2. QED
      BY <2>1, <2>5, <3>1 DEF Nothing
  <2>7. Settled(said, gathered, seen, terminal)'
    BY <1>1, <2>5 DEF Idle, Settled, Chat
  <2>8. PassInv'
    BY <2>6, <2>7 DEF PassInv, Idle
  <2>9. \A j \in DOMAIN wire' : wire'[j].field \in {"", ":", "event", "data"}
    BY <2>1, NoBytes
  <2>10. reader' = Read("", <<>>, 0)
    BY <2>5, FreshRead
  <2>11. <<>> \in Seq(LineType) /\ 0 \in Nat /\ Len(<<>>) <= 0 /\ 0 <= MaxEventBytes
    BY NoBytes
  <2>12. QED
    BY <2>5, <2>8, <2>9, <2>10, <2>11, Took
<1>4. QED
  BY <1>1, <1>2, <1>3 DEF Idle, Nothing, Left0

LEMMA TakesEvent ==
  ASSUME IInv, ReadLine, NEW e \in Events, Pending(e), UNCHANGED <<terminal, seen, gathered, outcome>>,
         NEW n, NEW d \in Seq(LineType), NEW b \in Nat, reader' = Read(n, d, b), Len(d) <= b,
         b <= MaxEventBytes, Carried(e)',
         Left0' \/ \E l : Left1(l)' /\ l.field \in {":", "event", "data"}
  PROVE  IInv'
<1>1. UNCHANGED <<endpoint, said, fault>>
  BY DEF ReadLine
<1>2. PassInv'
  BY <1>1, StillPending DEF PassInv
<1>3. \A j \in DOMAIN wire' : wire'[j].field \in {"", ":", "event", "data"}
  <2>1. \/ wire' = <<>> \/ wire' = <<Blank>>
        \/ \E l : l.field \in {":", "event", "data"} /\ (wire' = <<l, Blank>> \/ wire' = <<l>>)
    BY DEF Left0, Left1
  <2>2. QED
    BY <2>1, LineFields
<1>4. QED
  BY <1>2, <1>3, Took

LEMMA LineAppends ==
  ASSUME NEW a \in LineType, NEW b \in LineType
  PROVE  /\ Append(<<>>, a) = <<a>> /\ Append(<<a>>, b) = <<a, b>>
         /\ <<>> \in Seq(LineType) /\ <<a>> \in Seq(LineType) /\ <<a, b>> \in Seq(LineType)
         /\ Len(<<>>) = 0 /\ Len(<<a>>) = 1 /\ Len(<<a, b>>) = 2
<1>1. Append(<<>>, a) = <<a>> /\ Append(<<a>>, b) = <<a, b>>
  BY Appends
<1>2. <<>> \in Seq(LineType) /\ <<a>> \in Seq(LineType) /\ <<a, b>> \in Seq(LineType)
  OBVIOUS
<1>3. Len(<<>>) = 0 /\ Len(<<a>>) = 1 /\ Len(<<a, b>>) = 2
  OBVIOUS
<1>4. QED
  BY <1>1, <1>2, <1>3

(* The reader, at n, d and b, takes a line of the event and goes on. *)
LEMMA TakesLine ==
  ASSUME IInv, ReadLine, NEW e \in Events, Pending(e),
         NEW n, NEW d \in Seq(LineType), NEW b \in {0, 1}, reader = Read(n, d, b),
         NEW l, Head(wire) = l, l.field \in {":", "event", "data"}, l.size = 1,
         NEW m, m = IF l.field = "event" THEN l.event.kind ELSE n,
         NEW c \in Seq(LineType), c = IF l.field = "data" THEN Append(d, l) ELSE d, Len(c) <= b + 1,
         reader' = Read(m, c, b + 1) => Carried(e)',
         Left0' \/ \E k : Left1(k)' /\ k.field \in {":", "event", "data"}
  PROVE  IInv'
<1>1. l.field # "" /\ ~TooLarge(b + l.size)
  <2>1. ~TooLarge(b + 1)
    BY StreamAssumption DEF TooLarge
  <2>2. b + l.size = b + 1
    OBVIOUS
  <2>3. ~TooLarge(b + l.size)
    BY <2>1, <2>2
  <2>4. l.field # ""
    OBVIOUS
  <2>5. QED
    BY <2>3, <2>4
<1>2. reader' = Read(m, c, b + 1) /\ UNCHANGED <<terminal, seen, gathered, outcome>>
  <2>1. reader' = Read(m, c, b + l.size) /\ UNCHANGED <<terminal, seen, gathered, outcome>>
    BY <1>1, Takes
  <2>2. QED
    BY <2>1
<1>3. b + 1 \in Nat /\ b + 1 <= MaxEventBytes
  BY StreamAssumption
<1>4. QED
  BY <1>2, <1>3, TakesEvent

LEMMA TakeUnread ==
  ASSUME IInv, ReadLine, NEW e \in Events, Pending(e), Unread(e)
  PROVE  IInv'
<1>1. wire' = Tail(wire) /\ (Named(e)' <=> Named(e)) /\ (Fresh' = Fresh)
      /\ UNCHANGED <<endpoint, conn, said, fault, canceled>> /\ checked' = FALSE /\ Running
  BY DEF ReadLine, Named, Chat, Fresh
<1>2. (\A l : Left1(l) => Head(wire) = l /\ Left0') /\ (\A l, m : Left2(l, m) => Head(wire) = l /\ Left1(m)')
  BY LeftLines, TakesLeft
<1>3. /\ Data(e, 0) \in LineType /\ Data(e, 1) \in LineType /\ Data(e, 2) \in LineType
      /\ Untyped(e) \in LineType /\ NameLine(e) \in LineType /\ Comment \in LineType
  <2>1. 0 \in 0..3 /\ 1 \in 0..3 /\ 2 \in 0..3
    OBVIOUS
  <2>2. QED
    BY <2>1, LineTypes
<1>4. /\ Data(e, 0).field = "data" /\ Data(e, 0).size = 1
      /\ Data(e, 1).field = "data" /\ Data(e, 1).size = 1
      /\ Data(e, 2).field = "data" /\ Data(e, 2).size = 1
      /\ Untyped(e).field = "data" /\ Untyped(e).size = 1
      /\ NameLine(e).field = "event" /\ NameLine(e).size = 1 /\ NameLine(e).event = e
      /\ Comment.field = ":" /\ Comment.size = 1
  BY DEF Data, Untyped, NameLine, Comment, Line
<1>5. 0 + 1 = 1 /\ 1 + 1 = 2 /\ 0 <= 1 /\ 1 <= 1 /\ 1 <= 2 /\ 2 <= 2 /\ 0 \in {0, 1} /\ 1 \in {0, 1}
  OBVIOUS
<1>6. reader = Fresh => reader = Read("", <<>>, 0)
  BY FreshRead
<1>7. CASE reader = Fresh /\ Left1(Data(e, 0))
  <2>1. reader' = Read("", <<Data(e, 0)>>, 0 + 1) => Carried(e)'
    BY <1>2, <1>5, <1>7 DEF Carried, ReadWhole
  <2>2. <<Data(e, 0)>> = Append(<<>>, Data(e, 0)) /\ <<Data(e, 0)>> \in Seq(LineType)
        /\ Len(<<Data(e, 0)>>) <= 0 + 1 /\ <<>> \in Seq(LineType)
    BY <1>3, <1>5, LineAppends
  <2>3. QED
    BY <1>2, <1>4, <1>5, <1>6, <1>7, <2>1, <2>2, TakesLine
<1>8. CASE reader = Fresh /\ Left2(Data(e, 1), Data(e, 2))
  <2>1. reader' = Read("", <<Data(e, 1)>>, 0 + 1) => Carried(e)'
    BY <1>2, <1>5, <1>8 DEF Carried, Unread
  <2>2. <<Data(e, 1)>> = Append(<<>>, Data(e, 1)) /\ <<Data(e, 1)>> \in Seq(LineType)
        /\ Len(<<Data(e, 1)>>) <= 0 + 1 /\ <<>> \in Seq(LineType)
    BY <1>3, <1>5, LineAppends
  <2>3. QED
    BY <1>2, <1>4, <1>5, <1>6, <1>8, <2>1, <2>2, TakesLine
<1>9. CASE reader = Fresh /\ Left2(Comment, Data(e, 0))
  <2>1. reader' = Read("", <<>>, 0 + 1) => Carried(e)'
    BY <1>2, <1>5, <1>9 DEF Carried, Unread
  <2>2. <<>> \in Seq(LineType) /\ Len(<<>>) <= 0 + 1
    BY <1>3, <1>5, LineAppends
  <2>3. QED
    BY <1>2, <1>4, <1>5, <1>6, <1>9, <2>1, <2>2, TakesLine
<1>10. CASE reader = Fresh /\ Named(e) /\ Left2(NameLine(e), Untyped(e))
  <2>1. reader' = Read(e.kind, <<>>, 0 + 1) => Carried(e)'
    BY <1>1, <1>2, <1>5, <1>10 DEF Carried, Unread
  <2>2. <<>> \in Seq(LineType) /\ Len(<<>>) <= 0 + 1
    BY <1>3, <1>5, LineAppends
  <2>3. QED
    BY <1>2, <1>4, <1>5, <1>6, <1>10, <2>1, <2>2, TakesLine
<1>11. CASE reader = Fresh /\ fault /\ Left1(Large(e))
  <2>1. Head(wire) = Large(e) /\ (wire' = <<Blank>> \/ wire' = <<>>)
    BY <1>1, <1>11, LeftLines
  <2>2. Large(e).field = "data" /\ Large(e).size = MaxEventBytes + 1
    BY LineFacts
  <2>3. TooLarge(reader.bytes + Head(wire).size)
    <3>1. reader.bytes = 0
      BY <1>11, FreshFields
    <3>2. QED
      BY <2>1, <2>2, <3>1, Sizes
  <2>4. outcome' = Failure /\ UNCHANGED <<reader, terminal, seen, gathered>>
    BY <2>1, <2>2, <2>3 DEF ReadLine
  <2>5. \A j \in DOMAIN wire' : wire'[j].field \in {"", ":", "event", "data"}
    BY <2>1, LineFields
  <2>6. seen \subseteq Indexes /\ conn # "requested"
    BY DEF IInv, TypeOK, ConnInv, ReadLine
  <2>7. QED
    BY <1>1, <1>11, <2>4, <2>5, <2>6, Fails
<1>12. CASE reader = Read("", <<Data(e, 1)>>, 1) /\ Left1(Data(e, 2))
  <2>1. reader' = Read("", <<Data(e, 1), Data(e, 2)>>, 1 + 1) => Carried(e)'
    BY <1>2, <1>5, <1>12 DEF Carried, ReadWhole
  <2>2. <<Data(e, 1), Data(e, 2)>> = Append(<<Data(e, 1)>>, Data(e, 2))
        /\ <<Data(e, 1), Data(e, 2)>> \in Seq(LineType)
        /\ Len(<<Data(e, 1), Data(e, 2)>>) <= 1 + 1 /\ <<Data(e, 1)>> \in Seq(LineType)
    BY <1>3, <1>5, LineAppends
  <2>3. QED
    BY <1>2, <1>4, <1>5, <1>12, <2>1, <2>2, TakesLine
<1>13. CASE reader = Read("", <<>>, 1) /\ Left1(Data(e, 0))
  <2>1. reader' = Read("", <<Data(e, 0)>>, 1 + 1) => Carried(e)'
    BY <1>2, <1>5, <1>13 DEF Carried, ReadWhole
  <2>2. <<Data(e, 0)>> = Append(<<>>, Data(e, 0)) /\ <<Data(e, 0)>> \in Seq(LineType)
        /\ Len(<<Data(e, 0)>>) <= 1 + 1 /\ <<>> \in Seq(LineType)
    BY <1>3, <1>5, LineAppends
  <2>3. QED
    BY <1>2, <1>4, <1>5, <1>13, <2>1, <2>2, TakesLine
<1>14. CASE reader = Read(e.kind, <<>>, 1) /\ Named(e) /\ Left1(Untyped(e))
  <2>1. reader' = Read(e.kind, <<Untyped(e)>>, 1 + 1) => Carried(e)'
    BY <1>1, <1>2, <1>5, <1>14 DEF Carried, ReadWhole
  <2>2. <<Untyped(e)>> = Append(<<>>, Untyped(e)) /\ <<Untyped(e)>> \in Seq(LineType)
        /\ Len(<<Untyped(e)>>) <= 1 + 1 /\ <<>> \in Seq(LineType)
    BY <1>3, <1>5, LineAppends
  <2>3. QED
    BY <1>2, <1>4, <1>5, <1>14, <2>1, <2>2, TakesLine
<1>15. QED
  BY <1>7, <1>8, <1>9, <1>10, <1>11, <1>12, <1>13, <1>14 DEF Unread

(***************************************************************************)
(* The empty line, and the end of the body                                 *)
(***************************************************************************)

LEMMA IntactFacts ==
  ASSUME NEW e \in Events
  PROVE  /\ Intact(<<Data(e, 0)>>) /\ Intact(<<Untyped(e)>>) /\ Intact(<<Data(e, 1), Data(e, 2)>>)
         /\ Data(e, 0).event = e /\ Data(e, 1).event = e /\ Untyped(e).event = e
         /\ Data(e, 0).typed /\ Data(e, 1).typed /\ ~Untyped(e).typed
<1>1. Intact(<<Data(e, 0)>>)
  <2>1. Data(e, 0).half = 0
    BY DEF Data, Line
  <2>2. Len(<<Data(e, 0)>>) = 1 /\ <<Data(e, 0)>>[1] = Data(e, 0)
    BY Tuples
  <2>3. QED
    BY <2>1, <2>2 DEF Intact
<1>2. Intact(<<Untyped(e)>>)
  <2>1. Untyped(e).half = 0
    BY DEF Untyped, Line
  <2>2. Len(<<Untyped(e)>>) = 1 /\ <<Untyped(e)>>[1] = Untyped(e)
    BY Tuples
  <2>3. QED
    BY <2>1, <2>2 DEF Intact
<1>3. Intact(<<Data(e, 1), Data(e, 2)>>)
  <2> DEFINE d == <<Data(e, 1), Data(e, 2)>>
  <2>1. Data(e, 1).half = 1 /\ Data(e, 2).half = 2 /\ Data(e, 1).event = Data(e, 2).event
    BY DEF Data, Line
  <2>2. Len(d) = 2 /\ d[1] = Data(e, 1) /\ d[2] = Data(e, 2)
    BY Tuples
  <2> HIDE DEF d
  <2>3. Intact(d)
    BY <2>1, <2>2 DEF Intact
  <2>4. QED
    BY <2>3 DEF d
<1>4. QED
  BY <1>1, <1>2, <1>3 DEF Data, Untyped, Line

(* What was read of an event is the event. *)
LEMMA WholeDecodes ==
  ASSUME NEW e \in Events, ReadWhole(e)
  PROVE  reader.data # <<>> /\ Decoded(reader.data) = e /\ TypeOf(reader.data) = e.kind
<1>1. CASE reader.data = <<Data(e, 0)>>
  <2>1. reader.data # <<>> /\ reader.data[1] = Data(e, 0)
    BY <1>1
  <2>2. Intact(reader.data) /\ reader.data[1].event = e /\ reader.data[1].typed
    BY <1>1, <2>1, IntactFacts
  <2>3. QED
    BY <2>1, <2>2 DEF Decoded, TypeOf
<1>2. CASE reader.data = <<Data(e, 1), Data(e, 2)>>
  <2>1. reader.data # <<>> /\ reader.data[1] = Data(e, 1)
    BY <1>2
  <2>2. Intact(reader.data) /\ reader.data[1].event = e /\ reader.data[1].typed
    BY <1>2, <2>1, IntactFacts
  <2>3. QED
    BY <2>1, <2>2 DEF Decoded, TypeOf
<1>3. CASE reader.data = <<Untyped(e)>> /\ reader.name = e.kind
  <2>1. reader.data # <<>> /\ reader.data[1] = Untyped(e)
    BY <1>3
  <2>2. Intact(reader.data) /\ reader.data[1].event = e
    BY <1>3, <2>1, IntactFacts
  <2>3. QED
    BY <1>3, <2>1, <2>2, IntactFacts DEF Decoded, TypeOf
<1>4. reader.data = <<Data(e, 0)>> \/ reader.data = <<Data(e, 1), Data(e, 2)>>
      \/ (reader.data = <<Untyped(e)>> /\ reader.name = e.kind)
  BY ReadFields DEF ReadWhole
<1>5. QED
  BY <1>1, <1>2, <1>3, <1>4

LEMMA Deliver ==
  ASSUME IInv, Running, conn # "requested", NEW e \in Events, Pending(e), ReadWhole(e),
         NEW last \in BOOLEAN, last => conn = "eof", Handle(reader.data, last),
         UNCHANGED <<endpoint, conn, said, fault, canceled>>, checked' = FALSE,
         reader' = Fresh, wire' = <<>>
  PROVE  IInv'
<1>1. Decoded(reader.data) = e /\ TypeOf(reader.data) = e.kind
  BY WholeDecodes
<1>2. CASE Chat
  BY <1>1, <1>2, DeliverChat DEF Handle
<1>3. CASE ~Chat
  BY <1>1, <1>3, DeliverResponses DEF Handle
<1>4. QED
  BY <1>2, <1>3

LEMMA TakeBlank ==
  ASSUME IInv, ReadLine, NEW e \in Events, Pending(e), ReadWhole(e), Left0
  PROVE  IInv'
<1>1. /\ wire # <<>> /\ wire' = Tail(wire) /\ Running /\ conn # "requested" /\ checked' = FALSE
      /\ UNCHANGED <<endpoint, conn, said, fault, canceled>>
  BY DEF ReadLine, IInv, ConnInv, TypeOK
<1>2. Head(wire) = Blank /\ wire' = <<>>
  <2>1. wire = <<Blank>>
    BY <1>1 DEF Left0
  <2>2. Head(<<Blank>>) = Blank /\ Tail(<<Blank>>) = <<>>
    BY Tuples
  <2>3. QED
    BY <1>1, <2>1, <2>2
<1>3. Blank.field = "" /\ Blank.size = 0
  BY LineFacts
<1>4. ~TooLarge(reader.bytes + Head(wire).size)
  <2>1. reader.bytes \in 0..MaxEventBytes
    BY DEF IInv, TypeOK
  <2>2. QED
    BY <1>2, <1>3, <2>1, Sizes
<1>5. reader.data # <<>>
  BY WholeDecodes
<1>6. reader' = Fresh /\ Handle(reader.data, FALSE)
  BY <1>2, <1>3, <1>4, <1>5 DEF ReadLine
<1>7. FALSE \in BOOLEAN /\ (FALSE => conn = "eof")
  OBVIOUS
<1>8. QED
  BY <1>1, <1>2, <1>6, <1>7, Deliver

LEMMA PartBreaks ==
  ASSUME NEW d, \A j \in DOMAIN d : d[j].half \in {1, 3}, d \in Seq(LineType), NEW last, Handle(d, last)
  PROVE  outcome' = Failure /\ UNCHANGED <<terminal, seen, gathered>>
<1>1. ~Intact(d)
  <2>1. Len(d) = 1 => d[1].half # 0
    OBVIOUS
  <2>2. Len(d) = 2 => d[2].half # 2
    OBVIOUS
  <2>3. QED
    BY <2>1, <2>2 DEF Intact
<1>2. Decoded(d) = Plain("broken") /\ TypeOf(d) = "broken" /\ Plain("broken").kind = "broken"
  BY <1>1 DEF Decoded, TypeOf, Plain, Delta
<1>3. QED
  BY <1>2 DEF Handle, ChatEvent, ResponsesEvent

LEMMA NotTooLarge ==
  ASSUME NEW b \in Nat, ~TooLarge(b)
  PROVE  b <= MaxEventBytes
BY StreamAssumption DEF TooLarge

LEMMA TakeBroken ==
  ASSUME IInv, ReadLine, BrokenOff
  PROVE  IInv'
<1> DEFINE l == Head(wire)
           bytes == reader.bytes + l.size
<1>1. /\ wire # <<>> /\ wire' = Tail(wire) /\ Running /\ conn # "requested" /\ checked' = FALSE
      /\ UNCHANGED <<endpoint, conn, said, fault, canceled>>
  BY DEF ReadLine, IInv, ConnInv, TypeOK
<1>2. /\ conn # "open" /\ fault /\ wire \in Seq(LineType)
      /\ \A j \in DOMAIN wire : wire[j].field = "data" => Useless(wire[j])
      /\ \A j \in DOMAIN reader.data : reader.data[j].half \in {1, 3}
      /\ terminal => Settled(said, gathered, seen, terminal)
  BY DEF BrokenOff
<1>3. /\ reader.data \in Seq(LineType) /\ Len(reader.data) <= reader.bytes
      /\ reader.bytes \in 0..MaxEventBytes /\ seen \subseteq Indexes
  BY DEF IInv, ReadOK, TypeOK
<1>4. l \in LineType /\ (l.field = "data" => Useless(l))
  <2>1. 1 \in DOMAIN wire /\ l = wire[1] /\ wire[1] \in LineType
    BY <1>1, <1>2
  <2>2. QED
    BY <1>2, <2>1
<1>5. /\ wire' \in Seq(LineType)
      /\ \A j \in DOMAIN wire' : wire'[j].field = "data" => Useless(wire'[j])
  <2>1. wire' \in Seq(LineType) /\ \A j \in DOMAIN wire' : j + 1 \in DOMAIN wire /\ wire'[j] = wire[j + 1]
    BY <1>1, <1>2
  <2>2. QED
    BY <1>2, <2>1
<1>6. \A j \in DOMAIN wire' : wire'[j].field \in {"", ":", "event", "data"}
  <2>1. ASSUME NEW j \in DOMAIN wire' PROVE wire'[j].field \in {"", ":", "event", "data"}
    <3>1. wire'[j] \in LineType
      BY <1>5, <2>1
    <3>2. QED
      BY <3>1 DEF LineType
  <2>2. QED
    BY <2>1
<1>7. l.size \in Nat /\ reader.bytes \in Nat /\ bytes \in Nat /\ reader.bytes <= bytes
  <2>1. l.size \in Nat
    BY <1>4 DEF LineType
  <2>2. reader.bytes \in Nat
    BY <1>3, StreamAssumption
  <2>3. QED
    BY <2>1, <2>2
<1> HIDE DEF l, bytes
<1>8. CASE TooLarge(bytes) /\ outcome' = Failure /\ UNCHANGED <<reader, terminal, seen, gathered>>
  BY <1>1, <1>2, <1>3, <1>6, <1>8, Fails
(* Reading goes on after the line. *)
<1>9. ASSUME UNCHANGED <<terminal, seen, gathered, outcome>>, NEW n, NEW d \in Seq(LineType), NEW b \in Nat,
             reader' = Read(n, d, b), Len(d) <= b, b <= MaxEventBytes,
             \A j \in DOMAIN d : d[j].half \in {1, 3}
      PROVE  IInv'
  <2>1. reader'.data = d
    BY <1>9 DEF Read
  <2>2. terminal' => Settled(said, gathered, seen, terminal)'
    <3>1. Settled(said, gathered, seen, terminal)' <=> Settled(said, gathered, seen, terminal)
      BY <1>1, <1>9 DEF Settled, Chat
    <3>2. QED
      BY <1>2, <1>9, <3>1
  <2>3. BrokenOff'
    BY <1>1, <1>2, <1>5, <1>9, <2>1, <2>2 DEF BrokenOff, Useless
  <2>4. PassInv'
    BY <2>3 DEF PassInv
  <2>5. QED
    BY <1>6, <1>9, <2>4, Took
<1>10. CASE ~TooLarge(bytes) /\ l.field # ""
  <2> DEFINE n == IF l.field = "event" THEN l.event.kind ELSE reader.name
             d == IF l.field = "data" THEN Append(reader.data, l) ELSE reader.data
  <2>1. reader' = Read(n, d, bytes) /\ UNCHANGED <<terminal, seen, gathered, outcome>>
    <3>1. reader = Read(reader.name, reader.data, reader.bytes)
      BY DEF IInv, ReadOK
    <3>2. Head(wire) = l /\ reader.bytes + l.size = bytes
      BY DEF l, bytes
    <3>3. QED
      BY <1>10, <3>1, <3>2, Takes
  <2>2. d \in Seq(LineType) /\ Len(d) <= bytes /\ \A j \in DOMAIN d : d[j].half \in {1, 3}
    <3>1. CASE l.field = "data"
      <4>1. l.half \in {1, 3} /\ l.size \in Nat \ {0}
        BY <1>4, <3>1 DEF Useless
      <4>2. bytes = reader.bytes + l.size
        BY DEF bytes
      <4>3. d = Append(reader.data, l)
        BY <3>1
      <4> HIDE DEF d
      <4>4. d \in Seq(LineType) /\ Len(d) = Len(reader.data) + 1 /\ DOMAIN d = 1..(Len(reader.data) + 1)
            /\ Len(reader.data) \in Nat
            /\ \A j \in DOMAIN d : d[j] = IF j = Len(reader.data) + 1 THEN l ELSE reader.data[j]
        BY <1>3, <1>4, <4>3
      <4>5. \A j \in DOMAIN d : j = Len(reader.data) + 1 \/ j \in DOMAIN reader.data
        BY <1>3, <4>4
      <4>6. \A j \in DOMAIN d : d[j].half \in {1, 3}
        BY <1>2, <4>1, <4>4, <4>5
      <4>7. Len(d) <= bytes
        BY <1>3, <1>7, <4>1, <4>2, <4>4
      <4>8. QED
        BY <4>4, <4>6, <4>7
    <3>2. CASE l.field # "data"
      <4>1. d = reader.data
        BY <3>2
      <4>2. Len(reader.data) \in Nat
        BY <1>3
      <4>3. Len(reader.data) <= bytes
        BY <1>3, <1>7, <4>2
      <4>4. QED
        BY <1>2, <1>3, <4>1, <4>3
    <3>3. QED
      BY <3>1, <3>2
  <2> HIDE DEF n, d
  <2>3. bytes <= MaxEventBytes
    BY <1>7, <1>10, NotTooLarge
  <2>4. QED
    BY <1>7, <1>9, <2>1, <2>2, <2>3
<1>11. CASE l.field = "" /\ reader' = Fresh
            /\ IF reader.data = <<>> THEN UNCHANGED <<terminal, seen, gathered, outcome>>
               ELSE Handle(reader.data, FALSE)
  <2>1. CASE reader.data = <<>>
    <3>1. reader' = Read("", <<>>, 0) /\ UNCHANGED <<terminal, seen, gathered, outcome>>
      BY <1>11, <2>1, FreshRead
    <3>2. <<>> \in Seq(LineType) /\ 0 \in Nat /\ Len(<<>>) <= 0 /\ 0 <= MaxEventBytes
          /\ \A j \in DOMAIN <<>> : <<>>[j].half \in {1, 3}
      BY NoBytes
    <3>3. QED
      BY <1>9, <3>1, <3>2
  <2>2. CASE reader.data # <<>>
    <3>1. outcome' = Failure /\ UNCHANGED <<terminal, seen, gathered>>
      BY <1>2, <1>3, <1>11, <2>2, PartBreaks
    <3>2. seen' \subseteq Indexes
      BY <1>3, <3>1
    <3>3. QED
      BY <1>1, <1>2, <1>6, <1>11, <3>1, <3>2, Fails
  <2>3. QED
    BY <2>1, <2>2
<1>12. \/ TooLarge(bytes) /\ outcome' = Failure /\ UNCHANGED <<reader, terminal, seen, gathered>>
       \/ ~TooLarge(bytes) /\ l.field # ""
       \/ /\ l.field = "" /\ reader' = Fresh
          /\ IF reader.data = <<>> THEN UNCHANGED <<terminal, seen, gathered, outcome>>
             ELSE Handle(reader.data, FALSE)
  BY DEF ReadLine, l, bytes
<1>13. QED
  BY <1>8, <1>10, <1>11, <1>12

LEMMA ReadLineStep ==
  ASSUME IInv, ReadLine
  PROVE  IInv'
<1>1. Idle \/ BrokenOff \/ \E e \in Events : Pending(e)
  BY DEF IInv, PassInv, ReadLine
<1>2. ASSUME NEW e \in Events, Pending(e) PROVE IInv'
  <2>1. Unread(e) \/ (ReadWhole(e) /\ Left0)
    BY <1>2 DEF Pending, Carried
  <2>2. QED
    BY <1>2, <2>1, TakeUnread, TakeBlank
<1>3. QED
  BY <1>1, <1>2, TakeIdle, TakeBroken

LEMMA ReadEOFStep ==
  ASSUME IInv, ReadEOF
  PROVE  IInv'
<1>1. /\ wire = <<>> /\ wire' = <<>> /\ Running /\ conn = "eof" /\ conn # "requested" /\ checked' = FALSE
      /\ UNCHANGED <<endpoint, conn, said, fault, canceled>>
  BY DEF ReadEOF
<1>2. (fault \/ said.terminal) /\ seen \subseteq Indexes /\ terminal \in BOOLEAN /\ gathered \in GatheredType
  BY <1>1 DEF IInv, ConnInv, TypeOK, ReadOK
<1>3. \A j \in DOMAIN wire' : wire'[j].field \in {"", ":", "event", "data"}
  BY <1>1, NoBytes
<1>4. \A l, m : <<l>> # <<>> /\ <<l, m>> # <<>> /\ <<l, m, Blank>> # <<>>
  OBVIOUS
<1>5. ASSUME reader.data = <<>>, Settled(said, gathered, seen, terminal) PROVE IInv'
  <2>1. outcome' = Return(gathered, terminal) /\ UNCHANGED <<reader, terminal, seen, gathered>>
    BY <1>5 DEF ReadEOF
  <2>2. outcome' = Return(gathered', terminal') /\ Settled(said, gathered', seen', terminal')
        /\ gathered' \in GatheredType /\ seen' \subseteq Indexes /\ terminal' \in BOOLEAN
    BY <1>2, <1>5, <2>1
  <2>3. QED
    BY <1>1, <1>2, <2>1, <2>2, Delivered
<1>6. CASE Idle
  <2>1. reader.data = <<>>
    <3>1. ~Left1(Comment)
      BY <1>1, <1>4 DEF Left1
    <3>2. reader = Fresh \/ reader = Read("", <<>>, 1)
      BY <1>6, <3>1 DEF Idle, Nothing
    <3>3. QED
      BY <3>2, FreshFields, ReadFields
  <2>2. QED
    BY <1>5, <1>6, <2>1 DEF Idle
<1>7. CASE BrokenOff
  <2>1. fault /\ (\A j \in DOMAIN reader.data : reader.data[j].half \in {1, 3})
        /\ reader.data \in Seq(LineType)
    BY <1>7 DEF BrokenOff, IInv, ReadOK
  <2>2. CASE reader.data = <<>>
    <3>1. CASE terminal
      BY <1>5, <1>7, <2>2, <3>1 DEF BrokenOff
    <3>2. CASE ~terminal
      <4>1. outcome' = Failure /\ UNCHANGED <<reader, terminal, seen, gathered>>
        BY <2>2, <3>2 DEF ReadEOF, Return
      <4>2. seen' \subseteq Indexes
        BY <1>2, <4>1
      <4>3. QED
        BY <1>1, <1>3, <2>1, <4>1, <4>2, Fails
    <3>3. QED
      BY <3>1, <3>2
  <2>3. CASE reader.data # <<>>
    <3>1. Handle(reader.data, TRUE) /\ reader' = Fresh
      BY <2>3 DEF ReadEOF
    <3>2. outcome' = Failure /\ UNCHANGED <<terminal, seen, gathered>>
      BY <2>1, <3>1, PartBreaks
    <3>3. seen' \subseteq Indexes
      BY <1>2, <3>2
    <3>4. QED
      BY <1>1, <1>3, <2>1, <3>1, <3>2, <3>3, Fails
  <2>4. QED
    BY <2>2, <2>3
<1>8. ASSUME NEW e \in Events, Pending(e) PROVE IInv'
  <2>1. ~Unread(e)
    BY <1>1, <1>4 DEF Unread, Left1, Left2
  <2>2. ReadWhole(e)
    BY <1>8, <2>1 DEF Pending, Carried
  <2>3. Handle(reader.data, TRUE) /\ reader' = Fresh
    BY <2>2, WholeDecodes DEF ReadEOF
  <2>4. TRUE \in BOOLEAN /\ (TRUE => conn = "eof")
    BY <1>1
  <2>5. QED
    BY <1>1, <1>8, <2>2, <2>3, <2>4, Deliver
<1>9. Idle \/ BrokenOff \/ \E e \in Events : Pending(e)
  BY <1>1 DEF IInv, PassInv
<1>10. QED
  BY <1>6, <1>7, <1>8, <1>9

(***************************************************************************)
(* The theorems                                                            *)
(***************************************************************************)

LEMMA InitInv ==
  ASSUME Init
  PROVE  IInv
<1>1. /\ endpoint \in {"chat", "responses"} /\ conn = "requested" /\ wire = <<>> /\ outcome = "running"
      /\ said = [deltas |-> <<>>, call |-> [i \in Indexes |-> "unsaid"],
                 args |-> [i \in Indexes |-> 0], finished |-> FALSE, terminal |-> FALSE, ended |-> FALSE]
      /\ fault = FALSE /\ canceled = FALSE /\ checked = FALSE /\ terminal = FALSE /\ seen = {}
      /\ reader = Fresh
      /\ gathered = [text |-> <<>>, passed |-> <<>>,
                     calls |-> [i \in Indexes |-> [known |-> FALSE, id |-> FALSE, args |-> <<>>, done |-> FALSE]]]
  BY DEF Init, Fresh
<1>2. 0 \in 0..MaxFragments /\ 0 <= MaxDeltas
  BY StreamAssumption
<1>3. said \in SaidType /\ said.deltas = <<>> /\ ~said.terminal
      /\ \A i \in Indexes : said.call[i] = "unsaid" /\ said.args[i] = 0
  BY <1>1, <1>2 DEF SaidType
<1>4. gathered \in GatheredType /\ gathered.text = <<>> /\ gathered.passed = <<>>
      /\ \A i \in Indexes : /\ gathered.calls[i].known = FALSE /\ gathered.calls[i].id = FALSE
                            /\ gathered.calls[i].args = <<>> /\ gathered.calls[i].done = FALSE
  <2>1. [known |-> FALSE, id |-> FALSE, args |-> <<>>, done |-> FALSE] \in CallType
    <3>1. <<>> \in Seq(1..MaxFragments)
      OBVIOUS
    <3>2. QED
      BY <3>1 DEF CallType
  <2>2. <<>> \in Seq(Nat)
    OBVIOUS
  <2>3. QED
    BY <1>1, <2>1, <2>2 DEF GatheredType
<1>5. [n \in 1..0 |-> n] = <<>>
  BY CountUp
<1>6. Shown(gathered, said) /\ Len(gathered.passed) = Len(said.deltas)
  <2>1. Len(<<>>) = 0 /\ 0 <= 0 /\ DOMAIN <<>> = {}
    BY NoBytes
  <2>2. gathered.passed = [n \in 1..Len(gathered.passed) |-> n]
    BY <1>4, <1>5, <2>1
  <2>3. Len(gathered.passed) = Len(said.deltas) /\ Len(gathered.passed) <= Len(said.deltas)
    BY <1>3, <1>4, <2>1
  <2>4. DOMAIN gathered.text = {} /\ DOMAIN gathered.passed = {}
    BY <1>4, <2>1
  <2>5. QED
    BY <2>2, <2>3, <2>4 DEF Shown
<1>7. CallsAgree(gathered, said)
  <2>1. ASSUME NEW i \in Indexes PROVE CallAgrees(gathered.calls[i], said.call[i], said.args[i])
    BY <1>3, <1>4, <1>5 DEF CallAgrees
  <2>2. QED
    BY <2>1 DEF CallsAgree
<1>8. Settled(said, gathered, seen, terminal)
  BY <1>1, <1>3, <1>6, <1>7 DEF Settled
<1>9. TypeOK
  <2>1. \A j \in DOMAIN wire : wire[j].field \in {"", ":", "event", "data"}
    BY <1>1, NoBytes
  <2>2. reader.bytes \in 0..MaxEventBytes /\ Len(reader.data) <= MaxEventBytes
    BY <1>1, FreshTypes
  <2>3. \A i \in Indexes : gathered.calls[i].args \in Seq(1..MaxFragments)
    BY <1>4, GatheredTypes
  <2>4. QED
    BY <1>1, <2>1, <2>2, <2>3 DEF TypeOK
<1>10. ReadOK
  <2>1. Len(said.deltas) <= MaxDeltas
    BY <1>2, <1>3, NoBytes
  <2>2. QED
    BY <1>1, <1>3, <1>4, <2>1, FreshTypes DEF ReadOK
<1>11. ShownIsSaid
  BY <1>6 DEF Shown, ShownIsSaid
<1>12. ConnInv
  <2>1. Conforming(said)
    BY <1>3 DEF Conforming
  <2>2. QED
    BY <1>1, <2>1 DEF ConnInv
<1>13. PassInv /\ EndInv
  BY <1>1, <1>8 DEF PassInv, EndInv, Idle, Nothing
<1>14. QED
  BY <1>9, <1>10, <1>11, <1>12, <1>13 DEF IInv

LEMMA NextInv ==
  ASSUME IInv, [Next]_vars
  PROVE  IInv'
<1>1. CASE Provider
  <2>1. CASE SayDelta \/ SayOther \/ Complete \/ SayDone
    BY <2>1, DeltaStep, OtherStep, CompleteStep, DoneStep
  <2>2. CASE SayError \/ SayBroken \/ SayNothing
    BY <2>2, BadStep, NothingStep
  <2>3. ASSUME NEW i \in Indexes, OpenCall(i) \/ SayArguments(i) \/ CloseCall(i) PROVE IInv'
    BY <2>3, OpenStep, ArgumentsStep, CloseStep
  <2>4. QED
    BY <1>1, <2>1, <2>2, <2>3 DEF Provider
<1>2. CASE Cut
  BY <1>2, CutStep
<1>3. CASE Cancel
  BY <1>3, CancelStep
<1>4. CASE Connect \/ ConnectCanceled
  BY <1>4, ConnectStep
<1>5. CASE CheckContext
  BY <1>5, CheckStep
<1>6. CASE ReadLine
  BY <1>6, ReadLineStep
<1>7. CASE ReadEOF
  BY <1>7, ReadEOFStep
<1>8. CASE ReadError
  BY <1>8, ReadErrorStep
<1>9. CASE UNCHANGED vars
  <2>1. UNCHANGED <<endpoint, conn, wire, said, fault, canceled, checked, reader, terminal, seen,
                    gathered, outcome>>
    BY <1>9 DEF vars, readerVars
  <2>2. canceled' \in BOOLEAN /\ checked' \in BOOLEAN /\ (conn = "requested" => ~checked')
    BY <2>1 DEF IInv, TypeOK, ConnInv
  <2>3. QED
    BY <2>1, <2>2, Quiet
<1>10. QED
  BY <1>1, <1>2, <1>3, <1>4, <1>5, <1>6, <1>7, <1>8, <1>9 DEF Next, Reader

(* The invariant holds at every step of every pass. *)
THEOREM PassInvariant == Spec => []IInv
<1>1. Init => IInv
  BY InitInv
<1>2. IInv /\ [Next]_vars => IInv'
  BY NextInv
<1>3. QED
  BY <1>1, <1>2, PTL DEF Spec

(* The state of the reader, the decoder and the accumulators stays in its  *)
(* types: what is read of an event stays within readSSE's limit.           *)
THEOREM TypeCorrect == Spec => []TypeOK
<1>1. IInv => TypeOK
  BY DEF IInv
<1>2. QED
  BY <1>1, PassInvariant, PTL

(* A pass of streamChat or streamResponses that succeeds has seen the end   *)
(* of the response and all of its deltas, however the connection was cut.   *)
THEOREM NoResponseTruncated == Spec => []NoTruncatedSuccess
<1>1. IInv => NoTruncatedSuccess
  BY DEF IInv, EndInv, NoTruncatedSuccess, Settled
<1>2. QED
  BY <1>1, PassInvariant, PTL

(* The calls that runProviderPass hands over are the ones that were made,  *)
(* each with all of its own fragments in order.                            *)
THEOREM CallsAreWhole == Spec => []WholeCalls
<1>1. IInv => WholeCalls
  <2> SUFFICES ASSUME IInv, outcome = "ok", NEW i \in Indexes
               PROVE  IF said.call[i] = "unsaid" THEN ~gathered.calls[i].known
                      ELSE /\ said.call[i] = "closed" /\ gathered.calls[i].id
                           /\ gathered.calls[i].args = [n \in 1..said.args[i] |-> n]
    BY DEF WholeCalls
  <2>1. CallAgrees(gathered.calls[i], said.call[i], said.args[i]) /\ PassOutcome(gathered) = "ok"
    BY DEF IInv, EndInv, Settled, CallsAgree
  <2>2. gathered.calls[i].known => Whole(gathered.calls[i])
    BY <2>1 DEF PassOutcome
  <2>3. QED
    BY <2>1, <2>2 DEF CallAgrees, Whole
<1>2. QED
  BY <1>1, PassInvariant, PTL

(* What the session is shown while the response streams is a prefix of what *)
(* the provider said, in order and without a gap.                           *)
THEOREM ShownIsPrefix == Spec => []ShownIsSaid
<1>1. IInv => ShownIsSaid
  BY DEF IInv
<1>2. QED
  BY <1>1, PassInvariant, PTL

(* A complete response of a conforming provider is never failed, whatever   *)
(* its framing and however its connection closes after the last event.      *)
THEOREM ConformingUnderstood == Spec => []ConformingIsUnderstood
<1>1. IInv => ConformingIsUnderstood
  BY DEF IInv, EndInv, ConformingIsUnderstood
<1>2. QED
  BY <1>1, PassInvariant, PTL
=============================================================================
