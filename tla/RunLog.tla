------------------------------- MODULE RunLog -------------------------------
(***************************************************************************)
(* What an agent session promises to whoever streams it: one log of        *)
(* Connect events that only grows, is closed once with one outcome, and    *)
(* that every reader sees as a prefix; the end-of-stream envelope is only  *)
(* written to a reader that was given the whole closed log.                *)
(***************************************************************************)
EXTENDS Naturals, Sequences

CONSTANTS Readers,   \* the response streams that replay the log
          Open       \* the outcome of a log that is not closed yet

VARIABLES log,       \* the events published so far
          outcome,   \* Open, or how the log was closed
          position,  \* how many events each reader has been given
          ended      \* the readers that got the end-of-stream envelope

vars == <<log, outcome, position, ended>>

Init ==
  /\ log = <<>>
  /\ outcome = Open
  /\ position = [r \in Readers |-> 0]
  /\ ended = {}

Extends(longer, shorter) ==
  /\ Len(shorter) <= Len(longer)
  /\ \A i \in 1..Len(shorter) : longer[i] = shorter[i]

(* Publishing appends, and may close the log in the same step. *)
Publish ==
  /\ outcome = Open
  /\ Extends(log', log)
  /\ UNCHANGED <<position, ended>>

(* A reader that has not ended is given more of the log. *)
Read(r) ==
  /\ r \notin ended
  /\ position'[r] \in position[r]..Len(log)
  /\ position' = [position EXCEPT ![r] = position'[r]]
  /\ ended' \in {ended, ended \cup {r}}
  /\ r \in ended' => outcome # Open /\ position'[r] = Len(log)
  /\ UNCHANGED <<log, outcome>>

Next == Publish \/ \E r \in Readers : Read(r)

Spec == Init /\ [][Next]_vars
=============================================================================
