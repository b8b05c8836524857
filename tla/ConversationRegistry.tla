------------------------ MODULE ConversationRegistry ------------------------
(***************************************************************************)
(* ConversationRegistry of internal/agent/conversation.go under concurrent *)
(* turns (Runner.Execute) and snapshots. A step is one critical section of *)
(* registry.mu, or one operation on the mutex of a conversation. Every     *)
(* turn runs once, so that its name tells which turn a history holds, and  *)
(* a conversationState is named by the turn that created it.               *)
(***************************************************************************)
EXTENDS Naturals, Sequences, FiniteSets

CONSTANTS
  IDs,               \* conversation IDs
  Turns,             \* runs to be executed
  Snapshots,         \* callers of Snapshot
  MaxConversations,  \* 256 in the code
  MaxTurns,          \* 50 in the code
  None

ASSUME RegistryAssumption ==
  /\ Turns \cap Snapshots = {} /\ IsFiniteSet(Turns \cup Snapshots) /\ IsFiniteSet(IDs)
  /\ None \notin IDs \cup Turns \cup Snapshots
  /\ MaxConversations \in Nat \ {0} /\ MaxTurns \in Nat \ {0}

VARIABLES
  conversations,  \* registry.conversations: ID -> state, or None
  sequence,       \* registry.sequence
  turns, active, lastUsed, holder,  \* of each conversationState
  pc, id, state,  \* of each caller, with the ID it asked for and what it got
  base            \* the history a caller read

registryVars == <<conversations, sequence, active, lastUsed>>
vars == <<registryVars, turns, holder, pc, id, state, base>>

Callers == Turns \cup Snapshots

(* A caller counts as active from its first critical section to its last.   *)
Using(s) == {c \in Callers : pc[c] \in {"waiting", "holding", "appended", "releasing"} /\ state[c] = s}

TypeOK ==
  /\ conversations \in [IDs -> Turns \cup {None}]
  /\ sequence \in Nat
  /\ turns \in [Turns -> Seq(Turns)]
  /\ active \in [Turns -> Nat] /\ lastUsed \in [Turns -> Nat]
  /\ holder \in [Turns -> Callers \cup {None}]
  /\ pc \in [Callers -> {"idle", "waiting", "holding", "appended", "releasing", "gone"}]
  /\ id \in [Callers -> IDs \cup {None}]
  /\ state \in [Callers -> Turns \cup {None}]
  /\ base \in [Callers -> Seq(Turns)]

Init ==
  /\ conversations = [i \in IDs |-> None] /\ sequence = 0
  /\ turns = [s \in Turns |-> <<>>]
  /\ active = [s \in Turns |-> 0] /\ lastUsed = [s \in Turns |-> 0]
  /\ holder = [s \in Turns |-> None]
  /\ pc = [c \in Callers |-> "idle"]
  /\ id = [c \in Callers |-> None] /\ state = [c \in Callers |-> None]
  /\ base = [c \in Callers |-> <<>>]

Registered(table) == {i \in IDs : table[i] # None}
Inactive(table) == {i \in Registered(table) : active'[table[i]] = 0}

(* touchLocked *)
Touch(s) == sequence' = sequence + 1 /\ lastUsed' = [lastUsed EXCEPT ![s] = sequence']

(* evictInactiveLocked: while there are too many, drop the inactive one     *)
(* used longest ago; stop when none is inactive.                            *)
EvictInactive(table) ==
  \E out \in SUBSET Inactive(table) :
    /\ \A i \in out, j \in Inactive(table) \ out : lastUsed'[table[i]] < lastUsed'[table[j]]
    /\ out # {} => Cardinality(Registered(table) \ out) >= MaxConversations
    /\ out = Inactive(table) \/ Cardinality(Registered(table) \ out) <= MaxConversations
    /\ conversations' = [i \in IDs |-> IF i \in out THEN None ELSE table[i]]

(* The critical section of acquireConversationState, with the state found   *)
(* or created.                                                              *)
Enter(c, i, s) ==
  /\ active' = [active EXCEPT ![s] = @ + 1]
  /\ Touch(s)
  /\ EvictInactive([conversations EXCEPT ![i] = s])
  /\ pc' = [pc EXCEPT ![c] = "waiting"]
  /\ id' = [id EXCEPT ![c] = i]
  /\ state' = [state EXCEPT ![c] = s]
  /\ UNCHANGED <<turns, holder, base>>

(* acquireConversation *)
Acquire(t, i) ==
  /\ pc[t] = "idle"
  /\ Enter(t, i, IF conversations[i] = None THEN t ELSE conversations[i])

(* Snapshot creates nothing. *)
AcquireExisting(c, i) ==
  /\ pc[c] = "idle"
  /\ \/ conversations[i] # None /\ Enter(c, i, conversations[i])
     \/ /\ conversations[i] = None
        /\ pc' = [pc EXCEPT ![c] = "gone"]
        /\ UNCHANGED <<registryVars, turns, holder, id, state, base>>

(* Mutant: the conversation's mutex is not taken. *)
Lock_Shared(c) ==
  /\ pc[c] = "waiting"
  /\ base' = [base EXCEPT ![c] = turns[state[c]]]
  /\ pc' = [pc EXCEPT ![c] = "holding"]
  /\ UNCHANGED <<registryVars, turns, holder, id, state>>

(* conversation.mu is granted and the history read (messagesLocked).        *)
Lock(c) ==
  /\ pc[c] = "waiting" /\ holder[state[c]] = None
  /\ holder' = [holder EXCEPT ![state[c]] = c]
  /\ base' = [base EXCEPT ![c] = turns[state[c]]]
  /\ pc' = [pc EXCEPT ![c] = "holding"]
  /\ UNCHANGED <<registryVars, turns, id, state>>

(* The last n elements of a sequence, or all of it. *)
LastOf(s, n) == IF Len(s) > n THEN SubSeq(s, Len(s) - n + 1, Len(s)) ELSE s

(* Mutant: a history that reaches its bound is cut by one turn too many. *)
AppendTurn_CutsEarly(t) ==
  /\ pc[t] = "holding"
  /\ turns' = [turns EXCEPT ![state[t]] =
                 LET all == Append(@, t) IN
                 IF Len(all) >= MaxTurns THEN LastOf(all, MaxTurns - 1) ELSE all]
  /\ pc' = [pc EXCEPT ![t] = "appended"]
  /\ UNCHANGED <<registryVars, holder, id, state, base>>

(* appendTurnLocked, at the end of a turn that succeeds.                    *)
AppendTurn(t) ==
  /\ pc[t] = "holding"
  /\ turns' = [turns EXCEPT ![state[t]] = LastOf(Append(@, t), MaxTurns)]
  /\ pc' = [pc EXCEPT ![t] = "appended"]
  /\ UNCHANGED <<registryVars, holder, id, state, base>>

(* Mutant: a turn that failed keeps the conversation locked.                *)
Unlock_Committed(c) ==
  /\ pc[c] \in {"holding", "appended"}
  /\ holder' = IF pc[c] = "appended" THEN [holder EXCEPT ![state[c]] = None] ELSE holder
  /\ pc' = [pc EXCEPT ![c] = "releasing"]
  /\ UNCHANGED <<registryVars, turns, id, state, base>>

(* The release function returned by acquire: the conversation is unlocked   *)
(* first (also by a turn that failed), then it is no longer active.         *)
Unlock(c) ==
  /\ pc[c] \in {"holding", "appended"}
  /\ holder' = [holder EXCEPT ![state[c]] = None]
  /\ pc' = [pc EXCEPT ![c] = "releasing"]
  /\ UNCHANGED <<registryVars, turns, id, state, base>>

(* The caller returns, and what it had read is gone. *)
Leave(c) ==
  /\ pc' = [pc EXCEPT ![c] = "gone"]
  /\ id' = [id EXCEPT ![c] = None] /\ state' = [state EXCEPT ![c] = None]
  /\ base' = [base EXCEPT ![c] = <<>>]

(* Mutants: the registry is left as it is; the state is inactive at once.   *)
Release_NoEvict(c) ==
  /\ pc[c] = "releasing"
  /\ active' = [active EXCEPT ![state[c]] = @ - 1]
  /\ Touch(state[c])
  /\ Leave(c)
  /\ UNCHANGED <<conversations, turns, holder>>
Release_Clears(c) ==
  /\ pc[c] = "releasing"
  /\ active' = [active EXCEPT ![state[c]] = 0]
  /\ Touch(state[c])
  /\ EvictInactive(conversations)
  /\ Leave(c)
  /\ UNCHANGED <<turns, holder>>

Release(c) ==
  /\ pc[c] = "releasing"
  /\ active' = [active EXCEPT ![state[c]] = @ - 1]
  /\ Touch(state[c])
  /\ EvictInactive(conversations)
  /\ Leave(c)
  /\ UNCHANGED <<turns, holder>>

Next ==
  \/ \E t \in Turns : AppendTurn(t) \/ \E i \in IDs : Acquire(t, i)
  \/ \E c \in Snapshots, i \in IDs : AcquireExisting(c, i)
  \/ \E c \in Callers : Lock(c) \/ Unlock(c) \/ Release(c)

Spec == Init /\ [][Next]_vars

(* The Go scheduler runs every caller, a mutex that is free is handed over, *)
(* and turns end (a provider stream or a tool result that never comes is    *)
(* ended by the cancellation of the run).                                   *)
FairSpec == Spec /\ \A c \in Callers : WF_vars(Lock(c) \/ Unlock(c) \/ Release(c))

-----------------------------------------------------------------------------
(* docs/protocol.md:50-52: the registry "never evicts an active or queued   *)
(* conversation": whoever uses a state uses the one registered, so no two   *)
(* turns of a conversation can ever work on different histories             *)
(* (conversation.go:54-79).                                                 *)
InUseIsRegistered ==
  \A c \in Callers :
    pc[c] \in {"waiting", "holding", "appended", "releasing"} => conversations[id[c]] = state[c]

(* docs/protocol.md:50-52: more than MaxConversations entries only while    *)
(* all of them are active (conversation.go:86-104).                         *)
OverflowIsActive ==
  \/ Cardinality(Registered(conversations)) <= MaxConversations
  \/ \A i \in Registered(conversations) : active[conversations[i]] > 0

(* A turn is added to the history its provider was shown, which nobody      *)
(* changes while the provider answers (runner.go:95-121).                   *)
TurnSeesHistory ==
  \A c \in Callers : pc[c] = "holding" => turns[state[c]] = base[c]

(* A history is the newest n turns of a longer one, or all of it.           *)
IsEndOf(history, all, n) ==
  LET lost == Len(all) - Len(history) IN
  /\ lost \in Nat /\ Len(history) <= n
  /\ lost > 0 => Len(history) = n
  /\ \A i \in 1..Len(history) : history[i] = all[lost + i]

(* What a committed turn leaves to the next one is the history its provider *)
(* was shown and the turn itself, in that order, of which nothing is lost   *)
(* but the oldest turns, and only as many as the bound asks for             *)
(* (runner.go:94-121, conversation.go:132-142).                             *)
CommittedTurnsStay ==
  [][\A t \in Turns : pc[t] = "appended" /\ pc'[t] = "releasing" =>
       IsEndOf(turns[state[t]], Append(base[t], t), MaxTurns)]_vars

(* The mutex of a conversation is held by nobody but a caller that is going *)
(* to unlock it, whether its turn failed or not (conversation.go:73-79).    *)
MutexIsNotLeaked ==
  \A s \in Turns : holder[s] # None =>
    pc[holder[s]] \in {"holding", "appended"} /\ state[holder[s]] = s

(* Nobody waits for ever for a conversation (conversation.go:70). *)
EveryCallerIsServed == \A c \in Callers : pc[c] = "waiting" ~> pc[c] = "gone"
=============================================================================
