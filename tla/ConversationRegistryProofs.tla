--------------------- MODULE ConversationRegistryProofs ---------------------
(***************************************************************************)
(* Proofs about ConversationRegistry, for any number of conversations,     *)
(* turns and snapshots, and any bounds on the registry and the histories.  *)
(***************************************************************************)
EXTENDS ConversationRegistry, SequenceTheorems, FiniteSetTheorems, TLAPS

(* The active count of a state is the number of callers using it.          *)
ActiveCounts == \A s \in Turns : active[s] = Cardinality(Using(s))

(* Whoever is between Lock and Unlock holds the conversation's mutex.      *)
HolderHolds == \A c \in Callers : pc[c] \in {"holding", "appended"} => holder[state[c]] = c

(* A caller in the registry knows its ID and state.                        *)
KnowsState ==
  \A c \in Callers : pc[c] \in {"waiting", "holding", "appended", "releasing"} =>
    id[c] \in IDs /\ state[c] \in Turns

IInv ==
  /\ TypeOK /\ KnowsState /\ ActiveCounts /\ InUseIsRegistered /\ OverflowIsActive
  /\ HolderHolds /\ TurnSeesHistory

LEMMA UsingFinite == ASSUME NEW s PROVE IsFiniteSet(Using(s)) /\ Cardinality(Using(s)) \in Nat
<1>1. IsFiniteSet(Callers)
  BY RegistryAssumption DEF RegistryAssumption, Callers
<1>2. IsFiniteSet(Using(s))
  BY <1>1, FS_Subset DEF Using
<1> QED BY <1>2, FS_CardinalityType

LEMMA LastOfType ==
  ASSUME NEW s \in Seq(Turns), NEW n \in Nat \ {0}
  PROVE  LastOf(s, n) \in Seq(Turns)
<1>1. Len(s) \in Nat
  BY LenProperties
<1>2. CASE Len(s) > n
  <2>1. Len(s) - n + 1 \in 1..Len(s) + 1 /\ Len(s) \in Len(s) - n + 1 - 1..Len(s)
    BY <1>1, <1>2
  <2>2. \A i \in Len(s) - n + 1..Len(s) : i \in 1..Len(s) /\ s[i] \in Turns
    BY <1>1, <1>2, ElementOfSeq
  <2>3. SubSeq(s, Len(s) - n + 1, Len(s)) \in Seq(Turns)
    BY <1>1, <2>1, <2>2, SubSeqProperties
  <2> QED BY <1>2, <2>3 DEF LastOf
<1>3. CASE ~(Len(s) > n)
  BY <1>3 DEF LastOf
<1> QED BY <1>2, <1>3

-----------------------------------------------------------------------------
(* Eviction drops conversations nobody uses, and none is left to drop while *)
(* there are too many.                                                      *)
LEMMA EvictionIsSafe ==
  ASSUME NEW table \in [IDs -> Turns \cup {None}], active' \in [Turns -> Nat], EvictInactive(table)
  PROVE  /\ conversations' \in [IDs -> Turns \cup {None}]
         /\ OverflowIsActive'
         /\ \A i \in IDs : table[i] \in Turns /\ active'[table[i]] # 0 => conversations'[i] = table[i]
<1>1. PICK out \in SUBSET Inactive(table) :
        /\ out = Inactive(table) \/ Cardinality(Registered(table) \ out) <= MaxConversations
        /\ conversations' = [i \in IDs |-> IF i \in out THEN None ELSE table[i]]
  BY DEF EvictInactive
<1>2. conversations' \in [IDs -> Turns \cup {None}]
  BY <1>1
<1>3. \A i \in IDs : i \notin out => conversations'[i] = table[i]
  BY <1>1
<1>4. Registered(conversations') = Registered(table) \ out
  BY <1>1 DEF Registered
<1>5. CASE Cardinality(Registered(table) \ out) <= MaxConversations
  BY <1>2, <1>3, <1>4, <1>5, <1>1 DEF OverflowIsActive, Inactive
<1>6. CASE out = Inactive(table)
  <2>1. \A i \in Registered(conversations') :
           i \in IDs /\ conversations'[i] = table[i] /\ table[i] \in Turns /\ active'[table[i]] # 0
    BY <1>3, <1>4, <1>6, RegistryAssumption DEF Inactive, Registered, RegistryAssumption
  <2>2. \A i \in Registered(conversations') : active'[conversations'[i]] > 0
    BY <2>1
  <2>3. OverflowIsActive'
    BY <2>2 DEF OverflowIsActive
  <2>4. \A i \in IDs : i \in out => active'[table[i]] = 0
    BY <1>6 DEF Inactive
  <2> QED BY <1>2, <1>3, <2>3, <2>4
<1> QED BY <1>1, <1>5, <1>6

(* The counts after a caller enters or leaves. *)
LEMMA EnterCounts ==
  ASSUME TypeOK, ActiveCounts, NEW c \in Callers, NEW s \in Turns, pc[c] = "idle",
         active' = [active EXCEPT ![s] = @ + 1], pc' = [pc EXCEPT ![c] = "waiting"],
         state' = [state EXCEPT ![c] = s]
  PROVE  ActiveCounts'
<1> SUFFICES ASSUME NEW t \in Turns PROVE active'[t] = Cardinality(Using(t)')
  BY DEF ActiveCounts
<1>1. CASE t = s
  <2>1. Using(t)' = Using(t) \cup {c} /\ c \notin Using(t)
    BY <1>1 DEF Using, TypeOK
  <2>2. IsFiniteSet(Using(t)) /\ Cardinality(Using(t)) \in Nat
    BY UsingFinite
  <2>3. Cardinality(Using(t) \cup {c}) = Cardinality(Using(t)) + 1
    BY <2>1, <2>2, FS_AddElement
  <2>4. active'[t] = active[t] + 1 /\ active[t] = Cardinality(Using(t))
    BY <1>1 DEF ActiveCounts, TypeOK
  <2> QED BY <2>1, <2>3, <2>4
<1>2. CASE t # s
  <2>1. Using(t)' = Using(t)
    BY <1>2 DEF Using, TypeOK
  <2> QED BY <1>2, <2>1 DEF ActiveCounts, TypeOK
<1> QED BY <1>1, <1>2

LEMMA LeaveCounts ==
  ASSUME TypeOK, KnowsState, ActiveCounts, NEW c \in Callers, pc[c] = "releasing",
         active' = [active EXCEPT ![state[c]] = @ - 1], Leave(c)
  PROVE  active' \in [Turns -> Nat] /\ ActiveCounts'
<1>1. \A t \in Turns : active'[t] = Cardinality(Using(t)')
  <2> SUFFICES ASSUME NEW t \in Turns PROVE active'[t] = Cardinality(Using(t)')
    OBVIOUS
  <2>0. \A d \in Callers : d # c => pc'[d] = pc[d] /\ state'[d] = state[d]
    BY DEF Leave, TypeOK
  <2>1. pc'[c] = "gone"
    BY DEF Leave, TypeOK
  <2>2. Using(t)' = Using(t) \ {c}
    BY <2>0, <2>1 DEF Using
  <2>3. CASE t = state[c]
    <3>1. c \in Using(t)
      BY <2>3 DEF Using
    <3>2. IsFiniteSet(Using(t)) /\ Cardinality(Using(t)) \in Nat
      BY UsingFinite
    <3>3. Cardinality(Using(t) \ {c}) = Cardinality(Using(t)) - 1
      BY <3>1, <3>2, FS_RemoveElement
    <3>4. active'[t] = active[t] - 1 /\ active[t] = Cardinality(Using(t))
      BY <2>3 DEF ActiveCounts, TypeOK
    <3> QED BY <2>2, <3>3, <3>4
  <2>4. CASE t # state[c]
    <3>1. c \notin Using(t)
      BY <2>4 DEF Using
    <3>2. Using(t)' = Using(t)
      BY <2>2, <3>1
    <3> QED BY <2>4, <3>2 DEF ActiveCounts, TypeOK
  <2> QED BY <2>3, <2>4
<1>2. \A t \in Turns : Cardinality(Using(t)') \in Nat
  <2> SUFFICES ASSUME NEW t \in Turns PROVE Cardinality(Using(t)') \in Nat
    OBVIOUS
  <2>1. IsFiniteSet(Callers)
    BY RegistryAssumption DEF RegistryAssumption, Callers
  <2>2. IsFiniteSet(Using(t)')
    BY <2>1, FS_Subset DEF Using
  <2> QED BY <2>2, FS_CardinalityType
<1>3. active' \in [Turns -> Nat]
  <2>1. state[c] \in Turns
    BY DEF KnowsState
  <2>2. active'[state[c]] \in Nat
    BY <1>1, <1>2, <2>1
  <2>3. active' = [active EXCEPT ![state[c]] = active'[state[c]]]
    BY <2>1 DEF TypeOK
  <2> QED BY <2>1, <2>2, <2>3 DEF TypeOK
<1> QED BY <1>1, <1>3 DEF ActiveCounts

(* Eviction does not touch what is in use.                                  *)
LEMMA InUseAfterEviction ==
  ASSUME NEW table \in [IDs -> Turns \cup {None}], EvictInactive(table),
         active' \in [Turns -> Nat], ActiveCounts', KnowsState',
         \A d \in Callers : pc'[d] \in {"waiting", "holding", "appended", "releasing"} =>
           table[id'[d]] = state'[d]
  PROVE  InUseIsRegistered'
<1> SUFFICES ASSUME NEW d \in Callers, pc'[d] \in {"waiting", "holding", "appended", "releasing"}
             PROVE  conversations'[id'[d]] = state'[d]
  BY DEF InUseIsRegistered
<1>1. id'[d] \in IDs /\ state'[d] \in Turns /\ table[id'[d]] = state'[d]
  BY DEF KnowsState
<1>2. PICK t \in Turns : t = state'[d]
  BY <1>1
<1>3. d \in Using(t)'
  BY <1>2 DEF Using
<1>4. IsFiniteSet(Callers)
  BY RegistryAssumption DEF RegistryAssumption, Callers
<1>5. IsFiniteSet(Using(t)')
  BY <1>4, FS_Subset DEF Using
<1>6. Cardinality(Using(t)') # 0
  BY <1>3, <1>5, FS_EmptySet
<1>7. active'[t] = Cardinality(Using(t)')
  BY DEF ActiveCounts
<1> QED BY <1>1, <1>2, <1>6, <1>7, EvictionIsSafe

-----------------------------------------------------------------------------
LEMMA InitIInv == Init => IInv
<1> SUFFICES ASSUME Init PROVE IInv
  OBVIOUS
<1>1. TypeOK
  BY DEF Init, TypeOK
<1>2. KnowsState /\ InUseIsRegistered /\ HolderHolds /\ TurnSeesHistory
  BY DEF Init, KnowsState, InUseIsRegistered, HolderHolds, TurnSeesHistory
<1>3. ActiveCounts
  <2> SUFFICES ASSUME NEW s \in Turns PROVE active[s] = Cardinality(Using(s))
    BY DEF ActiveCounts
  <2>1. Using(s) = {}
    BY DEF Init, Using
  <2> QED BY <2>1, FS_EmptySet DEF Init
<1>4. OverflowIsActive
  <2>1. Registered(conversations) = {}
    BY DEF Init, Registered
  <2> QED BY <2>1 DEF OverflowIsActive
<1> QED BY <1>1, <1>2, <1>3, <1>4 DEF IInv

LEMMA EnterKeeps ==
  ASSUME IInv, NEW c \in Callers, NEW i \in IDs, NEW s \in Turns, pc[c] = "idle",
         conversations[i] \in {s, None}, Enter(c, i, s)
  PROVE  IInv'
<1> DEFINE table == [conversations EXCEPT ![i] = s]
<1>1. table \in [IDs -> Turns \cup {None}] /\ EvictInactive(table)
  BY DEF IInv, TypeOK, Enter
<1>2. active' \in [Turns -> Nat] /\ sequence' \in Nat /\ lastUsed' \in [Turns -> Nat]
  BY DEF IInv, TypeOK, Enter, Touch
<1>3. TypeOK'
  BY <1>1, <1>2, EvictionIsSafe DEF IInv, TypeOK, Enter
<1>4. KnowsState'
  BY DEF IInv, TypeOK, Enter, KnowsState
<1>5. ActiveCounts'
  BY EnterCounts DEF IInv, Enter
<1>6. InUseIsRegistered'
  <2>1. \A d \in Callers : pc'[d] \in {"waiting", "holding", "appended", "releasing"} =>
           table[id'[d]] = state'[d]
    <3> SUFFICES ASSUME NEW d \in Callers,
                        pc'[d] \in {"waiting", "holding", "appended", "releasing"}
                 PROVE  table[id'[d]] = state'[d]
      OBVIOUS
    <3>1. CASE d = c
      BY <3>1 DEF IInv, TypeOK, Enter
    <3>2. CASE d # c
      <4>1. pc'[d] = pc[d] /\ id'[d] = id[d] /\ state'[d] = state[d]
        BY <3>2 DEF IInv, TypeOK, Enter
      <4>2. id[d] \in IDs /\ state[d] \in Turns /\ conversations[id[d]] = state[d]
        BY <4>1 DEF IInv, KnowsState, InUseIsRegistered
      <4>3. id[d] = i => state[d] = s
        BY <4>2, RegistryAssumption DEF RegistryAssumption
      <4> QED BY <4>1, <4>2, <4>3 DEF IInv, TypeOK
    <3> QED BY <3>1, <3>2
  <2> QED BY <1>1, <1>2, <1>4, <1>5, <2>1, InUseAfterEviction
<1>7. OverflowIsActive'
  BY <1>1, <1>2, EvictionIsSafe
<1>8. HolderHolds' /\ TurnSeesHistory'
  BY DEF IInv, TypeOK, Enter, HolderHolds, TurnSeesHistory
<1> QED BY <1>3, <1>4, <1>5, <1>6, <1>7, <1>8 DEF IInv

LEMMA ReleaseKeeps ==
  ASSUME IInv, NEW c \in Callers, Release(c) PROVE IInv'
<1>1. conversations \in [IDs -> Turns \cup {None}] /\ EvictInactive(conversations) /\ state[c] \in Turns
  BY DEF IInv, TypeOK, Release, KnowsState
<1>2. active' \in [Turns -> Nat] /\ ActiveCounts'
  BY LeaveCounts DEF IInv, Release
<1>3. sequence' \in Nat /\ lastUsed' \in [Turns -> Nat]
  BY <1>1 DEF IInv, TypeOK, Release, Touch
<1>4. /\ pc' \in [Callers -> {"idle", "waiting", "holding", "appended", "releasing", "gone"}]
      /\ id' \in [Callers -> IDs \cup {None}] /\ state' \in [Callers -> Turns \cup {None}]
      /\ base' \in [Callers -> Seq(Turns)]
  BY DEF IInv, TypeOK, Release, Leave
<1>5. TypeOK'
  BY <1>1, <1>2, <1>3, <1>4, EvictionIsSafe DEF IInv, TypeOK, Release
<1>6. pc'[c] = "gone" /\ \A d \in Callers \ {c} :
        pc'[d] = pc[d] /\ id'[d] = id[d] /\ state'[d] = state[d] /\ base'[d] = base[d]
  BY DEF IInv, TypeOK, Release, Leave
<1>7. KnowsState' /\ HolderHolds' /\ TurnSeesHistory'
  BY <1>6 DEF IInv, Release, KnowsState, HolderHolds, TurnSeesHistory
<1>8. InUseIsRegistered'
  <2>1. \A d \in Callers : pc'[d] \in {"waiting", "holding", "appended", "releasing"} =>
           conversations[id'[d]] = state'[d]
    BY <1>6 DEF IInv, InUseIsRegistered
  <2> QED BY <1>1, <1>2, <1>7, <2>1, InUseAfterEviction
<1>9. OverflowIsActive'
  BY <1>1, <1>2, EvictionIsSafe
<1> QED BY <1>2, <1>5, <1>7, <1>8, <1>9 DEF IInv

LEMMA StepKeepsIInv == IInv /\ [Next]_vars => IInv'
<1> SUFFICES ASSUME IInv, [Next]_vars PROVE IInv'
  OBVIOUS
<1>1. ASSUME NEW t \in Turns, NEW i \in IDs, Acquire(t, i) PROVE IInv'
  <2>1. PICK s \in Turns : s = IF conversations[i] = None THEN t ELSE conversations[i]
    BY DEF IInv, TypeOK
  <2>2. conversations[i] \in {s, None} /\ pc[t] = "idle" /\ Enter(t, i, s)
    BY <1>1, <2>1 DEF Acquire
  <2> QED BY <2>2, EnterKeeps DEF Callers
<1>2. ASSUME NEW c \in Snapshots, NEW i \in IDs, AcquireExisting(c, i) PROVE IInv'
  <2>1. c \in Callers
    BY DEF Callers
  <2>2. CASE conversations[i] # None /\ Enter(c, i, conversations[i])
    <3>1. conversations[i] \in Turns /\ pc[c] = "idle"
      BY <1>2, <2>2 DEF IInv, TypeOK, AcquireExisting
    <3> QED BY <2>1, <2>2, <3>1, EnterKeeps
  <2>3. CASE /\ pc' = [pc EXCEPT ![c] = "gone"]
             /\ UNCHANGED <<registryVars, turns, holder, id, state, base>>
    <3>0. pc[c] = "idle"
      BY <1>2 DEF AcquireExisting
    <3>1. \A s : Using(s)' = Using(s)
      BY <2>3, <3>0 DEF Using, IInv, TypeOK
    <3>2. TypeOK' /\ KnowsState' /\ InUseIsRegistered' /\ HolderHolds' /\ TurnSeesHistory'
      BY <2>3 DEF IInv, TypeOK, KnowsState, InUseIsRegistered, HolderHolds, TurnSeesHistory, registryVars
    <3>3. ActiveCounts' /\ OverflowIsActive'
      BY <2>3, <3>1 DEF IInv, ActiveCounts, OverflowIsActive, Registered, registryVars
    <3> QED BY <3>2, <3>3 DEF IInv
  <2> QED BY <1>2, <2>2, <2>3 DEF AcquireExisting
<1>3. ASSUME NEW c \in Callers, Lock(c) PROVE IInv'
  <2>1. \A s : Using(s)' = Using(s)
    BY <1>3 DEF Using, IInv, TypeOK, Lock
  <2>2. TypeOK' /\ KnowsState' /\ InUseIsRegistered'
    BY <1>3 DEF IInv, TypeOK, KnowsState, InUseIsRegistered, Lock, registryVars
  <2>3. ActiveCounts' /\ OverflowIsActive'
    BY <1>3, <2>1 DEF IInv, ActiveCounts, OverflowIsActive, Registered, Lock, registryVars
  <2>4. HolderHolds'
    BY <1>3, RegistryAssumption
    DEF IInv, TypeOK, KnowsState, HolderHolds, Lock, RegistryAssumption, Callers
  <2>5. TurnSeesHistory'
    BY <1>3 DEF IInv, TypeOK, TurnSeesHistory, Lock
  <2> QED BY <2>2, <2>3, <2>4, <2>5 DEF IInv
<1>4. ASSUME NEW t \in Turns, AppendTurn(t) PROVE IInv'
  <2>0. t \in Callers /\ state[t] \in Turns
    BY <1>4 DEF IInv, KnowsState, Callers, AppendTurn
  <2>1. \A s : Using(s)' = Using(s)
    BY <1>4, <2>0 DEF Using, IInv, TypeOK, AppendTurn
  <2>2. LastOf(Append(turns[state[t]], t), MaxTurns) \in Seq(Turns)
    <3>1. Append(turns[state[t]], t) \in Seq(Turns)
      BY <2>0, AppendProperties DEF IInv, TypeOK
    <3> QED BY <3>1, LastOfType, RegistryAssumption DEF RegistryAssumption
  <2>3. turns' \in [Turns -> Seq(Turns)]
    BY <1>4, <2>0, <2>2 DEF IInv, TypeOK, AppendTurn
  <2>4. TypeOK' /\ KnowsState' /\ InUseIsRegistered'
    BY <1>4, <2>0, <2>3 DEF IInv, TypeOK, KnowsState, InUseIsRegistered, AppendTurn, registryVars
  <2>5. ActiveCounts' /\ OverflowIsActive'
    BY <1>4, <2>1 DEF IInv, ActiveCounts, OverflowIsActive, Registered, AppendTurn, registryVars
  <2>6. HolderHolds'
    BY <1>4 DEF IInv, TypeOK, HolderHolds, AppendTurn
  <2>7. TurnSeesHistory'
    <3> SUFFICES ASSUME NEW c \in Callers, pc'[c] = "holding"
                 PROVE  turns'[state'[c]] = base'[c]
      BY DEF TurnSeesHistory
    <3>1. c # t /\ pc[c] = "holding" /\ holder[state[c]] = c /\ holder[state[t]] = t
      BY <1>4, <2>0 DEF IInv, TypeOK, HolderHolds, AppendTurn
    <3>2. state[c] # state[t] /\ turns'[state[c]] = turns[state[c]]
      BY <1>4, <3>1 DEF IInv, TypeOK, KnowsState, AppendTurn
    <3> QED BY <1>4, <3>1, <3>2 DEF IInv, TurnSeesHistory, AppendTurn
  <2> QED BY <2>4, <2>5, <2>6, <2>7 DEF IInv
<1>5. ASSUME NEW c \in Callers, Unlock(c) PROVE IInv'
  <2>1. \A s : Using(s)' = Using(s)
    BY <1>5 DEF Using, IInv, TypeOK, Unlock
  <2>2. TypeOK' /\ KnowsState' /\ InUseIsRegistered'
    BY <1>5 DEF IInv, TypeOK, KnowsState, InUseIsRegistered, Unlock, registryVars
  <2>3. ActiveCounts' /\ OverflowIsActive'
    BY <1>5, <2>1 DEF IInv, ActiveCounts, OverflowIsActive, Registered, Unlock, registryVars
  <2>4. HolderHolds' /\ TurnSeesHistory'
    BY <1>5 DEF IInv, TypeOK, KnowsState, HolderHolds, TurnSeesHistory, Unlock
  <2> QED BY <2>2, <2>3, <2>4 DEF IInv
<1>6. CASE UNCHANGED vars
  <2>1. \A s : Using(s)' = Using(s)
    BY <1>6 DEF Using, vars
  <2> QED BY <1>6, <2>1 DEF IInv, TypeOK, KnowsState, ActiveCounts, InUseIsRegistered,
                           OverflowIsActive, Registered, HolderHolds, TurnSeesHistory, vars, registryVars
<1> QED BY <1>1, <1>2, <1>3, <1>4, <1>5, <1>6, ReleaseKeeps DEF Next

(* IInv is an invariant of the registry: the counts are what makes eviction *)
(* safe, and the mutex is what makes the histories safe (conversation.go).  *)
THEOREM Invariance == Spec => []IInv
BY InitIInv, StepKeepsIInv, PTL DEF Spec

-----------------------------------------------------------------------------
(* Every variable of the registry keeps its type (conversation.go:15-48).   *)
THEOREM TypeCorrect == Spec => []TypeOK
<1>1. IInv => TypeOK
  BY DEF IInv
<1> QED BY <1>1, Invariance, PTL

(* No conversation that is active or queued is ever evicted, however many   *)
(* callers come and go (conversation.go:54-104, docs/protocol.md:50-52).    *)
THEOREM NoConversationInUseIsEvicted == Spec => []InUseIsRegistered
<1>1. IInv => InUseIsRegistered
  BY DEF IInv
<1> QED BY <1>1, Invariance, PTL

(* The registry is larger than its bound only while every entry is active   *)
(* (conversation.go:86-104).                                                *)
THEOREM OverflowOnlyWhileActive == Spec => []OverflowIsActive
<1>1. IInv => OverflowIsActive
  BY DEF IInv
<1> QED BY <1>1, Invariance, PTL

(* No turn is added to a history that has changed since the provider was    *)
(* shown it (runner.go:95-121).                                             *)
THEOREM TurnsAreSerialized == Spec => []TurnSeesHistory
<1>1. IInv => TurnSeesHistory
  BY DEF IInv
<1> QED BY <1>1, Invariance, PTL

-----------------------------------------------------------------------------
(* Until a turn that was added unlocks the conversation, the history is     *)
(* what it was shown and the turn itself, cut at its bound.                 *)
AppendedIsKept ==
  \A t \in Turns : pc[t] = "appended" => turns[state[t]] = LastOf(Append(base[t], t), MaxTurns)

(* The end of a history that a turn is added to.                            *)
LEMMA LastOfAppend ==
  ASSUME NEW h \in Seq(Turns), NEW t \in Turns, NEW n \in Nat \ {0},
         NEW cut, cut = LastOf(Append(h, t), n)
  PROVE  IsEndOf(cut, Append(h, t), n)
<1>0. PICK all : all = Append(h, t)
  OBVIOUS
<1>1. /\ all \in Seq(Turns) /\ Len(h) \in Nat /\ Len(all) = Len(h) + 1
      /\ all[Len(h) + 1] = t /\ \A j \in 1..Len(h) : all[j] = h[j]
  BY <1>0, AppendProperties, LenProperties
<1>2. cut \in Seq(Turns) /\ Len(cut) \in Nat
  BY <1>0, <1>1, LastOfType, LenProperties
<1>3. CASE Len(h) + 1 > n
  <2>0. PICK d \in Nat : d + n = Len(h) + 1
    <3>1. Len(h) + 1 - n \in Nat /\ Len(h) + 1 - n + n = Len(h) + 1
      BY <1>1, <1>3
    <3> QED BY <3>1
  <2>1. cut = SubSeq(all, d + 1, d + n)
    <3>1. Len(all) > n /\ Len(all) - n + 1 = d + 1 /\ Len(all) = d + n
      BY <1>1, <1>3, <2>0
    <3>2. cut = SubSeq(all, Len(all) - n + 1, Len(all))
      BY <1>0, <3>1 DEF LastOf
    <3> QED BY <3>1, <3>2
  <2>2. \A i \in d + 1..d + n : all[i] \in Turns
    BY <1>1, <2>0, ElementOfSeq
  <2>3. Len(cut) = n /\ \A i \in 1..n : cut[i] = all[d + i]
    <3>1. PICK m \in Int, k \in Int : m = d + 1 /\ k = d + n
      OBVIOUS
    <3>2. /\ Len(SubSeq(all, m, k)) = IF m <= k THEN k - m + 1 ELSE 0
          /\ \A i \in 1..k - m + 1 : SubSeq(all, m, k)[i] = all[m + i - 1]
      BY <2>2, <3>1, SubSeqProperties
    <3>3. Len(cut) = n /\ \A i \in 1..n : cut[i] = all[m + i - 1]
      BY <2>1, <3>1, <3>2
    <3>4. \A i \in 1..n : m + i - 1 = d + i
      BY <3>1
    <3> QED BY <3>3, <3>4
  <2>4. Len(all) - Len(cut) = d
    BY <1>1, <2>0, <2>3
  <2> QED BY <1>0, <2>0, <2>3, <2>4 DEF IsEndOf
<1>4. CASE ~(Len(h) + 1 > n)
  <2>1. cut = all /\ Len(all) <= n /\ Len(all) - Len(cut) = 0
    BY <1>0, <1>1, <1>4 DEF LastOf
  <2>2. \A i \in 1..Len(cut) : cut[i] = all[0 + i]
    BY <1>1, <2>1
  <2> QED BY <1>0, <2>1, <2>2 DEF IsEndOf
<1> QED BY <1>1, <1>3, <1>4

LEMMA InitAppendedIsKept == Init => AppendedIsKept
BY DEF Init, AppendedIsKept, Callers

(* Only who holds the conversation can change its history.                  *)
LEMMA StepKeepsAppended == IInv /\ AppendedIsKept /\ [Next]_vars => AppendedIsKept'
<1> SUFFICES ASSUME IInv, AppendedIsKept, [Next]_vars, NEW t \in Turns, pc'[t] = "appended"
             PROVE  turns'[state'[t]] = LastOf(Append(base'[t], t), MaxTurns)
  BY DEF AppendedIsKept
<1>0. t \in Callers
  BY DEF Callers
<1>1. ASSUME NEW u \in Turns, AppendTurn(u)
      PROVE  turns'[state'[t]] = LastOf(Append(base'[t], t), MaxTurns)
  <2>0. u \in Callers /\ pc[u] = "holding" /\ state[u] \in Turns /\ UNCHANGED <<state, base>>
    BY <1>1 DEF AppendTurn, Callers, IInv, KnowsState
  <2>1. CASE t = u
    BY <1>1, <2>0, <2>1 DEF AppendTurn, IInv, TypeOK, TurnSeesHistory
  <2>2. CASE t # u
    <3>1. pc[t] = "appended"
      BY <1>0, <1>1, <2>2 DEF AppendTurn, IInv, TypeOK
    <3>2. state[t] \in Turns /\ holder[state[t]] = t /\ holder[state[u]] = u
      BY <1>0, <2>0, <3>1 DEF IInv, KnowsState, HolderHolds
    <3>3. turns'[state[t]] = turns[state[t]]
      BY <1>1, <2>0, <2>2, <3>2 DEF AppendTurn, IInv, TypeOK
    <3> QED BY <2>0, <3>1, <3>3 DEF AppendedIsKept
  <2> QED BY <2>1, <2>2
<1>2. ASSUME pc[t] = "appended", UNCHANGED turns, state'[t] = state[t], base'[t] = base[t]
      PROVE  turns'[state'[t]] = LastOf(Append(base'[t], t), MaxTurns)
  BY <1>2 DEF AppendedIsKept
<1>3. ASSUME NEW u \in Turns, NEW i \in IDs, Acquire(u, i)
      PROVE  turns'[state'[t]] = LastOf(Append(base'[t], t), MaxTurns)
  <2>1. t # u
    BY <1>0, <1>3 DEF Acquire, Enter, IInv, TypeOK, Callers
  <2> QED BY <1>0, <1>2, <1>3, <2>1 DEF Acquire, Enter, IInv, TypeOK
<1>4. ASSUME NEW c \in Snapshots, NEW i \in IDs, AcquireExisting(c, i)
      PROVE  turns'[state'[t]] = LastOf(Append(base'[t], t), MaxTurns)
  <2>1. t # c
    BY <1>4, RegistryAssumption DEF RegistryAssumption
  <2> QED BY <1>0, <1>2, <1>4, <2>1 DEF AcquireExisting, Enter, IInv, TypeOK
<1>5. ASSUME NEW c \in Callers, Lock(c) \/ Unlock(c)
      PROVE  turns'[state'[t]] = LastOf(Append(base'[t], t), MaxTurns)
  <2>1. t # c
    BY <1>0, <1>5 DEF Lock, Unlock, IInv, TypeOK
  <2> QED BY <1>0, <1>2, <1>5, <2>1 DEF Lock, Unlock, IInv, TypeOK
<1>6. ASSUME NEW c \in Callers, Release(c)
      PROVE  turns'[state'[t]] = LastOf(Append(base'[t], t), MaxTurns)
  <2>1. t # c
    BY <1>0, <1>6 DEF Release, Leave, IInv, TypeOK
  <2> QED BY <1>0, <1>2, <1>6, <2>1 DEF Release, Leave, IInv, TypeOK
<1>7. CASE UNCHANGED vars
  BY <1>2, <1>7 DEF vars
<1> QED BY <1>1, <1>3, <1>4, <1>5, <1>6, <1>7 DEF Next

(* What a committed turn leaves to the next one is the history its provider *)
(* was shown and the turn itself, without the oldest turns if that is more  *)
(* than the bound allows (runner.go:94-121, conversation.go:132-142).       *)
THEOREM CommitsAreKept == Spec => CommittedTurnsStay
<1>1. IInv /\ AppendedIsKept /\ [Next]_vars =>
        [\A t \in Turns : pc[t] = "appended" /\ pc'[t] = "releasing" =>
           IsEndOf(turns[state[t]], Append(base[t], t), MaxTurns)]_vars
  <2> SUFFICES ASSUME IInv, AppendedIsKept, NEW t \in Turns, pc[t] = "appended"
               PROVE  IsEndOf(turns[state[t]], Append(base[t], t), MaxTurns)
    OBVIOUS
  <2>1. base[t] \in Seq(Turns) /\ MaxTurns \in Nat \ {0}
    BY RegistryAssumption DEF RegistryAssumption, IInv, TypeOK, Callers
  <2>2. turns[state[t]] = LastOf(Append(base[t], t), MaxTurns)
    BY DEF AppendedIsKept
  <2> QED BY <2>1, <2>2, LastOfAppend
<1> QED BY <1>1, Invariance, InitAppendedIsKept, StepKeepsAppended, PTL
         DEF Spec, CommittedTurnsStay

-----------------------------------------------------------------------------
LEMMA StepKeepsMutex == IInv /\ MutexIsNotLeaked /\ [Next]_vars => MutexIsNotLeaked'
<1> SUFFICES ASSUME IInv, MutexIsNotLeaked, [Next]_vars, NEW s \in Turns, holder'[s] # None
             PROVE  pc'[holder'[s]] \in {"holding", "appended"} /\ state'[holder'[s]] = s
  BY DEF MutexIsNotLeaked
<1> DEFINE Held == pc'[holder'[s]] \in {"holding", "appended"} /\ state'[holder'[s]] = s
<1>0. /\ holder \in [Turns -> Callers \cup {None}] /\ state \in [Callers -> Turns \cup {None}]
      /\ pc \in [Callers -> {"idle", "waiting", "holding", "appended", "releasing", "gone"}]
      /\ Turns \subseteq Callers /\ Snapshots \subseteq Callers
  BY DEF IInv, TypeOK, Callers
<1>1. ASSUME holder[s] # None, holder'[s] = holder[s],
             pc'[holder[s]] = pc[holder[s]] \/ pc'[holder[s]] = "appended", state'[holder[s]] = state[holder[s]]
      PROVE  Held
  BY <1>1 DEF MutexIsNotLeaked
<1>2. holder[s] # None => holder[s] \in Callers /\ pc[holder[s]] \in {"holding", "appended"} /\ state[holder[s]] = s
  BY <1>0 DEF MutexIsNotLeaked
<1>3. ASSUME NEW c \in Callers, NEW i \in IDs, NEW t, Enter(c, i, t), pc[c] = "idle" PROVE Held
  <2>1. holder[s] # None /\ holder' = holder /\ holder[s] # c
    BY <1>2, <1>3 DEF Enter
  <2> QED BY <1>0, <1>1, <1>2, <1>3, <2>1 DEF Enter
<1>4. ASSUME NEW t \in Turns, AppendTurn(t) PROVE Held
  BY <1>0, <1>1, <1>2, <1>4 DEF AppendTurn
<1>5. ASSUME NEW c \in Callers, Lock(c) PROVE Held
  <2>1. CASE s = state[c]
    BY <1>0, <1>5, <2>1 DEF Lock
  <2>2. CASE s # state[c]
    <3>1. holder'[s] = holder[s] /\ holder[s] # c
      BY <1>0, <1>2, <1>5, <2>2 DEF Lock
    <3> QED BY <1>0, <1>1, <1>2, <1>5, <3>1 DEF Lock
  <2> QED BY <2>1, <2>2
<1>6. ASSUME NEW c \in Callers, Unlock(c) PROVE Held
  <2>1. state[c] \in Turns /\ s # state[c]
    BY <1>0, <1>6 DEF Unlock, IInv, KnowsState
  <2>2. holder'[s] = holder[s] /\ holder[s] # c
    BY <1>0, <1>2, <1>6, <2>1 DEF Unlock
  <2> QED BY <1>0, <1>1, <1>2, <1>6, <2>2 DEF Unlock
<1>7. ASSUME NEW c \in Callers, Release(c) PROVE Held
  <2>1. holder' = holder /\ holder[s] # c
    BY <1>0, <1>2, <1>7 DEF Release
  <2> QED BY <1>0, <1>1, <1>2, <1>7, <2>1 DEF Release, Leave
<1>8. ASSUME NEW c \in Snapshots, NEW i \in IDs, AcquireExisting(c, i) PROVE Held
  <2>1. CASE Enter(c, i, conversations[i])
    BY <1>0, <1>3, <1>8, <2>1 DEF AcquireExisting
  <2>2. CASE ~Enter(c, i, conversations[i])
    <3>1. holder' = holder /\ state' = state /\ pc' = [pc EXCEPT ![c] = "gone"] /\ pc[c] = "idle"
      BY <1>8, <2>2 DEF AcquireExisting
    <3>2. holder[s] # c
      BY <1>2, <3>1
    <3> QED BY <1>0, <1>1, <1>2, <3>1, <3>2
  <2> QED BY <2>1, <2>2
<1>9. ASSUME NEW t \in Turns, NEW i \in IDs, Acquire(t, i) PROVE Held
  BY <1>0, <1>3, <1>9 DEF Acquire
<1>10. CASE UNCHANGED vars
  BY <1>1, <1>10 DEF vars
<1> QED BY <1>4, <1>5, <1>6, <1>7, <1>8, <1>9, <1>10 DEF Next

(* The mutex of a conversation is held by nobody but a caller that goes on  *)
(* to unlock it, so whoever waits waits for callers that wait for nobody    *)
(* (conversation.go:69-79). EveryCallerIsServed rests on it.                *)
THEOREM HoldersUnlock == Spec => []MutexIsNotLeaked
<1>1. Init => MutexIsNotLeaked
  BY DEF Init, MutexIsNotLeaked
<1> QED BY <1>1, StepKeepsMutex, Invariance, PTL DEF Spec

=============================================================================
