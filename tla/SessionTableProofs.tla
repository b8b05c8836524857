------------------------- MODULE SessionTableProofs -------------------------
(***************************************************************************)
(* Proofs about SessionTable, for any number of request IDs and requests,  *)
(* any size of the table, any retention and any clock.                     *)
(***************************************************************************)
EXTENDS SessionTable, FiniteSetTheorems, TLAPS

(* The table leads to existing sessions, by their own IDs.                  *)
TableInv ==
  \A i \in IDs : sessions[i] # None => sessions[i] \in Created /\ id[sessions[i]] = i

(* What requests know; only one looks for room, and its ID leads nowhere.   *)
RequestInv ==
  \A r \in Requests :
    /\ now[r] <= clock
    /\ pc[r] # "idle" => id[r] \in IDs
    /\ pc[r] = "room" => mu = r /\ sessions[id[r]] = None
    /\ pc[r] \in {"got", "streaming"} => session[r] \in Requests

IInv == TypeOK /\ TableInv /\ RequestInv /\ UnfinishedIsRegistered

LEMMA InitIInv == Init => IInv
<1> SUFFICES ASSUME Init PROVE IInv
  OBVIOUS
<1>1. TypeOK
  BY DEF Init, TypeOK
<1>2. TableInv /\ RequestInv /\ UnfinishedIsRegistered
  BY DEF Init, TableInv, RequestInv, UnfinishedIsRegistered, Unfinished, Created
<1> QED BY <1>1, <1>2 DEF IInv

(* Pruning drops what has expired and nothing else. *)
LEMMA PruningIsSafe ==
  ASSUME TypeOK, NEW t
  PROVE  /\ Pruned(t) \in [IDs -> Requests \cup {None}]
         /\ \A i \in IDs :
              \/ Pruned(t)[i] = sessions[i]
              \/ Pruned(t)[i] = None /\ Expired(sessions[i], t)
  BY DEF Pruned, TypeOK

(* A step that drops only terminal sessions, and creates none, keeps the    *)
(* unfinished ones where they were.                                         *)
LEMMA DroppingIsSafe ==
  ASSUME IInv, \A i \in IDs : sessions'[i] = sessions[i] \/ sessions[i] \in terminal,
         Created' \subseteq Created, UNCHANGED <<terminal, id>>
  PROVE  UnfinishedIsRegistered'
<1> SUFFICES ASSUME NEW s \in Unfinished' PROVE sessions'[id'[s]] = s
  BY DEF UnfinishedIsRegistered
<1>1. s \in Unfinished /\ s \notin terminal
  BY DEF Unfinished
<1>2. s \in Requests /\ sessions[id[s]] = s /\ id[s] \in IDs
  BY <1>1 DEF IInv, UnfinishedIsRegistered, Unfinished, Created, RequestInv
<1> QED BY <1>1, <1>2

-----------------------------------------------------------------------------
LEMMA StepKeepsIInv == IInv /\ [Next]_vars => IInv'
<1> SUFFICES ASSUME IInv, [Next]_vars PROVE IInv'
  OBVIOUS
<1> USE DEF requestVars, tableVars, sessionVars
<1>1. ASSUME NEW r \in Requests, NEW i \in IDs, Arrive(r, i) PROVE IInv'
  <2>1. TypeOK' /\ RequestInv'
    BY <1>1 DEF IInv, TypeOK, RequestInv, Arrive
  <2>2. Created' = Created
    BY <1>1 DEF IInv, TypeOK, Created, Arrive
  <2>3. \A s \in Created : s # r
    BY <1>1 DEF Created, Arrive
  <2>4. TableInv' /\ UnfinishedIsRegistered'
    BY <1>1, <2>2, <2>3 DEF IInv, TypeOK, TableInv, UnfinishedIsRegistered, Unfinished, Arrive, Created
  <2> QED BY <2>1, <2>4 DEF IInv
<1>2. ASSUME NEW r \in Requests, Lookup(r) PROVE IInv'
  <2>1. /\ pc[r] = "arrived" /\ mu = None /\ id[r] \in IDs
        /\ sessions' = Pruned(now[r])
        /\ now' = [now EXCEPT ![r] = 0]
        /\ UNCHANGED <<clock, started, terminal, terminalAt, id>>
    BY <1>2 DEF Lookup, IInv, RequestInv
  <2>2. /\ sessions' \in [IDs -> Requests \cup {None}]
        /\ \A i \in IDs : sessions'[i] = sessions[i] \/ (sessions'[i] = None /\ sessions[i] \in terminal)
    BY <2>1, PruningIsSafe DEF IInv, Expired
  <2>3. CASE /\ sessions'[id[r]] # None
             /\ session' = [session EXCEPT ![r] = sessions'[id[r]]]
             /\ pc' = [pc EXCEPT ![r] = "got"]
             /\ UNCHANGED <<mu, scan, busy>>
    <3>1. sessions'[id[r]] \in Created /\ sessions'[id[r]] \in Requests
      BY <2>1, <2>2, <2>3 DEF IInv, TableInv, Created
    <3>2. sessions'[id[r]] # r
      BY <2>1, <3>1 DEF Created
    <3>3. Created' = Created
      BY <2>1, <2>3, <3>2 DEF IInv, TypeOK, Created
    <3>4. TypeOK'
      BY <2>1, <2>2, <2>3, <3>1, TableAssumption DEF IInv, TypeOK, TableAssumption
    <3>5. TableInv'
      BY <2>1, <2>2, <3>3 DEF IInv, TableInv
    <3>6. RequestInv'
      BY <2>1, <2>2, <2>3, <3>1 DEF IInv, TypeOK, RequestInv
    <3>7. UnfinishedIsRegistered'
      BY <2>1, <2>2, <3>3, DroppingIsSafe
    <3> QED BY <3>4, <3>5, <3>6, <3>7 DEF IInv
  <2>4. CASE /\ sessions'[id[r]] = None
             /\ pc' = [pc EXCEPT ![r] = "room"]
             /\ mu' = r /\ scan' = Retained' \cap terminal /\ busy' = Retained' \ terminal
             /\ UNCHANGED session
    <3>1. Created' = Created
      BY <2>1, <2>4 DEF IInv, TypeOK, Created
    <3>2. scan' \subseteq Requests /\ busy' \subseteq Requests
      BY <2>2, <2>4 DEF IInv, TypeOK, Retained, Registered
    <3>3. TypeOK'
      BY <2>1, <2>2, <2>4, <3>2 DEF IInv, TypeOK
    <3>4. TableInv'
      BY <2>1, <2>2, <3>1 DEF IInv, TableInv
    <3>5. RequestInv'
      BY <2>1, <2>2, <2>4, TableAssumption DEF IInv, TypeOK, RequestInv, TableAssumption
    <3>6. UnfinishedIsRegistered'
      BY <2>1, <2>2, <3>1, DroppingIsSafe
    <3> QED BY <3>3, <3>4, <3>5, <3>6 DEF IInv
  <2> QED BY <1>2, <2>3, <2>4 DEF Lookup
<1>3. ASSUME NEW r \in Requests, Evict(r) PROVE IInv'
  <2>1. PICK i \in IDs : sessions[i] \in terminal /\ sessions' = [sessions EXCEPT ![i] = None]
    BY <1>3 DEF Evict, Registered
  <2>2. scan' \subseteq Requests
    BY <1>3 DEF IInv, TypeOK, Evict
  <2>3. TypeOK'
    BY <1>3, <2>1, <2>2 DEF IInv, TypeOK, Evict
  <2>4. Created' = Created
    BY <1>3 DEF Created, Evict
  <2>5. TableInv' /\ RequestInv'
    BY <1>3, <2>1, <2>4 DEF IInv, TypeOK, TableInv, RequestInv, Evict
  <2>6. UnfinishedIsRegistered'
    BY <1>3, <2>1, <2>4, DroppingIsSafe DEF IInv, TypeOK, Evict
  <2> QED BY <2>3, <2>5, <2>6 DEF IInv
<1>4. ASSUME NEW r \in Requests, Create(r) PROVE IInv'
  <2>1. id[r] \in IDs /\ mu = r /\ sessions[id[r]] = None /\ r # None
    BY <1>4, TableAssumption DEF IInv, RequestInv, Create, TableAssumption
  <2>2. Created' = Created \cup {r}
    BY <1>4 DEF IInv, TypeOK, Created, Create
  <2>3. TypeOK'
    BY <1>4, <2>1 DEF IInv, TypeOK, Create
  <2>4. TableInv'
    BY <1>4, <2>1, <2>2 DEF IInv, TypeOK, TableInv, Create
  <2>5. RequestInv'
    <3> SUFFICES ASSUME NEW q \in Requests
                 PROVE  /\ now'[q] <= clock'
                        /\ pc'[q] # "idle" => id'[q] \in IDs
                        /\ pc'[q] = "room" => mu' = q /\ sessions'[id'[q]] = None
                        /\ pc'[q] \in {"got", "streaming"} => session'[q] \in Requests
      BY DEF RequestInv
    <3>1. CASE q = r
      BY <1>4, <2>1, <3>1 DEF IInv, TypeOK, RequestInv, Create
    <3>2. CASE q # r
      BY <1>4, <2>1, <3>2 DEF IInv, TypeOK, RequestInv, Create
    <3> QED BY <3>1, <3>2
  <2>6. UnfinishedIsRegistered'
    <3> SUFFICES ASSUME NEW s \in Unfinished' PROVE sessions'[id'[s]] = s
      BY DEF UnfinishedIsRegistered
    <3>1. CASE s = r
      BY <1>4, <2>1, <3>1 DEF IInv, TypeOK, Create
    <3>2. CASE s # r
      <4>1. s \in Unfinished /\ sessions[id[s]] = s /\ s # None
        BY <1>4, <2>2, <3>2, TableAssumption
        DEF IInv, UnfinishedIsRegistered, Unfinished, Created, Create, TableAssumption
      <4> QED BY <1>4, <2>1, <4>1 DEF IInv, TypeOK, Create
    <3> QED BY <3>1, <3>2
  <2> QED BY <2>3, <2>4, <2>5, <2>6 DEF IInv
<1>5. ASSUME NEW r \in Requests, Start(r) \/ Stream(r) \/ Leave(r) PROVE IInv'
  <2>1. /\ pc[r] \in {"got", "streaming"} /\ session[r] \in Requests
        /\ \E p \in {"streaming", "gone"} : pc' = [pc EXCEPT ![r] = p]
        /\ started' \subseteq started \cup {session[r]}
        /\ UNCHANGED <<clock, sessions, mu, scan, busy, terminal, terminalAt, id, now, session>>
    BY <1>5 DEF IInv, RequestInv, Start, Stream, Leave
  <2>2. Created' = Created
    BY <2>1 DEF IInv, TypeOK, Created
  <2>3. TypeOK' /\ RequestInv'
    BY <2>1 DEF IInv, TypeOK, RequestInv
  <2>4. TableInv' /\ UnfinishedIsRegistered'
    BY <2>1, <2>2 DEF IInv, TableInv, UnfinishedIsRegistered, Unfinished
  <2> QED BY <2>3, <2>4 DEF IInv
<1>6. ASSUME NEW s \in Requests, Finish(s) PROVE IInv'
  <2>1. Created' = Created /\ Unfinished' \subseteq Unfinished
    BY <1>6 DEF Created, Unfinished, Finish
  <2>2. TypeOK' /\ RequestInv'
    BY <1>6 DEF IInv, TypeOK, RequestInv, Finish
  <2>3. TableInv' /\ UnfinishedIsRegistered'
    BY <1>6, <2>1 DEF IInv, TableInv, UnfinishedIsRegistered, Finish
  <2> QED BY <2>2, <2>3 DEF IInv
<1>7. CASE Detached
  <2>1. sessions' = Pruned(clock)
    BY <1>7 DEF Detached
  <2>2. /\ sessions' \in [IDs -> Requests \cup {None}]
        /\ \A i \in IDs : sessions'[i] = sessions[i] \/ (sessions'[i] = None /\ sessions[i] \in terminal)
    BY <2>1, PruningIsSafe DEF IInv, Expired
  <2>3. Created' = Created
    BY <1>7 DEF Created, Detached
  <2>4. TypeOK'
    BY <1>7, <2>2 DEF IInv, TypeOK, Detached
  <2>5. TableInv' /\ RequestInv'
    BY <1>7, <2>2, <2>3 DEF IInv, TableInv, RequestInv, Detached
  <2>6. UnfinishedIsRegistered'
    BY <1>7, <2>2, <2>3, DroppingIsSafe DEF Detached
  <2> QED BY <2>4, <2>5, <2>6 DEF IInv
<1>8. CASE Tick
  <2>1. clock \in Nat /\ clock' = clock + 1 /\ \A r \in Requests : now[r] \in Nat
    BY <1>8 DEF Tick, IInv, TypeOK
  <2>2. TypeOK' /\ RequestInv'
    BY <1>8, <2>1 DEF IInv, TypeOK, RequestInv, Tick
  <2>3. TableInv' /\ UnfinishedIsRegistered'
    BY <1>8 DEF IInv, TableInv, UnfinishedIsRegistered, Unfinished, Created, Tick
  <2> QED BY <2>2, <2>3 DEF IInv
<1>9. CASE UNCHANGED vars
  BY <1>9 DEF IInv, TypeOK, TableInv, RequestInv, UnfinishedIsRegistered, Unfinished, Created, vars
<1> QED BY <1>1, <1>2, <1>3, <1>4, <1>5, <1>6, <1>7, <1>8, <1>9 DEF Next

(* IInv is an invariant of the table (agent.go:494-541).                    *)
THEOREM Invariance == Spec => []IInv
BY InitIInv, StepKeepsIInv, PTL DEF Spec

-----------------------------------------------------------------------------
(* Every variable keeps its type, and handler.mu is held only by a request  *)
(* that looks for room (agent.go:494-511).                                  *)
THEOREM TypeCorrect == Spec => []TypeOK
<1>1. IInv => TypeOK
  BY DEF IInv
<1> QED BY <1>1, Invariance, PTL

(* An unfinished session stays registered under its ID, whatever expires,   *)
(* is evicted or ends meanwhile (agent.go:494-541, docs/protocol.md:49).    *)
THEOREM UnfinishedSessionsStay == Spec => []UnfinishedIsRegistered
<1>1. IInv => UnfinishedIsRegistered
  BY DEF IInv
<1> QED BY <1>1, Invariance, PTL

(* No session is dropped before its retention is over unless the table is   *)
(* full, and then the one that ended first of those found (agent.go:513-541). *)
THEOREM SessionsAreRetained == Spec => DroppedForAReason
<1> DEFINE Reason(i) ==
      /\ sessions[i] \in terminal
      /\ \/ clock >= terminalAt[sessions[i]] + Retention
         \/ /\ mu # None /\ Cardinality(Registered) >= MaxSessions
            /\ \A s \in scan : terminalAt[sessions[i]] <= terminalAt[s]
<1>1. ASSUME IInv, [Next]_vars, NEW i \in IDs, sessions[i] # None, sessions'[i] # sessions[i]
      PROVE  Reason(i)
  <2>1. sessions[i] \in Requests /\ terminalAt[sessions[i]] \in Nat /\ clock \in Nat
    BY <1>1 DEF IInv, TypeOK
  <2>2. ASSUME NEW r \in Requests, Lookup(r) PROVE Reason(i)
    <3>1. Expired(sessions[i], now[r])
      BY <1>1, <2>2, PruningIsSafe DEF Lookup, IInv
    <3>2. now[r] <= clock /\ now[r] \in Nat
      BY <1>1 DEF IInv, RequestInv, TypeOK
    <3> QED BY <2>1, <3>1, <3>2, TableAssumption DEF Expired, TableAssumption
  <2>3. ASSUME NEW r \in Requests, Evict(r) PROVE Reason(i)
    <3>1. mu = r /\ mu # None
      BY <2>3, <1>1, TableAssumption DEF Evict, IInv, RequestInv, TableAssumption
    <3>2. PICK found \in SUBSET (Retained \cap terminal), j \in Registered :
            /\ scan \subseteq found /\ sessions[j] \in found
            /\ \A s \in found : terminalAt[sessions[j]] <= terminalAt[s]
            /\ sessions' = [sessions EXCEPT ![j] = None]
      BY <2>3 DEF Evict
    <3>3. i = j
      BY <1>1, <3>2 DEF IInv, TypeOK
    <3> QED BY <2>3, <3>1, <3>2, <3>3 DEF Evict
  <2>4. CASE Detached
    BY <1>1, <2>1, <2>4, PruningIsSafe DEF Detached, IInv, Expired
  <2>5. ASSUME NEW r \in Requests, Create(r) PROVE FALSE
    BY <1>1, <2>5 DEF IInv, TypeOK, RequestInv, Create
  <2>6. sessions' = sessions \/ (\E r \in Requests : Lookup(r) \/ Evict(r) \/ Create(r)) \/ Detached
    BY <1>1 DEF Next, vars, tableVars, Arrive, Start, Stream, Leave, Finish, Tick
  <2> QED BY <1>1, <2>2, <2>3, <2>4, <2>5, <2>6
<1>2. IInv /\ [Next]_vars =>
        [\A i \in IDs : sessions[i] # None /\ sessions'[i] # sessions[i] => Reason(i)]_vars
  BY <1>1
<1> QED BY <1>2, Invariance, PTL DEF Spec, DroppedForAReason

-----------------------------------------------------------------------------
(* How far the table outgrows its bound                                     *)

(* While a request looks for room, whatever the table holds had ended when  *)
(* the current round began, or not yet when the first one did.              *)
BoundInv ==
  /\ TableIsBounded
  /\ scan \subseteq terminal
  /\ mu # None => Retained \subseteq scan \cup busy

LEMMA TableFinite ==
  /\ IsFiniteSet(Registered) /\ Cardinality(Registered) \in Nat
  /\ IsFiniteSet(Registered') /\ Cardinality(Registered') \in Nat
<1>1. IsFiniteSet(IDs)
  BY TableAssumption DEF TableAssumption
<1>2. Registered \subseteq IDs /\ Registered' \subseteq IDs
  BY DEF Registered
<1> QED BY <1>1, <1>2, FS_Subset, FS_CardinalityType

LEMMA BusyFinite ==
  ASSUME IInv
  PROVE  IsFiniteSet(busy) /\ Cardinality(busy) \in Nat
<1>1. IsFiniteSet(Requests) /\ busy \subseteq Requests
  BY TableAssumption DEF TableAssumption, IInv, TypeOK
<1> QED BY <1>1, FS_Subset, FS_CardinalityType

LEMMA InjectiveBound ==
  ASSUME NEW t, NEW L, NEW U, IsFiniteSet(U),
         \A i \in L : t[i] \in U, \A i, j \in L : t[i] = t[j] => i = j
  PROVE  Cardinality(L) <= Cardinality(U)
<1> DEFINE f == [i \in L |-> t[i]]
<1>1. f \in Injection(L, U)
  BY DEF Injection, IsInjective
<1> HIDE DEF f
<1> QED BY <1>1, FS_Injection

(* A table of nothing but busy sessions is no larger than they are many.    *)
LEMMA OnlyBusy ==
  ASSUME IInv, Retained \subseteq busy
  PROVE  Cardinality(Registered) <= Cardinality(busy)
<1>1. \A i \in Registered : sessions[i] \in busy /\ id[sessions[i]] = i
  BY DEF Retained, Registered, IInv, TableInv
<1> QED BY <1>1, BusyFinite, InjectiveBound

LEMMA StepKeepsBound == IInv /\ IInv' /\ BoundInv /\ [Next]_vars => BoundInv'
<1> SUFFICES ASSUME IInv, IInv', BoundInv, [Next]_vars PROVE BoundInv'
  OBVIOUS
<1> USE TableFinite, BusyFinite DEF requestVars, tableVars, sessionVars
<1>0. MaxSessions \in Nat
  BY TableAssumption DEF TableAssumption
<1>1. CASE UNCHANGED tableVars /\ terminal \subseteq terminal'
  <2>1. Registered' = Registered /\ Retained' = Retained
    BY <1>1 DEF Registered, Retained
  <2> QED BY <1>1, <2>1 DEF BoundInv, TableIsBounded
<1>2. ASSUME Registered' \subseteq Registered, UNCHANGED <<mu, busy>> PROVE TableIsBounded'
  <2>1. Cardinality(Registered') <= Cardinality(Registered)
    BY <1>2, FS_Subset
  <2> QED BY <1>0, <1>2, <2>1 DEF BoundInv, TableIsBounded
<1>3. ASSUME NEW r \in Requests, Lookup(r) PROVE BoundInv'
  <2>1. Registered' \subseteq Registered /\ terminal' = terminal
    BY <1>3, PruningIsSafe DEF Lookup, Registered, IInv
  <2>2. CASE UNCHANGED <<mu, scan, busy>>
    <3>1. mu' = None
      BY <1>3, <2>2 DEF Lookup
    <3> QED BY <1>2, <2>1, <2>2, <3>1 DEF BoundInv
  <2>3. CASE mu' = r /\ scan' = Retained' \cap terminal /\ busy' = Retained' \ terminal
    <3>1. mu' # None
      BY <2>3, TableAssumption DEF TableAssumption
    <3> QED BY <2>1, <2>3, <3>1 DEF BoundInv, TableIsBounded
  <2> QED BY <1>3, <2>2, <2>3 DEF Lookup
<1>4. ASSUME NEW r \in Requests, Evict(r) PROVE BoundInv'
  <2>1. scan' = Retained' \cap terminal /\ UNCHANGED <<mu, busy, terminal>>
    BY <1>4 DEF Evict
  <2>2. mu # None
    BY <1>4, TableAssumption DEF Evict, IInv, RequestInv, TableAssumption
  <2>3. Registered' \subseteq Registered /\ Retained' \subseteq Retained
    BY <1>4 DEF Evict, Registered, Retained, IInv, TypeOK
  <2> QED BY <2>1, <2>2, <2>3 DEF BoundInv, TableIsBounded
<1>5. ASSUME NEW r \in Requests, Create(r) PROVE BoundInv'
  <2>1. /\ mu # None /\ mu' = None /\ id[r] \in IDs /\ r # None
        /\ scan' = {} /\ busy' = busy
    BY <1>5, TableAssumption DEF Create, IInv, RequestInv, TableAssumption
  <2>2. Registered' = Registered \cup {id[r]} /\ id[r] \notin Registered
    BY <1>5, <2>1 DEF Create, Registered, IInv, TypeOK, RequestInv
  <2>3. Cardinality(Registered') = Cardinality(Registered) + 1
    BY <2>2, FS_AddElement
  <2>4. Cardinality(Registered) < MaxSessions \/ Cardinality(Registered) <= Cardinality(busy)
    BY <1>5, <2>1, OnlyBusy DEF Create, BoundInv
  <2> QED BY <1>0, <2>1, <2>3, <2>4 DEF BoundInv, TableIsBounded
<1>6. CASE Detached
  <2>1. Registered' \subseteq Registered /\ UNCHANGED <<mu, scan, busy, terminal>> /\ mu' = None
    BY <1>6, PruningIsSafe DEF Detached, Registered, IInv
  <2> QED BY <1>2, <2>1 DEF BoundInv
<1>7. ASSUME NEW s \in Requests,
             (\E i \in IDs : Arrive(s, i)) \/ Start(s) \/ Stream(s) \/ Leave(s) \/ Finish(s)
      PROVE  BoundInv'
  BY <1>1, <1>7 DEF Arrive, Start, Stream, Leave, Finish
<1>8. CASE Tick \/ UNCHANGED vars
  BY <1>1, <1>8 DEF Tick, vars
<1> QED BY <1>3, <1>4, <1>5, <1>6, <1>7, <1>8 DEF Next

(* A full table admits a session for which nothing can be evicted, yet the  *)
(* first session created after some have ended brings it back within its    *)
(* cap, or to what had not ended by then and one more (agent.go:522-541).   *)
THEOREM TableStaysBounded == Spec => []TableIsBounded
<1>1. Init => BoundInv
  <2> SUFFICES ASSUME Init PROVE BoundInv
    OBVIOUS
  <2>1. Registered = {} /\ mu = None /\ scan = {}
    BY DEF Init, Registered
  <2> QED BY <2>1, FS_EmptySet, TableAssumption DEF BoundInv, TableIsBounded, TableAssumption
<1>2. IInv /\ IInv' /\ BoundInv /\ [Next]_vars => BoundInv'
  BY StepKeepsBound
<1>3. BoundInv => TableIsBounded
  BY DEF BoundInv
<1> QED BY <1>1, <1>2, <1>3, Invariance, PTL DEF Spec

-----------------------------------------------------------------------------
(* Sessions that requests have, or that were started, were created.         *)
StartedInv ==
  /\ \A r \in Requests : pc[r] \in {"got", "streaming"} => session[r] \in Created
  /\ started \subseteq Created

(* What was created stays created. *)
LEMMA CreatedStays ==
  ASSUME IInv, [Next]_vars
  PROVE  Created \subseteq Created'
<1>1. ASSUME NEW r \in Requests, pc[r] \notin {"idle", "arrived", "room"}, session[r] = r
      PROVE  pc'[r] \notin {"idle", "arrived", "room"} /\ session'[r] = r
  <2>1. pc \in [Requests -> {"idle", "arrived", "room", "got", "streaming", "gone"}]
        /\ session \in [Requests -> Requests \cup {None}]
    BY DEF IInv, TypeOK
  <2>2. CASE \E s \in Requests, i \in IDs : Arrive(s, i)
    BY <1>1, <2>1, <2>2 DEF Arrive
  <2>3. CASE \E s \in Requests : Lookup(s)
    BY <1>1, <2>1, <2>3 DEF Lookup
  <2>4. CASE \E s \in Requests : Evict(s)
    BY <1>1, <2>4 DEF Evict, requestVars
  <2>5. CASE \E s \in Requests : Create(s)
    BY <1>1, <2>1, <2>5 DEF Create
  <2>6. CASE \E s \in Requests : Start(s)
    BY <1>1, <2>1, <2>6 DEF Start
  <2>7. CASE \E s \in Requests : Stream(s) \/ Leave(s)
    BY <1>1, <2>1, <2>7 DEF Stream, Leave
  <2>8. CASE (\E s \in Requests : Finish(s)) \/ Detached \/ Tick \/ UNCHANGED vars
    BY <1>1, <2>8 DEF Finish, Detached, Tick, requestVars, vars
  <2> QED BY <2>2, <2>3, <2>4, <2>5, <2>6, <2>7, <2>8 DEF Next
<1> QED BY <1>1 DEF Created

LEMMA StartedStep ==
  ASSUME IInv, StartedInv, [Next]_vars
  PROVE  StartedInv'
<1>0. /\ pc \in [Requests -> {"idle", "arrived", "room", "got", "streaming", "gone"}]
      /\ session \in [Requests -> Requests \cup {None}]
  BY DEF IInv, TypeOK
<1>1. Created \subseteq Created'
  BY CreatedStays
<1>2. ASSUME NEW r \in Requests, pc'[r] \in {"got", "streaming"}
      PROVE  session'[r] \in Created'
  <2>1. CASE pc[r] \in {"got", "streaming"} /\ session'[r] = session[r]
    BY <1>1, <2>1 DEF StartedInv
  <2>2. CASE Lookup(r)
    <3>1. \/ sessions'[id[r]] # None /\ session'[r] = sessions'[id[r]]
          \/ pc'[r] = "room"
      BY <1>0, <2>2 DEF Lookup
    <3>2. sessions' = Pruned(now[r]) /\ id[r] \in IDs
      BY <2>2 DEF Lookup, IInv, RequestInv
    <3>3. sessions'[id[r]] # None => sessions'[id[r]] = sessions[id[r]] /\ sessions[id[r]] # None
      BY <3>2 DEF Pruned
    <3> QED BY <1>1, <1>2, <3>1, <3>2, <3>3 DEF IInv, TableInv
  <2>3. CASE Create(r)
    BY <1>0, <2>3 DEF Create, Created
  <2>4. CASE Start(r) \/ Stream(r) \/ Leave(r)
    BY <1>0, <1>2, <2>1, <2>4 DEF Start, Stream, Leave
  <2>5. ASSUME NEW s \in Requests, s # r,
               (\E i \in IDs : Arrive(s, i)) \/ Lookup(s) \/ Create(s) \/ Start(s) \/ Stream(s) \/ Leave(s)
        PROVE  session'[r] \in Created'
    BY <1>0, <1>2, <2>1, <2>5 DEF Arrive, Lookup, Create, Start, Stream, Leave
  <2>6. CASE \E i \in IDs : Arrive(r, i)
    BY <1>0, <1>2, <2>6 DEF Arrive
  <2>7. CASE (\E s \in Requests : Evict(s) \/ Finish(s)) \/ Detached \/ Tick \/ UNCHANGED vars
    BY <1>2, <2>1, <2>7 DEF Evict, Finish, Detached, Tick, requestVars, vars
  <2> QED BY <2>2, <2>3, <2>4, <2>5, <2>6, <2>7 DEF Next
<1>3. started' \subseteq Created'
  <2>1. ASSUME NEW r \in Requests, Start(r) PROVE started' \subseteq Created'
    <3>1. started' \subseteq started \cup {session[r]} /\ pc[r] = "got"
      BY <2>1 DEF Start
    <3> QED BY <1>1, <3>1 DEF StartedInv
  <2>2. CASE UNCHANGED started
    BY <1>1, <2>2 DEF StartedInv
  <2> QED BY <2>1, <2>2 DEF Next, vars, sessionVars, Arrive, Lookup, Evict, Create, Stream, Leave,
        Finish, Detached, Tick
<1> QED BY <1>2, <1>3 DEF StartedInv

(* A request that starts a session has the one its ID leads to, and what    *)
(* was started under that ID before has ended and was dropped: a retry      *)
(* joins or replays a run, it never runs again what is still retained       *)
(* (agent.go:494-511, 627-644).                                             *)
THEOREM RetriesRunNothing == Spec => RetryRunsNothing
<1> DEFINE Fresh(s) ==
      /\ sessions[id[s]] = s
      /\ \A other \in started : id[other] = id[s] => other \in terminal /\ other \notin Retained
<1>1. ASSUME IInv, StartedInv, [Next]_vars, NEW s \in started' \ started
      PROVE  Fresh(s)
  <2>1. PICK r \in Requests : Start(r)
    BY <1>1 DEF Next, vars, sessionVars, Arrive, Lookup, Evict, Create, Stream, Leave, Finish, Detached, Tick
  <2>2. s = session[r] /\ s \notin terminal /\ pc[r] = "got"
    BY <1>1, <2>1 DEF Start
  <2>3. s \in Unfinished
    BY <1>1, <2>2 DEF StartedInv, Unfinished
  <2>4. sessions[id[s]] = s
    BY <1>1, <2>3 DEF IInv, UnfinishedIsRegistered
  <2>5. ASSUME NEW other \in started, id[other] = id[s] PROVE other \in terminal /\ other \notin Retained
    <3>1. other # s /\ other \in Created
      BY <1>1 DEF StartedInv
    <3>2. other \in terminal
      BY <1>1, <2>4, <2>5, <3>1 DEF IInv, UnfinishedIsRegistered, Unfinished
    <3>3. ASSUME NEW i \in IDs, sessions[i] # None, sessions[i] = other PROVE FALSE
      BY <1>1, <2>4, <2>5, <3>1, <3>3 DEF IInv, TableInv
    <3> QED BY <3>2, <3>3 DEF Retained, Registered
  <2> QED BY <2>4, <2>5
<1>2. Init => StartedInv
  BY DEF Init, StartedInv, Created
<1>3. IInv /\ StartedInv /\ [Next]_vars => StartedInv'
  BY StartedStep
<1>4. IInv /\ StartedInv /\ [Next]_vars => [\A s \in started' \ started : Fresh(s)]_vars
  BY <1>1
<1> QED BY <1>2, <1>3, <1>4, Invariance, PTL DEF Spec, RetryRunsNothing

=============================================================================
