---------------------------- MODULE SessionTable ----------------------------
(***************************************************************************)
(* The session table of agentHandler (internal/server/agent.go): requests  *)
(* find or create the session of their request ID, sessions end whenever   *)
(* they like, terminal ones expire or make room. A session is named by the *)
(* request that created it; AgentSession models what happens inside one.   *)
(* The table is guarded by handler.mu, but whether a session is terminal   *)
(* is read under that session's own mutex, one session after the other.    *)
(***************************************************************************)
EXTENDS Naturals, FiniteSets

CONSTANTS
  IDs,              \* request IDs
  RunRequests,      \* Run and BidiAppend requests that carry a run
  StreamRequests,   \* RunSSE requests
  MaxSessions,      \* 1024 in the code
  Retention,        \* 5 minutes in the code
  MaxClock,         \* bound on the clock
  None

Requests == RunRequests \cup StreamRequests

ASSUME TableAssumption ==
  /\ RunRequests \cap StreamRequests = {} /\ IsFiniteSet(Requests) /\ IsFiniteSet(IDs)
  /\ None \notin IDs \cup Requests
  /\ MaxSessions \in Nat \ {0} /\ Retention \in Nat \ {0} /\ MaxClock \in Nat

VARIABLES
  clock,       \* handler.now
  sessions,    \* handler.sessions: ID -> session, or None
  mu,          \* the request that holds handler.mu between two steps, or None
  started,     \* the sessions that were started,
  terminal,    \* those that are done,
  terminalAt,  \* and when they were
  pc, id, now, session,  \* of each request: the clock it read, the session it got
  scan,        \* sessions terminal when the current scan for room began
  busy         \* history: the sessions of the table that had not ended when
               \* the last request that created one got hold of handler.mu

tableVars == <<sessions, mu, scan, busy>>
sessionVars == <<started, terminal, terminalAt>>
requestVars == <<pc, id, now, session>>
vars == <<clock, tableVars, sessionVars, requestVars>>

Registered == {i \in IDs : sessions[i] # None}
Retained == {sessions[i] : i \in Registered}

(* A session exists from the moment the request that names it created it.   *)
Created == {r \in Requests : pc[r] \notin {"idle", "arrived", "room"} /\ session[r] = r}
Unfinished == Created \ terminal

TypeOK ==
  /\ clock \in Nat
  /\ sessions \in [IDs -> Requests \cup {None}]
  /\ mu \in {r \in Requests : pc[r] = "room"} \cup {None}
  /\ started \subseteq Requests /\ terminal \subseteq Requests /\ scan \subseteq Requests
  /\ terminalAt \in [Requests -> Nat]
  /\ pc \in [Requests -> {"idle", "arrived", "room", "got", "streaming", "gone"}]
  /\ id \in [Requests -> IDs \cup {None}] /\ now \in [Requests -> Nat]
  /\ session \in [Requests -> Requests \cup {None}]
  /\ busy \subseteq Requests

Init ==
  /\ clock = 0 /\ sessions = [i \in IDs |-> None] /\ mu = None
  /\ started = {} /\ terminal = {} /\ scan = {} /\ busy = {}
  /\ terminalAt = [r \in Requests |-> 0]
  /\ pc = [r \in Requests |-> "idle"] /\ id = [r \in Requests |-> None]
  /\ now = [r \in Requests |-> 0] /\ session = [r \in Requests |-> None]

(* handler.session reads the clock before it takes handler.mu.              *)
Arrive(r, i) ==
  /\ pc[r] = "idle"
  /\ pc' = [pc EXCEPT ![r] = "arrived"]
  /\ id' = [id EXCEPT ![r] = i]
  /\ now' = [now EXCEPT ![r] = clock]
  /\ UNCHANGED <<clock, tableVars, sessionVars, session>>

(* Mutant: a session is dropped one tick early.                             *)
Expired_Early(s, t) == s \in terminal /\ t + 1 >= terminalAt[s] + Retention

(* pruneExpiredSessionsLocked at the time t.                                *)
Expired(s, t) == s \in terminal /\ t >= terminalAt[s] + Retention

Pruned(t) ==
  [i \in IDs |-> IF sessions[i] # None /\ Expired(sessions[i], t) THEN None ELSE sessions[i]]

(* handler.session: prune, then the session there is, or look for room; the  *)
(* time that was read is not used again.                                    *)
Lookup(r) ==
  /\ pc[r] = "arrived" /\ mu = None
  /\ sessions' = Pruned(now[r])
  /\ \/ /\ sessions'[id[r]] # None
        /\ session' = [session EXCEPT ![r] = sessions'[id[r]]]
        /\ pc' = [pc EXCEPT ![r] = "got"]
        /\ UNCHANGED <<mu, scan, busy>>
     \/ /\ sessions'[id[r]] = None
        /\ pc' = [pc EXCEPT ![r] = "room"]
        /\ mu' = r /\ scan' = Retained' \cap terminal /\ busy' = Retained' \ terminal
        /\ UNCHANGED session
  /\ now' = [now EXCEPT ![r] = 0]
  /\ UNCHANGED <<clock, sessionVars, id>>

(* Mutant: any session is evicted. *)
Evict_Unfinished(r) ==
  /\ pc[r] = "room" /\ Cardinality(Registered) >= MaxSessions
  /\ \E i \in Registered :
       /\ sessions' = [sessions EXCEPT ![i] = None]
       /\ scan' = Retained' \cap terminal
  /\ UNCHANGED <<clock, mu, busy, sessionVars, requestVars>>

(* One round of makeRoomForSessionLocked that found terminal sessions: all  *)
(* those of scan, and some that ended since. The oldest is deleted.         *)
Evict(r) ==
  /\ pc[r] = "room" /\ Cardinality(Registered) >= MaxSessions
  /\ \E found \in SUBSET (Retained \cap terminal), i \in Registered :
       /\ scan \subseteq found /\ sessions[i] \in found
       /\ \A s \in found : terminalAt[sessions[i]] <= terminalAt[s]
       /\ sessions' = [sessions EXCEPT ![i] = None]
       /\ scan' = Retained' \cap terminal
  /\ UNCHANGED <<clock, mu, busy, sessionVars, requestVars>>

(* Mutant: no room is made. *)
Create_Anyway(r) ==
  /\ pc[r] = "room"
  /\ sessions' = [sessions EXCEPT ![id[r]] = r]
  /\ session' = [session EXCEPT ![r] = r]
  /\ pc' = [pc EXCEPT ![r] = "got"]
  /\ mu' = None /\ scan' = {}
  /\ UNCHANGED <<clock, busy, sessionVars, id, now>>
(* There is room, or the round found nothing terminal: the session is       *)
(* created in any case.                                                     *)
Create(r) ==
  /\ pc[r] = "room"
  /\ Cardinality(Registered) < MaxSessions \/ scan = {}
  /\ sessions' = [sessions EXCEPT ![id[r]] = r]
  /\ session' = [session EXCEPT ![r] = r]
  /\ pc' = [pc EXCEPT ![r] = "got"]
  /\ mu' = None /\ scan' = {}
  /\ UNCHANGED <<clock, busy, sessionVars, id, now>>

(* Mutant: a session that has ended is started all the same.                *)
Start_Ended(r) ==
  /\ pc[r] = "got" /\ r \in RunRequests
  /\ started' = started \cup {session[r]}
  /\ pc' \in {[pc EXCEPT ![r] = "gone"], [pc EXCEPT ![r] = "streaming"]}
  /\ UNCHANGED <<clock, tableVars, terminal, terminalAt, id, now, session>>
(* agentSession.start. BidiAppend is over then, as is a run that was        *)
(* refused: another one was started, or the session ended before it was.    *)
Start(r) ==
  /\ pc[r] = "got" /\ r \in RunRequests
  /\ started' = IF session[r] \in terminal THEN started ELSE started \cup {session[r]}
  /\ \/ pc' = [pc EXCEPT ![r] = "gone"]
     \/ session[r] \in started' /\ pc' = [pc EXCEPT ![r] = "streaming"]
  /\ UNCHANGED <<clock, tableVars, terminal, terminalAt, id, now, session>>

(* serveRunSSE *)
Stream(r) ==
  /\ pc[r] = "got" /\ r \in StreamRequests
  /\ pc' = [pc EXCEPT ![r] = "streaming"]
  /\ UNCHANGED <<clock, tableVars, sessionVars, id, now, session>>

(* The client goes away, or the stream ends with the session. *)
Leave(r) ==
  /\ pc[r] = "streaming"
  /\ pc' = [pc EXCEPT ![r] = "gone"]
  /\ UNCHANGED <<clock, tableVars, sessionVars, id, now, session>>

(* finish: of a run, whatever ended it, or by the start timer of a RunSSE   *)
(* stream whose run was not appended.                                       *)
Finish(s) ==
  /\ s \in Unfinished
  /\ s \in started \/ \E r \in StreamRequests : pc[r] = "streaming" /\ session[r] = s
  /\ terminal' = terminal \cup {s}
  /\ terminalAt' = [terminalAt EXCEPT ![s] = clock]
  /\ UNCHANGED <<clock, tableVars, started, requestVars>>

(* applyDetachedToolResult looks for the session among the retained ones.   *)
Detached ==
  /\ mu = None
  /\ sessions' = Pruned(clock)
  /\ UNCHANGED <<clock, mu, scan, busy, sessionVars, requestVars>>

Tick ==
  /\ clock < MaxClock
  /\ clock' = clock + 1
  /\ UNCHANGED <<tableVars, sessionVars, requestVars>>

Next ==
  \/ \E r \in Requests, i \in IDs : Arrive(r, i)
  \/ \E r \in Requests : Lookup(r) \/ Evict(r) \/ Create(r) \/ Start(r) \/ Stream(r) \/ Leave(r)
  \/ \E s \in Requests : Finish(s)
  \/ Detached
  \/ Tick

Spec == Init /\ [][Next]_vars

-----------------------------------------------------------------------------
(* docs/protocol.md:49, "active sessions are never evicted": whoever has an *)
(* unfinished session has the one its ID leads to, also while sessions end, *)
(* expire and make room. So two runs of one request ID never coexist, and   *)
(* no session is started after it was dropped (agent.go:494-541, 627-644).  *)
UnfinishedIsRegistered == \A s \in Unfinished : sessions[id[s]] = s

(* docs/protocol.md:44-49: a retry replays the session instead of running   *)
(* again. A session is dropped only after its retention, or because the     *)
(* table was full and it ended before all those that had ended when the     *)
(* search began; ones that end meanwhile may be missed (agent.go:513-541).  *)
DroppedForAReason ==
  [][\A i \in IDs : sessions[i] # None /\ sessions'[i] # sessions[i] =>
       /\ sessions[i] \in terminal
       /\ \/ clock >= terminalAt[sessions[i]] + Retention
          \/ /\ mu # None /\ Cardinality(Registered) >= MaxSessions
             /\ \A s \in scan : terminalAt[sessions[i]] <= terminalAt[s]]_vars

(* docs/protocol.md:44-49: a retry joins the run there is or replays it. A  *)
(* session is only started while its ID leads to it; whatever ran under     *)
(* that ID before has ended and was dropped (agent.go:494-511, 627-644).    *)
RetryRunsNothing ==
  [][\A s \in started' \ started :
       /\ sessions[id[s]] = s
       /\ \A other \in started : id[other] = id[s] => other \in terminal /\ other \notin Retained]_vars

(* A full table admits a session when nothing in it has ended, and comes    *)
(* back within its cap with the first session created after some have: once *)
(* a request has got its session, the table is within the cap, or all that  *)
(* it holds but the newest had not ended when that one's request looked     *)
(* (agent.go:522-541). What ends later stays until a session is created or  *)
(* it expires: see TerminalSessionsAreCapped.                               *)
TableIsBounded ==
  mu = None =>
    Cardinality(Registered) <= MaxSessions \/ Cardinality(Registered) <= Cardinality(busy) + 1

(* docs/protocol.md:48-49: "Terminal replay sessions are retained for five  *)
(* minutes and capped at 1024". But a session that ends makes no room: of a *)
(* table that went over its bound while nothing in it had ended, all may    *)
(* end, and stay (agent.go:513-541).                                        *)
TerminalSessionsAreCapped == Cardinality(Retained \cap terminal) <= MaxSessions
=============================================================================
