------------------------ MODULE DaemonLifecycleProofs ------------------------
(***************************************************************************)
(* Proofs about DaemonLifecycle, for any number of wrappers, stop commands *)
(* and daemon processes.                                                   *)
(***************************************************************************)
EXTENDS DaemonLifecycle, TLAPS

(* A daemon that lives has the lock, through its own description or that of *)
(* the wrapper that started it and no other daemon.                         *)
LockInv ==
  \A d \in Daemons : phase[d] # "none" =>
    /\ ofd[d] = d \/ (ofd[d] \in Wrappers /\ child[ofd[d]] = d)
    /\ Alive(d) => lock = ofd[d] /\ d \in refs[ofd[d]]

(* Who is about to change something holds the lock; a wrapper that is about *)
(* to unlock has no living child.                                           *)
ClientInv ==
  /\ \A w \in Wrappers :
       /\ child[w] # None => ofd[child[w]] = w /\ phase[child[w]] # "none"
       /\ pc[w] \in {"load", "probe", "shutdown", "wait", "trylock", "recheck", "clear", "start"}
            => child[w] = None
       /\ pc[w] = "await" => child[w] # None
       /\ pc[w] \notin {"check", "signal", "poll", "stale", "compare", "remove", "stopped"}
       /\ pc[w] \in {"release", "unlock"} => child[w] = None \/ phase[child[w]] = "gone"
  /\ \A c \in Clients :
       pc[c] \in {"recheck", "clear", "start", "compare", "remove"} => lock = c

(* Only daemons that have published themselves are known to anybody, and    *)
(* only those that are gone are cleaned up after.                           *)
Published == {"ready", "closing", "unlocking", "gone"}
StateInv ==
  /\ stateFile # None => phase[stateFile] \in Published
  /\ \A c \in Clients : loaded[c] # None => phase[loaded[c]] \in Published
  /\ \A c \in Clients : pc[c] \in {"probe", "shutdown", "check", "signal", "poll"} => loaded[c] # None
  /\ \A s \in Stoppers :
       pc[s] \in {"stale", "compare", "remove", "unlock"} => loaded[s] # None /\ phase[loaded[s]] = "gone"

IInv == TypeOK /\ LockInv /\ ClientInv /\ StateInv /\ ReadyIsPublished /\ StoppedMeansStopped

LEMMA Distinct ==
  /\ \A d \in Daemons : d # None /\ d \notin Clients /\ d \notin Wrappers /\ d \notin Stoppers
  /\ \A c \in Clients : c # None
  /\ \A w \in Wrappers : w \notin Stoppers /\ w \in Clients
  /\ \A s \in Stoppers : s \notin Wrappers /\ s \in Clients
  /\ None \notin Processes
  /\ Daemons \subseteq Processes /\ Clients \subseteq Processes
  BY DaemonAssumption DEF DaemonAssumption, Processes, Clients

(* Two daemons that live would have the same description of the lock.       *)
LEMMA LivesAlone ==
  ASSUME IInv
  PROVE  /\ SingleService
         /\ HolderIsAlone
         /\ lock = None => \A d \in Daemons : ~Alive(d)
<1>1. SingleService
  <2> SUFFICES ASSUME NEW d \in Daemons, NEW e \in Daemons, Alive(d), Alive(e) PROVE d = e
    BY DEF SingleService
  <2>1. phase[d] # "none" /\ phase[e] # "none" /\ ofd[d] = lock /\ ofd[e] = lock
    BY DEF IInv, LockInv, Alive
  <2>2. /\ ofd[d] = d \/ (ofd[d] \in Wrappers /\ child[ofd[d]] = d)
        /\ ofd[e] = e \/ (ofd[e] \in Wrappers /\ child[ofd[e]] = e)
    BY <2>1 DEF IInv, LockInv
  <2> QED BY <2>1, <2>2, Distinct
<1>2. HolderIsAlone
  <2> SUFFICES ASSUME NEW c \in Clients, NEW d \in Daemons, Alive(d),
                      pc[c] \in {"recheck", "clear", "start", "compare", "remove"}
               PROVE  FALSE
    BY DEF HolderIsAlone, Alive, IInv, TypeOK
  <2>1. lock = c /\ ofd[d] = c /\ phase[d] # "none"
    BY DEF IInv, ClientInv, LockInv, Alive
  <2>2. c \in Wrappers /\ child[c] = d
    BY <2>1, Distinct DEF IInv, LockInv
  <2>3. CASE pc[c] \in {"recheck", "clear", "start"}
    BY <2>2, <2>3, Distinct DEF IInv, ClientInv
  <2>4. CASE pc[c] \in {"compare", "remove"}
    BY <2>1, <2>2, <2>4, Distinct DEF IInv, ClientInv, LockInv
  <2> QED BY <2>3, <2>4
<1>3. lock = None => \A d \in Daemons : ~Alive(d)
  BY Distinct DEF IInv, LockInv, Alive, TypeOK
<1> QED BY <1>1, <1>2, <1>3

LEMMA InitIInv == Init => IInv
<1> SUFFICES ASSUME Init PROVE IInv
  OBVIOUS
<1>1. TypeOK
  <2>1. refs \in [Processes -> SUBSET {p \in Processes : p \in Daemons => Alive(p)}]
    BY DEF Init
  <2>2. phase \in [Daemons -> Phases] /\ ofd \in [Daemons -> Processes \cup {None}]
    BY DEF Init, Phases
  <2> QED BY <2>1, <2>2 DEF Init, TypeOK
<1>2. LockInv /\ ClientInv /\ StateInv /\ ReadyIsPublished /\ StoppedMeansStopped
  BY Distinct DEF Init, LockInv, ClientInv, StateInv, ReadyIsPublished, StoppedMeansStopped
<1> QED BY <1>1, <1>2 DEF IInv

-----------------------------------------------------------------------------
(* A step of one client that leaves the lock, the state file and the        *)
(* daemons alone.                                                           *)
LEMMA ClientMoves ==
  ASSUME IInv, NEW c \in Clients, NEW p, pc' = [pc EXCEPT ![c] = p], TypeOK',
         UNCHANGED <<lockVars, stateFile, phase, ofd, child>>,
         \A b \in Clients \ {c} : loaded'[b] = loaded[b],
         loaded'[c] = loaded[c] \/ loaded'[c] = stateFile,
         p \in {"recheck", "clear", "start", "compare", "remove"} => lock = c,
         p \in {"probe", "shutdown", "check", "signal", "poll"} => loaded'[c] # None,
         c \in Wrappers =>
           /\ p \in {"load", "probe", "shutdown", "wait", "trylock", "recheck", "clear", "start"}
                => child[c] = None
           /\ p = "await" => child[c] # None
           /\ p \in {"release", "unlock"} => child[c] = None \/ phase[child[c]] = "gone"
           /\ p \notin {"check", "signal", "poll", "stale", "compare", "remove", "stopped"},
         c \in Stoppers =>
           /\ p \in {"stale", "compare", "remove", "unlock"} =>
                loaded'[c] # None /\ phase[loaded'[c]] = "gone"
           /\ p = "stopped" /\ loaded'[c] # None => ~Healthy(loaded'[c])
  PROVE  IInv'
<1>1. LockInv'
  BY DEF IInv, LockInv, Alive, lockVars
<1>2. pc'[c] = p /\ \A b \in Clients \ {c} : pc'[b] = pc[b]
  BY DEF IInv, TypeOK
<1>3. ClientInv'
  BY <1>2, Distinct DEF IInv, ClientInv, lockVars
<1>4. StateInv'
  BY <1>2, Distinct DEF IInv, StateInv, lockVars
<1>5. ReadyIsPublished'
  BY DEF IInv, ReadyIsPublished
<1>6. StoppedMeansStopped'
  BY <1>2, Distinct DEF IInv, StoppedMeansStopped, Healthy
<1> QED BY <1>1, <1>3, <1>4, <1>5, <1>6 DEF IInv

LEMMA EnsureMoves ==
  ASSUME IInv, NEW w \in Wrappers,
         EnsureLoad(w) \/ EnsureProbe(w) \/ EnsureShutdown(w) \/ EnsureWait(w) \/ EnsureRecheck(w)
  PROVE  IInv'
<1> USE DEF Goto, daemonVars
<1>0. w \in Clients
  BY Distinct
<1>1. CASE EnsureLoad(w)
  <2>1. TypeOK'
    BY <1>0, <1>1 DEF EnsureLoad, IInv, TypeOK, lockVars, Alive
  <2>2. PICK p \in {"trylock", "probe"} :
          pc' = [pc EXCEPT ![w] = p] /\ (p = "probe" => stateFile # None)
    BY <1>1 DEF EnsureLoad
  <2>3. loaded'[w] = stateFile /\ \A b \in Clients \ {w} : loaded'[b] = loaded[b]
    BY <1>0, <1>1 DEF EnsureLoad, IInv, TypeOK
  <2>4. child[w] = None
    BY <1>1 DEF EnsureLoad, IInv, ClientInv
  <2> QED BY <1>0, <1>1, <2>1, <2>2, <2>3, <2>4, Distinct, ClientMoves DEF EnsureLoad
<1>2. CASE EnsureProbe(w)
  <2>1. PICK p \in {"trylock", "ok", "wait", "shutdown"} : pc' = [pc EXCEPT ![w] = p]
    BY <1>2 DEF EnsureProbe
  <2>2. TypeOK'
    BY <1>0, <1>2, <2>1 DEF EnsureProbe, IInv, TypeOK, lockVars, Alive
  <2>3. child[w] = None /\ loaded[w] # None
    BY <1>0, <1>2 DEF EnsureProbe, IInv, ClientInv, StateInv
  <2> QED BY <1>0, <1>2, <2>1, <2>2, <2>3, Distinct, ClientMoves DEF EnsureProbe
<1>3. CASE EnsureShutdown(w)
  <2>1. PICK p \in {"wait", "refused"} : pc' = [pc EXCEPT ![w] = p]
    BY <1>3 DEF EnsureShutdown
  <2>2. child[w] = None /\ loaded[w] \in Daemons
    BY <1>0, <1>3 DEF EnsureShutdown, IInv, ClientInv, StateInv, TypeOK
  <2>3. TypeOK'
    BY <1>0, <1>3, <2>1, <2>2 DEF EnsureShutdown, IInv, TypeOK, lockVars, Alive
  <2> QED BY <1>0, <1>3, <2>1, <2>2, <2>3, Distinct, ClientMoves DEF EnsureShutdown
<1>4. CASE EnsureWait(w)
  <2>1. PICK p \in {"load", "failed"} : pc' = [pc EXCEPT ![w] = p]
    BY <1>4 DEF EnsureWait
  <2>2. child[w] = None
    BY <1>4 DEF EnsureWait, IInv, ClientInv
  <2>3. TypeOK'
    BY <1>0, <1>4, <2>1 DEF EnsureWait, IInv, TypeOK, lockVars, Alive
  <2> QED BY <1>0, <1>4, <2>1, <2>2, <2>3, Distinct, ClientMoves DEF EnsureWait
<1>5. CASE EnsureRecheck(w)
  <2>1. PICK p \in {"clear", "release", "unlock"} : pc' = [pc EXCEPT ![w] = p]
    BY <1>5 DEF EnsureRecheck
  <2>2. child[w] = None /\ lock = w
    BY <1>0, <1>5 DEF EnsureRecheck, IInv, ClientInv
  <2>3. TypeOK'
    BY <1>0, <1>5, <2>1 DEF EnsureRecheck, IInv, TypeOK, lockVars, Alive
  <2> QED BY <1>0, <1>5, <2>1, <2>2, <2>3, Distinct, ClientMoves DEF EnsureRecheck
<1> QED BY <1>1, <1>2, <1>3, <1>4, <1>5

LEMMA StopMoves ==
  ASSUME IInv, NEW s \in Stoppers,
         StopLoad(s) \/ StopCheck(s) \/ StopSignal(s) \/ StopPoll(s) \/ StaleCompare(s)
  PROVE  IInv'
<1> USE DEF Goto, daemonVars
<1>0. s \in Clients /\ s \notin Wrappers
  BY Distinct
<1>1. CASE StopLoad(s)
  <2>1. TypeOK'
    BY <1>0, <1>1 DEF StopLoad, IInv, TypeOK, lockVars, Alive
  <2>2. PICK p \in {"stopped", "check"} :
          pc' = [pc EXCEPT ![s] = p] /\ (p = "stopped" <=> stateFile = None)
    BY <1>1 DEF StopLoad
  <2>3. loaded'[s] = stateFile /\ \A b \in Clients \ {s} : loaded'[b] = loaded[b]
    BY <1>0, <1>1 DEF StopLoad, IInv, TypeOK
  <2> QED BY <1>0, <1>1, <2>1, <2>2, <2>3, ClientMoves DEF StopLoad
<1>2. CASE StopCheck(s)
  <2>1. PICK p \in {"stale", "signal", "failed"} :
          pc' = [pc EXCEPT ![s] = p] /\ (p = "stale" => ~Alive(loaded[s]))
    BY <1>2 DEF StopCheck
  <2>2. TypeOK'
    BY <1>0, <1>2, <2>1 DEF StopCheck, IInv, TypeOK, lockVars, Alive
  <2>3. loaded[s] # None /\ phase[loaded[s]] \in Published
    BY <1>0, <1>2 DEF StopCheck, IInv, StateInv
  <2>4. p = "stale" => phase[loaded[s]] = "gone"
    BY <2>1, <2>3 DEF Alive, Published
  <2> QED BY <1>0, <1>2, <2>1, <2>2, <2>3, <2>4, ClientMoves DEF StopCheck
<1>3. CASE StopSignal(s)
  <2>1. loaded[s] \in Daemons /\ loaded[s] # None
    BY <1>0, <1>3 DEF StopSignal, IInv, StateInv, TypeOK
  <2>2. TypeOK'
    BY <1>0, <1>3, <2>1 DEF StopSignal, IInv, TypeOK, lockVars, Alive
  <2> QED BY <1>0, <1>3, <2>1, <2>2, ClientMoves DEF StopSignal
<1>4. CASE StopPoll(s)
  <2>1. PICK p \in {"stopped", "stale", "failed"} :
          /\ pc' = [pc EXCEPT ![s] = p]
          /\ p = "stale" => ~Alive(loaded[s])
          /\ p = "stopped" => stateFile # loaded[s]
    BY <1>4 DEF StopPoll
  <2>2. TypeOK'
    BY <1>0, <1>4, <2>1 DEF StopPoll, IInv, TypeOK, lockVars, Alive
  <2>3. loaded[s] # None /\ phase[loaded[s]] \in Published /\ loaded[s] \in Daemons
    BY <1>0, <1>4 DEF StopPoll, IInv, StateInv, TypeOK
  <2>4. p = "stale" => phase[loaded[s]] = "gone"
    BY <2>1, <2>3 DEF Alive, Published
  <2>5. p = "stopped" => ~Healthy(loaded[s])
    BY <2>1, <2>3 DEF Healthy, Published, IInv, ReadyIsPublished
  <2> QED BY <1>0, <1>4, <2>1, <2>2, <2>3, <2>4, <2>5, ClientMoves DEF StopPoll
<1>5. CASE StaleCompare(s)
  <2>1. PICK p \in {"remove", "unlock"} : pc' = [pc EXCEPT ![s] = p]
    BY <1>5 DEF StaleCompare
  <2>2. TypeOK'
    BY <1>0, <1>5, <2>1 DEF StaleCompare, IInv, TypeOK, lockVars, Alive
  <2>3. lock = s /\ loaded[s] # None /\ phase[loaded[s]] = "gone"
    BY <1>0, <1>5 DEF StaleCompare, IInv, ClientInv, StateInv
  <2> QED BY <1>0, <1>5, <2>1, <2>2, <2>3, ClientMoves DEF StaleCompare
<1> QED BY <1>1, <1>2, <1>3, <1>4, <1>5

-----------------------------------------------------------------------------
(* A step of one client that may take or drop the lock, and may clear the   *)
(* state file if no daemon lives.                                           *)
LEMMA ClientLocks ==
  ASSUME IInv, NEW c \in Clients, NEW p, pc' = [pc EXCEPT ![c] = p], TypeOK',
         UNCHANGED <<phase, ofd, child, loaded>>,
         stateFile' = stateFile \/ (stateFile' = None /\ \A d \in Daemons : ~Alive(d)),
         \A d \in Daemons : Alive(d) => lock' = lock /\ d \in refs'[ofd[d]],
         \A b \in Clients \ {c} : lock = b => lock' = b,
         p \in {"recheck", "clear", "start", "compare", "remove"} => lock' = c,
         p \notin {"probe", "shutdown", "check", "signal", "poll"},
         c \in Wrappers =>
           /\ p \in {"load", "wait", "trylock", "recheck", "clear", "start"} => child[c] = None
           /\ p \notin {"await", "release", "unlock", "stale", "compare", "remove", "stopped"},
         c \in Stoppers =>
           /\ p \in {"stale", "compare", "remove", "unlock"} =>
                loaded[c] # None /\ phase[loaded[c]] = "gone"
           /\ p = "stopped" /\ loaded[c] # None => ~Healthy(loaded[c])
  PROVE  IInv'
<1>2. pc'[c] = p /\ \A b \in Clients \ {c} : pc'[b] = pc[b]
  BY DEF IInv, TypeOK
<1>1. LockInv'
  BY DEF IInv, LockInv, Alive
<1>3. ClientInv'
  BY <1>2, Distinct DEF IInv, ClientInv
<1>4. StateInv'
  BY <1>2, Distinct DEF IInv, StateInv
<1>5. ReadyIsPublished'
  BY DEF IInv, ReadyIsPublished, Alive
<1>6. StoppedMeansStopped'
  BY <1>2, Distinct DEF IInv, StoppedMeansStopped, Healthy
<1> QED BY <1>1, <1>3, <1>4, <1>5, <1>6 DEF IInv

(* A living daemon moves on, and may write or remove the state file.        *)
LEMMA DaemonMoves ==
  ASSUME IInv, NEW d \in Daemons, Alive(d), NEW p \in Phases \ {"none", "gone"},
         phase' = [phase EXCEPT ![d] = p], TypeOK',
         UNCHANGED <<lockVars, ofd, clientVars>>,
         stateFile' \in {stateFile, None, d},
         phase[d] \in Published => p \in Published,
         stateFile' = d => p \in Published,
         p = "ready" => stateFile' = d,
         p \in {"listening", "ready"} => phase[d] \notin Published
  PROVE  IInv'
<1> USE DEF lockVars, clientVars
<1>0. /\ phase'[d] = p /\ phase[d] \notin {"none", "gone"}
      /\ \A e \in Daemons \ {d} : phase'[e] = phase[e] /\ ~Alive(e)
      /\ \A e \in Daemons \ {d} : phase[e] \in {"none", "gone"}
  BY LivesAlone DEF IInv, TypeOK, SingleService, Alive
<1>1. LockInv'
  BY <1>0 DEF IInv, LockInv, Alive
<1>2. ClientInv'
  BY <1>0, Distinct DEF IInv, TypeOK, ClientInv
<1>3. StateInv'
  <2>1. stateFile' # None => phase'[stateFile'] \in Published
    BY <1>0 DEF IInv, TypeOK, StateInv
  <2>2. \A c \in Clients : loaded[c] # None => phase'[loaded[c]] \in Published
    BY <1>0 DEF IInv, TypeOK, StateInv
  <2>3. \A s \in Stoppers :
          pc[s] \in {"stale", "compare", "remove", "unlock"} => loaded[s] # None /\ phase'[loaded[s]] = "gone"
    BY <1>0, Distinct DEF IInv, TypeOK, StateInv
  <2> QED BY <2>1, <2>2, <2>3 DEF IInv, StateInv
<1>4. ReadyIsPublished'
  BY <1>0 DEF IInv, ReadyIsPublished
<1>5. StoppedMeansStopped'
  <2> SUFFICES ASSUME NEW s \in Stoppers, pc[s] = "stopped", loaded[s] # None
               PROVE  phase'[loaded[s]] \notin {"listening", "ready"}
    BY DEF StoppedMeansStopped, Healthy
  <2>1. loaded[s] \in Daemons /\ phase[loaded[s]] \in Published
    BY Distinct DEF IInv, TypeOK, StateInv
  <2> QED BY <1>0, <2>1
<1> QED BY <1>1, <1>2, <1>3, <1>4, <1>5 DEF IInv

(* A living daemon dies, killed perhaps by the wrapper that waits for it.   *)
LEMMA DaemonDies ==
  ASSUME IInv, NEW d \in Daemons, Alive(d), phase' = [phase EXCEPT ![d] = "gone"], TypeOK',
         UNCHANGED <<stateFile, ofd, loaded, child>>,
         \/ pc' = pc
         \/ \E w \in Wrappers : child[w] = d /\ pc' = [pc EXCEPT ![w] = "unlock"]
  PROVE  IInv'
<1>0. /\ phase'[d] = "gone" /\ phase[d] \notin {"none", "gone"} /\ d # None
      /\ \A e \in Daemons \ {d} : phase'[e] = phase[e] /\ phase[e] \in {"none", "gone"}
  BY LivesAlone, Distinct DEF IInv, TypeOK, SingleService, Alive
<1>1. LockInv'
  BY <1>0 DEF IInv, LockInv, Alive
<1>2. \A c \in Clients :
        \/ pc'[c] = pc[c]
        \/ pc'[c] = "unlock" /\ c \in Wrappers /\ child[c] = d
  BY DEF IInv, TypeOK
<1>3. \A c \in Clients : pc[c] \notin {"recheck", "clear", "start", "compare", "remove"}
  BY LivesAlone, <1>0 DEF HolderIsAlone
<1>4. ClientInv'
  <2>1. \A c \in Clients : pc'[c] \notin {"recheck", "clear", "start", "compare", "remove"}
    BY <1>2, <1>3
  <2>2. ASSUME NEW w \in Wrappers
        PROVE  /\ child[w] # None => ofd[child[w]] = w /\ phase'[child[w]] # "none"
               /\ pc'[w] \in {"load", "probe", "shutdown", "wait", "trylock", "recheck", "clear", "start"}
                    => child[w] = None
               /\ pc'[w] = "await" => child[w] # None
               /\ pc'[w] \notin {"check", "signal", "poll", "stale", "compare", "remove", "stopped"}
               /\ pc'[w] \in {"release", "unlock"} => child[w] = None \/ phase'[child[w]] = "gone"
    <3>1. w \in Clients /\ child[w] \in Daemons \cup {None}
      BY Distinct DEF IInv, TypeOK
    <3>2. child[w] # None => phase'[child[w]] \in {phase[child[w]], "gone"}
      BY <1>0, <3>1
    <3> QED BY <1>0, <1>2, <3>1, <3>2 DEF IInv, ClientInv
  <2> QED BY <2>1, <2>2 DEF ClientInv
<1>5. StateInv'
  <2>1. \A e \in Daemons : phase[e] \in Published => phase'[e] \in Published
    BY <1>0 DEF Published
  <2>2. /\ stateFile # None => phase'[stateFile] \in Published
        /\ \A c \in Clients : loaded[c] # None => phase'[loaded[c]] \in Published
    BY <2>1 DEF IInv, TypeOK, StateInv
  <2>3. \A c \in Clients : pc'[c] \in {"probe", "shutdown", "check", "signal", "poll"} => loaded[c] # None
    BY <1>2 DEF IInv, StateInv
  <2>4. \A s \in Stoppers :
          pc'[s] \in {"stale", "compare", "remove", "unlock"} => loaded[s] # None /\ phase'[loaded[s]] = "gone"
    BY <1>0, <1>2, Distinct DEF IInv, TypeOK, StateInv
  <2> QED BY <2>2, <2>3, <2>4 DEF StateInv
<1>6. ReadyIsPublished'
  BY <1>0 DEF IInv, ReadyIsPublished
<1>7. StoppedMeansStopped'
  BY <1>0, <1>2, Distinct DEF IInv, TypeOK, StoppedMeansStopped, Healthy
<1> QED BY <1>1, <1>4, <1>5, <1>6, <1>7 DEF IInv

-----------------------------------------------------------------------------
(* Closing a file frees the lock only if nobody lives who has it open.      *)
LEMMA ClosingIsSafe ==
  ASSUME IInv, NEW c \in Clients, CloseFile(c, c), UNCHANGED <<phase, ofd>>
  PROVE  /\ \A d \in Daemons : Alive(d) => lock' = lock /\ d \in refs'[ofd[d]]
         /\ \A b \in Clients \ {c} : lock = b => lock' = b
         /\ lock' \in Processes \cup {None}
         /\ refs' \in [Processes -> SUBSET {p \in Processes : p \in Daemons => Alive(p)}]
<1>1. c \in Processes /\ \A d \in Daemons : d # c
  BY Distinct
<1>2. refs'[c] = refs[c] \ {c} /\ \A f \in Processes \ {c} : refs'[f] = refs[f]
  BY <1>1 DEF CloseFile, IInv, TypeOK
<1>3. \A d \in Daemons : Alive(d) => lock = ofd[d] /\ d \in refs[ofd[d]] /\ ofd[d] \in Processes
  BY Distinct DEF IInv, LockInv, Alive
<1>4. \A d \in Daemons : Alive(d) => d \in refs'[ofd[d]]
  BY <1>1, <1>2, <1>3
<1>5. \A d \in Daemons : Alive(d) => lock' = lock
  BY <1>3, <1>4 DEF CloseFile
<1>6. refs' \in [Processes -> SUBSET {p \in Processes : p \in Daemons => Alive(p)}]
  BY <1>1 DEF CloseFile, IInv, TypeOK
<1> QED BY <1>4, <1>5, <1>6 DEF CloseFile, IInv, TypeOK

(* Unlocking is safe if the client has no child that lives.                 *)
LEMMA UnlockingIsSafe ==
  ASSUME IInv, NEW c \in Clients, Unlock(c, c), UNCHANGED <<phase, ofd>>,
         c \in Wrappers => child[c] = None \/ phase[child[c]] = "gone"
  PROVE  /\ \A d \in Daemons : Alive(d) => lock' = lock /\ d \in refs'[ofd[d]]
         /\ \A b \in Clients \ {c} : lock = b => lock' = b
         /\ lock' \in Processes \cup {None}
         /\ refs' \in [Processes -> SUBSET {p \in Processes : p \in Daemons => Alive(p)}]
<1>1. c \in Processes /\ \A d \in Daemons : d # c
  BY Distinct
<1>2. ASSUME NEW d \in Daemons, Alive(d) PROVE lock = ofd[d] /\ d \in refs[ofd[d]] /\ ofd[d] # c
  <2>1. /\ lock = ofd[d] /\ d \in refs[ofd[d]]
        /\ ofd[d] = d \/ (ofd[d] \in Wrappers /\ child[ofd[d]] = d)
    BY <1>2 DEF IInv, LockInv, Alive
  <2> QED BY <1>1, <1>2, <2>1, Distinct DEF Alive
<1>3. \A d \in Daemons : Alive(d) => lock' = lock /\ d \in refs'[ofd[d]]
  BY <1>1, <1>2 DEF Unlock, IInv, TypeOK
<1>4. refs' \in [Processes -> SUBSET {p \in Processes : p \in Daemons => Alive(p)}]
  BY <1>1 DEF Unlock, IInv, TypeOK
<1> QED BY <1>3, <1>4 DEF Unlock, IInv, TypeOK

LEMMA AcquiringIsSafe ==
  ASSUME IInv, NEW c \in Clients, Acquire(c), UNCHANGED <<phase, ofd>>
  PROVE  /\ \A d \in Daemons : ~Alive(d)
         /\ \A b \in Clients \ {c} : lock # b
         /\ lock' = c /\ c \in Processes
         /\ refs' \in [Processes -> SUBSET {p \in Processes : p \in Daemons => Alive(p)}]
<1>1. lock = None /\ c \in Processes /\ \A d \in Daemons : d # c
  BY Distinct DEF Acquire
<1>2. \A b \in Clients \ {c} : lock # b
  BY <1>1, Distinct
<1>3. refs' \in [Processes -> SUBSET {p \in Processes : p \in Daemons => Alive(p)}]
  BY <1>1 DEF Acquire, IInv, TypeOK
<1> QED BY <1>1, <1>2, <1>3, LivesAlone DEF Acquire

LEMMA EnsureLocks ==
  ASSUME IInv, NEW w \in Wrappers,
         EnsureTryLock(w) \/ EnsureClear(w) \/ EnsureAwait(w) \/ EnsureUnlock(w)
  PROVE  IInv'
<1> USE DEF Goto, daemonVars, lockVars
<1>0. w \in Clients /\ w \notin Stoppers
  BY Distinct
<1>1. CASE EnsureTryLock(w)
  <2>0. child[w] = None
    BY <1>1 DEF EnsureTryLock, IInv, ClientInv
  <2>1. CASE Acquire(w) /\ pc' = [pc EXCEPT ![w] = "recheck"]
    <3>1. /\ \A d \in Daemons : ~Alive(d)
          /\ \A b \in Clients \ {w} : lock # b
          /\ lock' = w /\ w \in Processes
          /\ refs' \in [Processes -> SUBSET {p \in Processes : p \in Daemons => Alive(p)}]
      BY <1>0, <1>1, <2>1, AcquiringIsSafe DEF EnsureTryLock
    <3>2. TypeOK'
      BY <1>0, <1>1, <2>1, <3>1 DEF EnsureTryLock, IInv, TypeOK, Alive
    <3> QED BY <1>0, <1>1, <2>0, <2>1, <3>1, <3>2, ClientLocks DEF EnsureTryLock
  <2>2. CASE UNCHANGED lockVars /\ pc' = [pc EXCEPT ![w] = "wait"]
    <3>1. TypeOK'
      BY <1>0, <1>1, <2>2 DEF EnsureTryLock, IInv, TypeOK, Alive
    <3> QED BY <1>0, <1>1, <2>0, <2>2, <3>1, ClientMoves DEF EnsureTryLock
  <2> QED BY <1>1, <2>1, <2>2 DEF EnsureTryLock
<1>2. CASE EnsureClear(w)
  <2>1. child[w] = None /\ lock = w
    BY <1>0, <1>2 DEF EnsureClear, IInv, ClientInv
  <2>2. \A d \in Daemons : ~Alive(d)
    BY <1>0, <1>2, LivesAlone DEF EnsureClear, HolderIsAlone, Alive
  <2>3. TypeOK'
    BY <1>0, <1>2 DEF EnsureClear, IInv, TypeOK, Alive
  <2> QED BY <1>0, <1>2, <2>1, <2>2, <2>3, ClientLocks DEF EnsureClear
<1>3. CASE EnsureAwait(w)
  <2>1. CloseFile(w, w) /\ UNCHANGED <<phase, ofd>> /\ pc' = [pc EXCEPT ![w] = "ok"]
    BY <1>3 DEF EnsureAwait
  <2>2. /\ \A d \in Daemons : Alive(d) => lock' = lock /\ d \in refs'[ofd[d]]
        /\ \A b \in Clients \ {w} : lock = b => lock' = b
        /\ lock' \in Processes \cup {None}
        /\ refs' \in [Processes -> SUBSET {p \in Processes : p \in Daemons => Alive(p)}]
    BY <1>0, <2>1, ClosingIsSafe
  <2>3. TypeOK'
    BY <1>0, <1>3, <2>1, <2>2 DEF EnsureAwait, IInv, TypeOK, Alive
  <2> QED BY <1>0, <1>3, <2>1, <2>2, <2>3, ClientLocks DEF EnsureAwait
<1>4. CASE EnsureUnlock(w)
  <2>1. PICK p \in {"ok", "failed"} : pc' = [pc EXCEPT ![w] = p]
    BY <1>4 DEF EnsureUnlock
  <2>2. Unlock(w, w) /\ UNCHANGED <<phase, ofd>> /\ (child[w] = None \/ phase[child[w]] = "gone")
    BY <1>4 DEF EnsureUnlock, IInv, ClientInv
  <2>3. /\ \A d \in Daemons : Alive(d) => lock' = lock /\ d \in refs'[ofd[d]]
        /\ \A b \in Clients \ {w} : lock = b => lock' = b
        /\ lock' \in Processes \cup {None}
        /\ refs' \in [Processes -> SUBSET {q \in Processes : q \in Daemons => Alive(q)}]
    BY <1>0, <2>2, UnlockingIsSafe
  <2>4. TypeOK'
    BY <1>0, <1>4, <2>1, <2>2, <2>3 DEF EnsureUnlock, IInv, TypeOK, Alive
  <2> QED BY <1>0, <1>4, <2>1, <2>2, <2>3, <2>4, ClientLocks DEF EnsureUnlock
<1> QED BY <1>1, <1>2, <1>3, <1>4

LEMMA StaleLocks ==
  ASSUME IInv, NEW s \in Stoppers, StaleLock(s) \/ StaleRemove(s) \/ StaleUnlock(s)
  PROVE  IInv'
<1> USE DEF Goto, daemonVars, lockVars
<1>0. s \in Clients /\ s \notin Wrappers
  BY Distinct
<1>1. loaded[s] # None /\ phase[loaded[s]] = "gone"
  BY DEF StaleLock, StaleRemove, StaleUnlock, IInv, StateInv
<1>2. CASE StaleLock(s)
  <2>1. CASE Acquire(s) /\ pc' = [pc EXCEPT ![s] = "compare"]
    <3>1. /\ \A d \in Daemons : ~Alive(d)
          /\ \A b \in Clients \ {s} : lock # b
          /\ lock' = s /\ s \in Processes
          /\ refs' \in [Processes -> SUBSET {p \in Processes : p \in Daemons => Alive(p)}]
      BY <1>0, <1>2, <2>1, AcquiringIsSafe DEF StaleLock
    <3>2. TypeOK'
      BY <1>0, <1>2, <2>1, <3>1 DEF StaleLock, IInv, TypeOK, Alive
    <3> QED BY <1>0, <1>1, <1>2, <2>1, <3>1, <3>2, ClientLocks DEF StaleLock
  <2>2. CASE UNCHANGED lockVars /\ pc' = [pc EXCEPT ![s] = "stopped"]
    <3>1. TypeOK'
      BY <1>0, <1>2, <2>2 DEF StaleLock, IInv, TypeOK, Alive
    <3> QED BY <1>0, <1>1, <1>2, <2>2, <3>1, ClientMoves DEF StaleLock, Healthy
  <2> QED BY <1>2, <2>1, <2>2 DEF StaleLock
<1>3. CASE StaleRemove(s)
  <2>1. \A d \in Daemons : ~Alive(d)
    BY <1>0, <1>3, LivesAlone DEF StaleRemove, HolderIsAlone, Alive
  <2>2. TypeOK'
    BY <1>0, <1>3 DEF StaleRemove, IInv, TypeOK, Alive
  <2>3. lock = s
    BY <1>0, <1>3 DEF StaleRemove, IInv, ClientInv
  <2> QED BY <1>0, <1>1, <1>3, <2>1, <2>2, <2>3, ClientLocks DEF StaleRemove
<1>4. CASE StaleUnlock(s)
  <2>1. Unlock(s, s) /\ UNCHANGED <<phase, ofd>> /\ pc' = [pc EXCEPT ![s] = "stopped"]
    BY <1>4 DEF StaleUnlock
  <2>2. /\ \A d \in Daemons : Alive(d) => lock' = lock /\ d \in refs'[ofd[d]]
        /\ \A b \in Clients \ {s} : lock = b => lock' = b
        /\ lock' \in Processes \cup {None}
        /\ refs' \in [Processes -> SUBSET {p \in Processes : p \in Daemons => Alive(p)}]
    BY <1>0, <2>1, UnlockingIsSafe
  <2>3. TypeOK'
    BY <1>0, <1>4, <2>1, <2>2 DEF StaleUnlock, IInv, TypeOK, Alive
  <2> QED BY <1>0, <1>1, <1>4, <2>1, <2>2, <2>3, ClientLocks DEF StaleUnlock, Healthy
<1> QED BY <1>2, <1>3, <1>4

LEMMA CrashClientKeeps ==
  ASSUME IInv, NEW c \in Clients, CrashClient(c) PROVE IInv'
<1> USE DEF Goto, daemonVars, lockVars
<1>1. CloseFile(c, c) /\ UNCHANGED <<phase, ofd>> /\ pc' = [pc EXCEPT ![c] = "gone"]
  BY DEF CrashClient
<1>2. /\ \A d \in Daemons : Alive(d) => lock' = lock /\ d \in refs'[ofd[d]]
      /\ \A b \in Clients \ {c} : lock = b => lock' = b
      /\ lock' \in Processes \cup {None}
      /\ refs' \in [Processes -> SUBSET {p \in Processes : p \in Daemons => Alive(p)}]
  BY <1>1, ClosingIsSafe
<1>3. TypeOK'
  BY <1>1, <1>2 DEF CrashClient, IInv, TypeOK, Alive
<1> QED BY <1>1, <1>2, <1>3, ClientLocks DEF CrashClient

-----------------------------------------------------------------------------
(* A daemon comes to life while no other lives. *)
LEMMA DaemonBegins ==
  ASSUME IInv, TypeOK', NEW d \in Daemons, NEW f \in Processes, NEW p \in {"spawned", "init"},
         phase[d] = "none", \A e \in Daemons : ~Alive(e),
         phase' = [phase EXCEPT ![d] = p], ofd' = [ofd EXCEPT ![d] = f],
         lock' = f, d \in refs'[f], UNCHANGED <<stateFile, loaded>>,
         \/ f = d /\ lock = None /\ UNCHANGED <<pc, child>>
         \/ /\ f \in Wrappers /\ lock = f /\ child[f] = None
            /\ child' = [child EXCEPT ![f] = d] /\ pc' = [pc EXCEPT ![f] = "await"]
  PROVE  IInv'
<1>0. /\ phase'[d] = p /\ ofd'[d] = f /\ d # None
      /\ \A e \in Daemons \ {d} : phase'[e] = phase[e] /\ ofd'[e] = ofd[e] /\ phase[e] \in {"none", "gone"}
  BY Distinct DEF IInv, TypeOK, Alive
<1>1. \A w \in Wrappers :
        \/ pc'[w] = pc[w] /\ child'[w] = child[w] /\ (child[w] # None => child[w] # d)
        \/ pc'[w] = "await" /\ child'[w] = d /\ f = w
  BY <1>0, Distinct DEF IInv, TypeOK, ClientInv
<1>2. \A c \in Clients : pc'[c] = pc[c] \/ (pc'[c] = "await" /\ c \in Wrappers)
  BY Distinct DEF IInv, TypeOK
<1>3. LockInv'
  <2> SUFFICES ASSUME NEW e \in Daemons, phase'[e] # "none"
               PROVE  /\ ofd'[e] = e \/ (ofd'[e] \in Wrappers /\ child'[ofd'[e]] = e)
                      /\ phase'[e] \notin {"none", "gone"} => lock' = ofd'[e] /\ e \in refs'[ofd'[e]]
    BY DEF LockInv, Alive
  <2>1. CASE e = d
    BY <1>0, <2>1 DEF IInv, TypeOK
  <2>2. CASE e # d
    <3>1. ofd[e] = e \/ (ofd[e] \in Wrappers /\ child[ofd[e]] = e)
      BY <1>0, <2>2 DEF IInv, LockInv
    <3>2. ofd[e] \in Wrappers /\ child[ofd[e]] = e => child'[ofd[e]] = e
      BY <1>1, Distinct DEF IInv, TypeOK
    <3> QED BY <1>0, <2>2, <3>1, <3>2
  <2> QED BY <2>1, <2>2
<1>4. ClientInv'
  <2>1. \A c \in Clients : pc'[c] \in {"recheck", "clear", "start", "compare", "remove"} => lock' = c
    BY <1>2, Distinct DEF IInv, ClientInv
  <2>2. ASSUME NEW w \in Wrappers
        PROVE  /\ child'[w] # None => ofd'[child'[w]] = w /\ phase'[child'[w]] # "none"
               /\ pc'[w] \in {"load", "probe", "shutdown", "wait", "trylock", "recheck", "clear", "start"}
                    => child'[w] = None
               /\ pc'[w] = "await" => child'[w] # None
               /\ pc'[w] \notin {"check", "signal", "poll", "stale", "compare", "remove", "stopped"}
               /\ pc'[w] \in {"release", "unlock"} => child'[w] = None \/ phase'[child'[w]] = "gone"
    <3>1. child[w] \in Daemons \cup {None}
      BY DEF IInv, TypeOK
    <3>2. CASE pc'[w] = pc[w] /\ child'[w] = child[w] /\ (child[w] # None => child[w] # d)
      BY <1>0, <3>1, <3>2 DEF IInv, ClientInv
    <3>3. CASE pc'[w] = "await" /\ child'[w] = d /\ f = w
      BY <1>0, <3>3
    <3> QED BY <1>1, <3>2, <3>3
  <2> QED BY <2>1, <2>2 DEF ClientInv
<1>5. StateInv'
  <2>1. \A e \in Daemons : phase[e] \in Published => phase'[e] = phase[e]
    BY <1>0 DEF Published
  <2>2. /\ stateFile # None => phase'[stateFile] \in Published
        /\ \A c \in Clients : loaded[c] # None => phase'[loaded[c]] \in Published
    BY <2>1 DEF IInv, TypeOK, StateInv
  <2>3. \A c \in Clients : pc'[c] \in {"probe", "shutdown", "check", "signal", "poll"} => loaded[c] # None
    BY <1>2 DEF IInv, StateInv
  <2>4. \A s \in Stoppers :
          pc'[s] \in {"stale", "compare", "remove", "unlock"} => loaded[s] # None /\ phase'[loaded[s]] = "gone"
    BY <2>1, <1>2, Distinct DEF IInv, TypeOK, StateInv
  <2> QED BY <2>2, <2>3, <2>4 DEF StateInv
<1>6. ReadyIsPublished'
  BY <1>0 DEF IInv, ReadyIsPublished
<1>7. StoppedMeansStopped'
  <2> SUFFICES ASSUME NEW s \in Stoppers, pc'[s] = "stopped", loaded[s] # None
               PROVE  phase'[loaded[s]] \notin {"listening", "ready"}
    BY DEF StoppedMeansStopped, Healthy
  <2>1. loaded[s] \in Daemons
    BY Distinct DEF IInv, TypeOK
  <2> QED BY <1>0, <2>1
<1> QED BY <1>3, <1>4, <1>5, <1>6, <1>7 DEF IInv

LEMMA EnsureStartKeeps ==
  ASSUME IInv, NEW w \in Wrappers, EnsureStart(w) PROVE IInv'
<1> USE DEF Goto
<1>0. /\ w \in Clients /\ w \in Processes /\ lock = w /\ child[w] = None
      /\ \A d \in Daemons : ~Alive(d)
  BY LivesAlone, Distinct DEF EnsureStart, IInv, ClientInv, HolderIsAlone, Alive
<1>1. CASE pc' = [pc EXCEPT ![w] = "unlock"] /\ UNCHANGED <<phase, ofd, upgraded, refs, child>>
  <2>1. TypeOK'
    BY <1>0, <1>1 DEF EnsureStart, IInv, TypeOK, Alive
  <2> QED BY <1>0, <1>1, <2>1, Distinct, ClientMoves DEF EnsureStart, lockVars
<1>2. ASSUME NEW d \in Daemons, phase[d] = "none", phase' = [phase EXCEPT ![d] = "spawned"],
             ofd' = [ofd EXCEPT ![d] = w], upgraded' \in {upgraded, upgraded \cup {d}},
             refs' = [refs EXCEPT ![w] = @ \cup {d}], child' = [child EXCEPT ![w] = d],
             pc' = [pc EXCEPT ![w] = "await"]
      PROVE  IInv'
  <2>1. refs' \in [Processes -> SUBSET {p \in Processes : p \in Daemons => phase'[p] \notin {"none", "gone"}}]
    BY <1>0, <1>2, Distinct DEF IInv, TypeOK, Alive
  <2>2. phase' \in [Daemons -> Phases] /\ ofd' \in [Daemons -> Processes \cup {None}]
    BY <1>0, <1>2 DEF IInv, TypeOK, Phases
  <2>3. TypeOK'
    BY <1>0, <1>2, <2>1, <2>2 DEF EnsureStart, IInv, TypeOK, Alive
  <2>4. d \in refs'[w]
    BY <1>0, <1>2 DEF IInv, TypeOK
  <2> QED BY <1>0, <1>2, <2>3, <2>4, DaemonBegins DEF EnsureStart
<1> QED BY <1>1, <1>2 DEF EnsureStart, Fresh

(* A daemon has no description open but the one it took or was given. *)
FileInv == \A d \in Daemons, f \in Processes : d \in refs[f] => f = ofd[d]

LEMMA FilesKept ==
  ASSUME TypeOK, FileInv, [Next]_vars PROVE FileInv'
<1> USE DEF lockVars, daemonVars, clientVars
<1>1. ASSUME UNCHANGED ofd,
             \A f \in Processes, d \in Daemons : d \in refs'[f] => d \in refs[f]
      PROVE  FileInv'
  BY <1>1 DEF FileInv
<1>2. ASSUME NEW p, NEW f, CloseFile(p, f) \/ Unlock(p, f), UNCHANGED ofd PROVE FileInv'
  BY <1>1, <1>2 DEF CloseFile, Unlock, TypeOK
<1>3. ASSUME NEW c \in Clients, Acquire(c), UNCHANGED ofd PROVE FileInv'
  BY <1>1, <1>3, Distinct DEF Acquire, TypeOK
<1>4. ASSUME UNCHANGED <<refs, ofd>> PROVE FileInv'
  BY <1>4 DEF FileInv
<1>5. ASSUME NEW d \in Daemons, phase[d] = "none", NEW f \in Processes,
             ofd' = [ofd EXCEPT ![d] = f],
             \A g \in Processes, e \in Daemons : e \in refs'[g] => e \in refs[g] \/ (e = d /\ g = f)
      PROVE  FileInv'
  <2>1. \A g \in Processes : d \notin refs[g]
    BY <1>5 DEF TypeOK, Alive
  <2> QED BY <1>5, <2>1 DEF FileInv, TypeOK
<1>6. ASSUME NEW w \in Wrappers, EnsureNext(w) PROVE FileInv'
  <2>0. w \in Clients /\ w \in Processes
    BY Distinct
  <2>1. CASE EnsureTryLock(w)
    BY <1>3, <1>4, <2>0, <2>1 DEF EnsureTryLock
  <2>2. CASE EnsureStart(w)
    BY <1>4, <1>5, <2>0, <2>2, Distinct DEF EnsureStart, Fresh, TypeOK
  <2>3. CASE EnsureAwait(w) \/ EnsureUnlock(w)
    BY <1>2, <2>3 DEF EnsureAwait, EnsureUnlock
  <2>4. CASE EnsureGiveUp(w)
    BY <1>2, <1>4, <2>4 DEF EnsureGiveUp, Kill, Leave
  <2>5. CASE \/ EnsureLoad(w) \/ EnsureProbe(w) \/ EnsureShutdown(w) \/ EnsureWait(w)
             \/ EnsureRecheck(w) \/ EnsureClear(w)
    BY <1>4, <2>5 DEF EnsureLoad, EnsureProbe, EnsureShutdown, EnsureWait, EnsureRecheck, EnsureClear
  <2> QED BY <1>6, <2>1, <2>2, <2>3, <2>4, <2>5 DEF EnsureNext
<1>7. ASSUME NEW s \in Stoppers, StopNext(s) PROVE FileInv'
  <2>0. s \in Clients
    BY Distinct
  <2>1. CASE StaleLock(s)
    BY <1>3, <1>4, <2>0, <2>1 DEF StaleLock
  <2>2. CASE StaleUnlock(s)
    BY <1>2, <2>2 DEF StaleUnlock
  <2>3. CASE \/ StopLoad(s) \/ StopCheck(s) \/ StopSignal(s) \/ StopPoll(s)
             \/ StaleCompare(s) \/ StaleRemove(s)
    BY <1>4, <2>3 DEF StopLoad, StopCheck, StopSignal, StopPoll, StaleCompare, StaleRemove
  <2> QED BY <1>7, <2>1, <2>2, <2>3 DEF StopNext
<1>8. ASSUME NEW d \in Daemons, DaemonNext(d) \/ Serve(d) \/ Cancel(d) \/ CrashDaemon(d) PROVE FileInv'
  <2>1. CASE Adopt(d)
    BY <1>2, <1>4, <2>1 DEF Adopt
  <2>2. CASE Exit(d)
    BY <1>2, <2>2 DEF Exit
  <2>3. CASE CrashDaemon(d)
    BY <1>2, <1>4, <2>3 DEF CrashDaemon, Kill
  <2>4. CASE Serve(d)
    BY <1>5, <2>4, Distinct DEF Serve, Fresh, Acquire, TypeOK
  <2>5. CASE StartServer(d) \/ Publish(d) \/ ShutDown(d) \/ RemoveState(d) \/ Cancel(d)
    BY <1>4, <2>5 DEF StartServer, Publish, ShutDown, RemoveState, Cancel
  <2> QED BY <1>8, <2>1, <2>2, <2>3, <2>4, <2>5 DEF DaemonNext
<1>9. ASSUME NEW c \in Clients, CrashClient(c) PROVE FileInv'
  BY <1>2, <1>9 DEF CrashClient
<1> QED BY <1>4, <1>6, <1>7, <1>8, <1>9 DEF Next, vars

(* The death of a daemon closes all it has open. *)
LEMMA KillTypes ==
  ASSUME IInv, FileInv, NEW d \in Daemons, Alive(d), phase' = [phase EXCEPT ![d] = "gone"],
         CloseFile(d, ofd[d]) \/ Unlock(d, ofd[d])
  PROVE  /\ phase' \in [Daemons -> Phases]
         /\ lock' \in Processes \cup {None}
         /\ refs' \in [Processes -> SUBSET {p \in Processes : p \in Daemons => Alive(p)'}]
<1>1. ofd[d] \in Processes
  BY Distinct DEF IInv, LockInv, Alive
<1>2. refs' = [refs EXCEPT ![ofd[d]] = @ \ {d}] /\ lock' \in {lock, None}
  BY DEF CloseFile, Unlock
<1>3. \A f \in Processes : d \notin refs'[f]
  <2> SUFFICES ASSUME NEW f \in Processes, d \in refs'[f] PROVE FALSE
    OBVIOUS
  <2>1. f # ofd[d] /\ d \in refs[f]
    BY <1>1, <1>2 DEF IInv, TypeOK
  <2> QED BY <2>1 DEF FileInv
<1>4. phase' \in [Daemons -> Phases] /\ lock' \in Processes \cup {None}
  BY <1>2 DEF IInv, TypeOK, Phases
<1>5. ASSUME NEW f \in Processes, NEW p \in refs'[f]
      PROVE  p \in Processes /\ (p \in Daemons => phase'[p] \notin {"none", "gone"})
  <2>1. p # d /\ p \in refs[f]
    BY <1>1, <1>2, <1>3, <1>5 DEF IInv, TypeOK
  <2> QED BY <2>1 DEF IInv, TypeOK, Alive
<1>6. refs' \in [Processes -> SUBSET Processes]
  BY <1>1, <1>2 DEF IInv, TypeOK
<1> QED BY <1>4, <1>5, <1>6 DEF Alive

LEMMA EnsureGiveUpKeeps ==
  ASSUME IInv, FileInv, NEW w \in Wrappers, EnsureGiveUp(w) PROVE IInv'
<1> USE DEF Goto, lockVars
<1>0. w \in Clients /\ w \notin Stoppers /\ child[w] \in Daemons /\ phase[child[w]] # "none"
  BY Distinct DEF EnsureGiveUp, IInv, TypeOK, ClientInv
<1>1. CASE Alive(child[w])
  <2>1. phase' = [phase EXCEPT ![child[w]] = "gone"] /\ CloseFile(child[w], ofd[child[w]])
    BY <1>1 DEF EnsureGiveUp, Kill, Leave
  <2>2. /\ phase' \in [Daemons -> Phases]
        /\ lock' \in Processes \cup {None}
        /\ refs' \in [Processes -> SUBSET {p \in Processes : p \in Daemons => Alive(p)'}]
    BY <1>0, <1>1, <2>1, KillTypes
  <2>3. TypeOK'
    BY <1>0, <1>1, <2>2 DEF EnsureGiveUp, Kill, Leave, IInv, TypeOK, Alive
  <2> QED BY <1>0, <1>1, <2>1, <2>3, DaemonDies DEF EnsureGiveUp
<1>2. CASE ~Alive(child[w])
  <2>1. UNCHANGED <<phase, upgraded, canceled, lock, refs>> /\ phase[child[w]] = "gone"
    BY <1>0, <1>2 DEF EnsureGiveUp, Kill, Alive
  <2>2. TypeOK'
    BY <1>0, <2>1 DEF EnsureGiveUp, IInv, TypeOK, Alive
  <2> QED BY <1>0, <2>1, <2>2, ClientMoves DEF EnsureGiveUp
<1> QED BY <1>1, <1>2

LEMMA DaemonKeeps ==
  ASSUME IInv, NEW d \in Daemons,
         Adopt(d) \/ StartServer(d) \/ Publish(d) \/ ShutDown(d) \/ RemoveState(d)
  PROVE  IInv'
<1> USE DEF lockVars, clientVars
<1>0. /\ Alive(d) /\ lock = ofd[d] /\ d # None
  BY Distinct DEF Adopt, StartServer, Publish, ShutDown, RemoveState, IInv, LockInv, Alive
<1>1. PICK p \in {"init", "listening", "ready", "closing", "unlocking"} :
        /\ phase' = [phase EXCEPT ![d] = p]
        /\ phase[d] \in Published => p \in Published
        /\ stateFile' \in {stateFile, None, d}
        /\ stateFile' = d => p \in Published
        /\ p = "ready" => stateFile' = d
        /\ p \in {"listening", "ready"} => phase[d] \notin Published
        /\ UNCHANGED <<lockVars, ofd, upgraded, canceled, clientVars>>
  <2>1. CASE Adopt(d)
    <3>1. phase[d] \notin Published /\ stateFile # d
      BY <1>0, <2>1 DEF Adopt, Published, IInv, StateInv
    <3> QED BY <1>0, <2>1, <3>1 DEF Adopt, Published
  <2>2. CASE StartServer(d)
    <3>1. phase[d] \notin Published /\ stateFile # d
      BY <1>0, <2>2 DEF StartServer, Published, IInv, StateInv
    <3> QED BY <2>2, <3>1 DEF StartServer, Published
  <2>3. CASE Publish(d)
    BY <2>3 DEF Publish, Published
  <2>4. CASE ShutDown(d)
    BY <2>4 DEF ShutDown, Published
  <2>5. CASE RemoveState(d)
    BY <2>5 DEF RemoveState, Published
  <2> QED BY <2>1, <2>2, <2>3, <2>4, <2>5
<1>2. phase' \in [Daemons -> Phases] /\ phase'[d] = p
  BY <1>1 DEF IInv, TypeOK, Phases
<1>3. refs' \in [Processes -> SUBSET {q \in Processes : q \in Daemons => phase'[q] \notin {"none", "gone"}}]
  BY <1>1 DEF IInv, TypeOK, Alive
<1>4. TypeOK'
  BY <1>1, <1>2, <1>3 DEF IInv, TypeOK, Alive
<1> QED BY <1>0, <1>1, <1>4, DaemonMoves DEF Phases

LEMMA ServeKeeps ==
  ASSUME IInv, NEW d \in Daemons, Serve(d) PROVE IInv'
<1> USE DEF lockVars, clientVars
<1>0. d \in Processes /\ lock = None /\ phase[d] = "none" /\ \A e \in Daemons : ~Alive(e)
  BY LivesAlone, Distinct DEF Serve, Fresh, Acquire
<1>1. phase' \in [Daemons -> Phases] /\ ofd' \in [Daemons -> Processes \cup {None}]
  BY <1>0 DEF Serve, IInv, TypeOK, Phases
<1>2. refs' \in [Processes -> SUBSET {p \in Processes : p \in Daemons => phase'[p] \notin {"none", "gone"}}]
  BY <1>0 DEF Serve, Acquire, IInv, TypeOK, Alive
<1>3. TypeOK'
  BY <1>0, <1>1, <1>2 DEF Serve, Acquire, IInv, TypeOK, Alive
<1>4. d \in refs'[d]
  BY <1>0 DEF Serve, Acquire, IInv, TypeOK
<1> QED BY <1>0, <1>3, <1>4, DaemonBegins DEF Serve, Acquire

LEMMA DaemonEnds ==
  ASSUME IInv, FileInv, NEW d \in Daemons, Exit(d) \/ CrashDaemon(d) PROVE IInv'
<1>1. /\ Alive(d) /\ phase' = [phase EXCEPT ![d] = "gone"]
      /\ CloseFile(d, ofd[d]) \/ Unlock(d, ofd[d])
      /\ upgraded' = upgraded \ {d} /\ canceled' = canceled \ {d}
      /\ UNCHANGED <<stateFile, ofd, clientVars>>
  BY DEF Exit, CrashDaemon, Kill, Leave, Alive
<1>2. /\ phase' \in [Daemons -> Phases]
      /\ lock' \in Processes \cup {None}
      /\ refs' \in [Processes -> SUBSET {p \in Processes : p \in Daemons => Alive(p)'}]
  BY <1>1, KillTypes
<1>3. TypeOK'
  BY <1>1, <1>2 DEF clientVars, IInv, TypeOK, Alive
<1> QED BY <1>1, <1>3, DaemonDies DEF clientVars

LEMMA CancelKeeps ==
  ASSUME IInv, NEW d \in Daemons, Cancel(d) PROVE IInv'
<1>1. TypeOK'
  BY DEF Cancel, clientVars, lockVars, IInv, TypeOK, Alive
<1> QED BY <1>1 DEF Cancel, clientVars, lockVars, IInv, LockInv, ClientInv, StateInv,
                   ReadyIsPublished, StoppedMeansStopped, Healthy, Alive

LEMMA StutterKeeps == ASSUME IInv, UNCHANGED vars PROVE IInv'
<1>1. TypeOK'
  BY DEF vars, daemonVars, clientVars, lockVars, IInv, TypeOK, Alive
<1> QED BY <1>1 DEF vars, daemonVars, clientVars, lockVars, IInv, LockInv, ClientInv, StateInv,
                   ReadyIsPublished, StoppedMeansStopped, Healthy, Alive

LEMMA StepKeeps ==
  ASSUME IInv, FileInv, [Next]_vars PROVE IInv'
<1>1. ASSUME NEW w \in Wrappers, EnsureNext(w) PROVE IInv'
  BY <1>1, EnsureMoves, EnsureLocks, EnsureStartKeeps, EnsureGiveUpKeeps DEF EnsureNext
<1>2. ASSUME NEW s \in Stoppers, StopNext(s) PROVE IInv'
  BY <1>2, StopMoves, StaleLocks DEF StopNext
<1>3. ASSUME NEW d \in Daemons, DaemonNext(d) \/ Serve(d) \/ Cancel(d) \/ CrashDaemon(d) PROVE IInv'
  BY <1>3, DaemonKeeps, ServeKeeps, DaemonEnds, CancelKeeps DEF DaemonNext
<1>4. ASSUME NEW c \in Clients, CrashClient(c) PROVE IInv'
  BY <1>4, CrashClientKeeps
<1> QED BY <1>1, <1>2, <1>3, <1>4, StutterKeeps DEF Next

-----------------------------------------------------------------------------
THEOREM Invariance == Spec => [](IInv /\ FileInv)
<1>1. Init => IInv /\ FileInv
  <2>1. Init => FileInv
    BY DEF Init, FileInv
  <2> QED BY <2>1, InitIInv
<1>2. IInv /\ FileInv /\ [Next]_vars => (IInv /\ FileInv)'
  BY StepKeeps, FilesKept DEF IInv
<1> QED BY <1>1, <1>2, PTL DEF Spec

(* The state has its types. *)
THEOREM TypeCorrect == Spec => []TypeOK
<1>1. IInv => TypeOK
  BY DEF IInv
<1> QED BY <1>1, Invariance, PTL

(* There are never two daemon processes (serve.go:34-43).                   *)
THEOREM OneDaemon == Spec => []SingleService
<1>1. IInv => SingleService
  BY LivesAlone
<1> QED BY <1>1, Invariance, PTL

(* Who starts or cleans up is alone (manager.go:90-136).                    *)
THEOREM HoldersAreAlone == Spec => []HolderIsAlone
<1>1. IInv => HolderIsAlone
  BY LivesAlone
<1> QED BY <1>1, Invariance, PTL

(* A ready daemon is the one that the state file describes                  *)
(* (service.go:52-56).                                                      *)
THEOREM ReadyIsFound == Spec => []ReadyIsPublished
<1>1. IInv => ReadyIsPublished
  BY DEF IInv
<1> QED BY <1>1, Invariance, PTL

(* "daemon stopped" is true (stop.go:57-93). *)
THEOREM StopTellsTheTruth == Spec => []StoppedMeansStopped
<1>1. IInv => StoppedMeansStopped
  BY DEF IInv
<1> QED BY <1>1, Invariance, PTL

-----------------------------------------------------------------------------
(* The refinement. The daemon in service is the one that lives.             *)
LEMMA ServiceIs ==
  /\ SingleService => \A d \in Daemons : Alive(d) => Service = d
  /\ SingleService' => \A d \in Daemons : Alive(d)' => Service' = d
  /\ (\A d \in Daemons : ~Alive(d)) => Service = None
  /\ (\A d \in Daemons : ~Alive(d)') => Service' = None
<1>1. SingleService => \A d \in Daemons : Alive(d) => Service = d
  BY DEF SingleService, Service
<1>2. SingleService' => \A d \in Daemons : Alive(d)' => Service' = d
  BY DEF SingleService, Service
<1>3. (\A d \in Daemons : ~Alive(d)) => Service = None
  BY DEF Service
<1>4. (\A d \in Daemons : ~Alive(d)') => Service' = None
  BY DEF Service
<1> QED BY <1>1, <1>2, <1>3, <1>4

(* Steps that change no phase at most forget the announcement. *)
LEMMA NoPhaseMaps ==
  ASSUME UNCHANGED phase, stateFile' = stateFile \/ (stateFile' = None /\ ~Ready)
  PROVE  [Promise!Next]_(Promise!vars)
<1>1. Service' = Service /\ Ready' = Ready /\ Served' = Served
  BY DEF Service, Ready, Served, Alive
<1> QED BY <1>1 DEF Promise!Next, Promise!Forget, Promise!vars

(* The only daemon that lives moves on to phase p. *)
LEMMA PhaseMaps ==
  ASSUME IInv, SingleService, SingleService', NEW d \in Daemons, Alive(d), NEW p \in Phases \ {"none"},
         phase' = [phase EXCEPT ![d] = p],
         \/ p = "gone" /\ stateFile' = stateFile
         \/ p \notin {"gone", "ready"} /\ phase[d] # "ready" /\ stateFile' \in {stateFile, None, d}
         \/ p = "ready" /\ phase[d] # "ready" /\ stateFile' = d
         \/ p # "ready" /\ phase[d] = "ready" /\ stateFile' = stateFile
  PROVE  [Promise!Next]_(Promise!vars)
<1>0. /\ phase'[d] = p /\ phase[d] \notin {"none", "gone"} /\ d # None
      /\ \A e \in Daemons \ {d} : phase'[e] = phase[e] /\ phase[e] \in {"none", "gone"}
  BY Distinct DEF IInv, TypeOK, SingleService, Alive
<1>1. Service = d
  BY ServiceIs
<1>2. Served' = Served
  BY <1>0 DEF Served
<1>3. (Ready <=> phase[d] = "ready") /\ (Ready' <=> p = "ready")
  BY <1>0 DEF Ready
<1>4. Service' = IF p = "gone" THEN None ELSE d
  <2>1. CASE p = "gone"
    <3>1. \A e \in Daemons : ~Alive(e)'
      BY <1>0, <2>1 DEF Alive
    <3> QED BY <2>1, <3>1, ServiceIs
  <2>2. CASE p # "gone"
    <3>1. Alive(d)'
      BY <1>0, <2>2 DEF Alive
    <3> QED BY <2>2, <3>1, ServiceIs
  <2> QED BY <2>1, <2>2
<1>5. Ready \in BOOLEAN /\ Ready' \in BOOLEAN
  BY DEF Ready
<1>6. CASE p = "gone" /\ stateFile' = stateFile
  <2>1. Ready' = FALSE
    BY <1>3, <1>5, <1>6
  <2> QED BY <1>0, <1>1, <1>2, <1>4, <1>6, <2>1 DEF Promise!Next, Promise!End
<1>7. CASE p \notin {"gone", "ready"} /\ phase[d] # "ready" /\ stateFile' \in {stateFile, None, d}
  <2>1. Ready = FALSE /\ Ready' = FALSE
    BY <1>3, <1>5, <1>7
  <2> QED BY <1>0, <1>1, <1>2, <1>4, <1>7, <2>1 DEF Promise!Next, Promise!Announce, Promise!Forget, Promise!vars
<1>8. CASE p = "ready" /\ phase[d] # "ready" /\ stateFile' = d
  <2>1. Ready = FALSE /\ Ready' \in BOOLEAN
    BY <1>3, <1>5, <1>8
  <2> QED BY <1>0, <1>1, <1>2, <1>4, <1>8, <2>1 DEF Promise!Next, Promise!Announce
<1>9. CASE p # "ready" /\ p # "gone" /\ phase[d] = "ready" /\ stateFile' = stateFile
  <2>1. Ready = TRUE /\ Ready' = FALSE
    BY <1>3, <1>5, <1>9
  <2> QED BY <1>0, <1>1, <1>2, <1>4, <1>9, <2>1 DEF Promise!Next, Promise!Withdraw
<1> QED BY <1>6, <1>7, <1>8, <1>9

(* A daemon comes to life. *)
LEMMA BeginMaps ==
  ASSUME IInv, SingleService', NEW d \in Daemons, phase[d] = "none", \A e \in Daemons : ~Alive(e),
         NEW p \in {"spawned", "init"}, phase' = [phase EXCEPT ![d] = p], stateFile' = stateFile
  PROVE  [Promise!Next]_(Promise!vars)
<1>0. /\ phase'[d] = p
      /\ \A e \in Daemons \ {d} : phase'[e] = phase[e] /\ phase[e] \in {"none", "gone"}
  BY DEF IInv, TypeOK, Alive
<1>1. Service = None
  BY ServiceIs
<1>2. Alive(d)'
  BY <1>0 DEF Alive
<1>3. Service' = d
  BY <1>2, ServiceIs
<1>4. d \notin Served /\ Served' = Served \cup {d}
  BY <1>0 DEF Served
<1>5. Ready' = Ready
  BY <1>0 DEF Ready
<1>6. Promise!Begin(d)
  BY <1>1, <1>3, <1>4, <1>5 DEF Promise!Begin
<1> QED BY <1>6 DEF Promise!Next

LEMMA NobodyReady == (\A d \in Daemons : ~Alive(d)) => ~Ready
  BY DEF Alive, Ready

LEMMA StepMaps ==
  ASSUME IInv, SingleService, HolderIsAlone, SingleService', [Next]_vars
  PROVE  [Promise!Next]_(Promise!vars)
<1> USE DEF lockVars, daemonVars, clientVars
<1>1. ASSUME UNCHANGED phase, stateFile' = stateFile PROVE [Promise!Next]_(Promise!vars)
  BY <1>1, NoPhaseMaps
<1>2. ASSUME NEW d \in Daemons, Alive(d), phase' = [phase EXCEPT ![d] = "gone"], stateFile' = stateFile
      PROVE  [Promise!Next]_(Promise!vars)
  BY <1>2, PhaseMaps DEF Phases
<1>3. ASSUME NEW w \in Wrappers, EnsureNext(w) PROVE [Promise!Next]_(Promise!vars)
  <2>0. w \in Clients
    BY Distinct
  <2>1. CASE EnsureClear(w)
    <3>1. \A d \in Daemons : ~Alive(d)
      BY <2>0, <2>1 DEF EnsureClear, HolderIsAlone, Alive
    <3> QED BY <2>1, <3>1, NobodyReady, NoPhaseMaps DEF EnsureClear
  <2>2. CASE EnsureStart(w)
    <3>1. \A d \in Daemons : ~Alive(d)
      BY <2>0, <2>2 DEF EnsureStart, HolderIsAlone, Alive
    <3>2. CASE UNCHANGED phase
      BY <1>1, <2>2, <3>2 DEF EnsureStart
    <3>3. CASE \E d \in Daemons : phase[d] = "none" /\ phase' = [phase EXCEPT ![d] = "spawned"]
      BY <2>2, <3>1, <3>3, BeginMaps DEF EnsureStart
    <3> QED BY <2>2, <3>2, <3>3 DEF EnsureStart, Fresh
  <2>3. CASE EnsureGiveUp(w)
    <3>1. child[w] \in Daemons
      BY <2>0, <2>3 DEF EnsureGiveUp, IInv, ClientInv, TypeOK
    <3> QED BY <1>1, <1>2, <2>3, <3>1 DEF EnsureGiveUp, Kill, Leave
  <2>4. CASE \/ EnsureLoad(w) \/ EnsureProbe(w) \/ EnsureShutdown(w) \/ EnsureWait(w)
             \/ EnsureTryLock(w) \/ EnsureRecheck(w) \/ EnsureAwait(w) \/ EnsureUnlock(w)
    BY <1>1, <2>4 DEF EnsureLoad, EnsureProbe, EnsureShutdown, EnsureWait, EnsureTryLock,
                      EnsureRecheck, EnsureAwait, EnsureUnlock
  <2> QED BY <1>3, <2>1, <2>2, <2>3, <2>4 DEF EnsureNext
<1>4. ASSUME NEW s \in Stoppers, StopNext(s) PROVE [Promise!Next]_(Promise!vars)
  <2>0. s \in Clients
    BY Distinct
  <2>1. CASE StaleRemove(s)
    <3>1. \A d \in Daemons : ~Alive(d)
      BY <2>0, <2>1 DEF StaleRemove, HolderIsAlone, Alive
    <3> QED BY <2>1, <3>1, NobodyReady, NoPhaseMaps DEF StaleRemove
  <2>2. CASE \/ StopLoad(s) \/ StopCheck(s) \/ StopSignal(s) \/ StopPoll(s)
             \/ StaleLock(s) \/ StaleCompare(s) \/ StaleUnlock(s)
    BY <1>1, <2>2 DEF StopLoad, StopCheck, StopSignal, StopPoll, StaleLock, StaleCompare, StaleUnlock
  <2> QED BY <1>4, <2>1, <2>2 DEF StopNext
<1>5. ASSUME NEW d \in Daemons, DaemonNext(d) \/ Serve(d) \/ Cancel(d) \/ CrashDaemon(d)
      PROVE  [Promise!Next]_(Promise!vars)
  <2>1. CASE Adopt(d)
    <3>1. Alive(d) /\ lock = ofd[d]
      BY <2>1 DEF Adopt, IInv, LockInv, Alive
    <3> QED BY <2>1, <3>1, PhaseMaps DEF Adopt, Phases
  <2>2. CASE StartServer(d)
    BY <2>2, PhaseMaps DEF StartServer, Phases, Alive
  <2>3. CASE Publish(d)
    BY <2>3, PhaseMaps DEF Publish, Phases, Alive
  <2>4. CASE ShutDown(d)
    BY <2>4, PhaseMaps DEF ShutDown, Phases, Alive
  <2>5. CASE RemoveState(d)
    BY <2>5, PhaseMaps DEF RemoveState, Phases, Alive
  <2>6. CASE Exit(d)
    BY <1>2, <2>6 DEF Exit, Leave, Alive
  <2>7. CASE CrashDaemon(d)
    BY <1>2, <2>7 DEF CrashDaemon, Kill, Leave
  <2>8. CASE Serve(d)
    BY <2>8, LivesAlone, BeginMaps DEF Serve, Fresh, Acquire
  <2>9. CASE Cancel(d)
    BY <1>1, <2>9 DEF Cancel
  <2> QED BY <1>5, <2>1, <2>2, <2>3, <2>4, <2>5, <2>6, <2>7, <2>8, <2>9 DEF DaemonNext
<1>6. ASSUME NEW c \in Clients, CrashClient(c) PROVE [Promise!Next]_(Promise!vars)
  BY <1>1, <1>6 DEF CrashClient
<1> QED BY <1>1, <1>3, <1>4, <1>5, <1>6 DEF Next, vars

(* The processes implement the promise of SharedDaemon (manager.go:90-136,  *)
(* service.go:44-196).                                                      *)
THEOREM Implements == Spec => ImplementsSharedDaemon
<1>1. Init => Promise!Init
  <2>1. ASSUME Init PROVE Service = None /\ Ready = FALSE /\ stateFile = None /\ Served = {}
    BY <2>1, ServiceIs DEF Init, Ready, Served, Alive
  <2> QED BY <2>1 DEF Promise!Init
<1>2. IInv => SingleService /\ HolderIsAlone
  BY LivesAlone
<1>3. IInv /\ SingleService /\ HolderIsAlone /\ SingleService' /\ [Next]_vars => [Promise!Next]_(Promise!vars)
  BY StepMaps
<1> QED BY <1>1, <1>2, <1>3, Invariance, PTL DEF Spec, ImplementsSharedDaemon, Promise!Spec
=============================================================================
