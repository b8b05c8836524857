--------------------------- MODULE DaemonLifecycle ---------------------------
(***************************************************************************)
(* The processes around the shared daemon of one state directory: wrappers *)
(* that ensure it (daemon/manager.go, starter.go), the daemons themselves  *)
(* (command/serve.go, daemon/service.go) and stop commands                 *)
(* (command/stop.go). They share the state file and a flock on the lock    *)
(* file. A flock belongs to an open file description: a daemon started in  *)
(* the background has the one of the wrapper that started it, so either of *)
(* them can unlock it, and the kernel does when the last one is closed. A  *)
(* description is named by the process that opened it. Every process may   *)
(* crash at any step; one that is killed or gone executes nothing more.    *)
(***************************************************************************)
EXTENDS Naturals, FiniteSets

CONSTANTS
  Wrappers,   \* invocations of Ensure
  Upgraded,   \* the wrappers of the newer of two versions
  Stoppers,   \* invocations of stop
  Daemons,    \* daemon processes (bound on how many are ever started)
  None

Clients == Wrappers \cup Stoppers
Processes == Clients \cup Daemons

ASSUME DaemonAssumption ==
  /\ Upgraded \subseteq Wrappers
  /\ Wrappers \cap Stoppers = {} /\ Clients \cap Daemons = {}
  /\ None \notin Processes

VARIABLES
  lock,       \* the open file description that holds the flock, or None
  refs,       \* of each description: the processes that have it open
  stateFile,  \* the daemon that daemon.json describes, or None
  phase, ofd, \* of each daemon: where it is, and its description of the lock
  upgraded,   \* the daemons of the newer version
  canceled,   \* those whose context is canceled (signal or Shutdown call)
  pc,         \* of each client
  loaded,     \* the state a client works on
  replaced,   \* replacementRequestedFor
  child       \* the process a wrapper started

lockVars == <<lock, refs>>
daemonVars == <<phase, ofd, upgraded, canceled>>
clientVars == <<pc, loaded, replaced, child>>
vars == <<lockVars, stateFile, daemonVars, clientVars>>

Phases == {"none", "spawned", "init", "listening", "ready", "closing", "unlocking", "gone"}

(* The server accepts connections; the process exists. *)
Healthy(d) == phase[d] \in {"listening", "ready"}
Alive(d) == phase[d] \notin {"none", "gone"}

TypeOK ==
  /\ lock \in Processes \cup {None}
  /\ refs \in [Processes -> SUBSET {p \in Processes : p \in Daemons => Alive(p)}]
  /\ stateFile \in Daemons \cup {None}
  /\ phase \in [Daemons -> Phases]
  /\ ofd \in [Daemons -> Processes \cup {None}]
  /\ upgraded \subseteq Daemons /\ canceled \subseteq Daemons
  /\ pc \in [Clients -> {"load", "probe", "shutdown", "wait", "trylock", "recheck",
                         "clear", "start", "await", "release", "unlock", "ok", "failed",
                         "refused", "check", "signal", "poll", "stale", "compare", "remove", "stopped", "gone"}]
  /\ loaded \in [Clients -> Daemons \cup {None}]
  /\ replaced \in [Wrappers -> Daemons \cup {None}]
  /\ child \in [Wrappers -> Daemons \cup {None}]

Init ==
  /\ lock = None /\ refs = [p \in Processes |-> {}] /\ stateFile = None
  /\ phase = [d \in Daemons |-> "none"] /\ ofd = [d \in Daemons |-> None]
  /\ upgraded = {} /\ canceled = {}
  /\ pc = [c \in Clients |-> "load"] /\ loaded = [c \in Clients |-> None]
  /\ replaced = [w \in Wrappers |-> None] /\ child = [w \in Wrappers |-> None]

(* The process that is started next: one unused name is as good as another. *)
Fresh(d) == phase[d] = "none" /\ d = CHOOSE e \in Daemons : phase[e] = "none"

Goto(c, label) == pc' = [pc EXCEPT ![c] = label]

-----------------------------------------------------------------------------
(* The lock *)

(* TryAcquireLock, when the lock is free. *)
Acquire(p) ==
  /\ lock = None
  /\ lock' = p
  /\ refs' = [refs EXCEPT ![p] = {p}]

(* FileLock.Close: LOCK_UN works on the description, whoever else has it,   *)
(* and does nothing if another description holds the lock.                  *)
Unlock(p, f) ==
  /\ lock' = IF lock = f THEN None ELSE lock
  /\ refs' = [refs EXCEPT ![f] = @ \ {p}]

(* A process ends, or closes its descriptor only (DropReference).           *)
CloseFile(p, f) ==
  /\ refs' = [refs EXCEPT ![f] = @ \ {p}]
  /\ lock' = IF lock = f /\ refs'[f] = {} THEN None ELSE lock

(* The process is gone, its executable and its context with it. *)
Leave(d) ==
  /\ phase' = [phase EXCEPT ![d] = "gone"]
  /\ upgraded' = upgraded \ {d} /\ canceled' = canceled \ {d}

(* SIGKILL, or a crash, of a daemon, if it is alive. *)
Kill(d) ==
  IF Alive(d)
  THEN Leave(d) /\ CloseFile(d, ofd[d])
  ELSE UNCHANGED <<phase, upgraded, canceled, lockVars>>

-----------------------------------------------------------------------------
(* Manager.Ensure *)

Compatible(w, d) == w \in Upgraded <=> d \in upgraded

EnsureLoad(w) ==
  /\ pc[w] = "load" /\ w \in Wrappers
  /\ loaded' = [loaded EXCEPT ![w] = stateFile]
  /\ Goto(w, IF stateFile = None THEN "trylock" ELSE "probe")
  /\ UNCHANGED <<lockVars, stateFile, daemonVars, replaced, child>>

(* The probe of a healthy daemon may also time out. *)
EnsureProbe(w) ==
  /\ pc[w] = "probe" /\ w \in Wrappers
  /\ \/ Goto(w, "trylock")
     \/ Healthy(loaded[w]) /\ Compatible(w, loaded[w]) /\ Goto(w, "ok")
     \/ /\ Healthy(loaded[w]) /\ ~Compatible(w, loaded[w])
        /\ Goto(w, IF replaced[w] = loaded[w] THEN "wait" ELSE "shutdown")
  /\ UNCHANGED <<lockVars, stateFile, daemonVars, loaded, replaced, child>>

(* The Shutdown call to the daemon found, once for each instance.           *)
EnsureShutdown(w) ==
  /\ pc[w] = "shutdown"
  /\ \/ /\ Healthy(loaded[w])
        /\ canceled' = canceled \cup {loaded[w]}
        /\ replaced' = [replaced EXCEPT ![w] = loaded[w]]
        /\ Goto(w, "wait")
     \/ /\ ~Healthy(loaded[w]) /\ Goto(w, "refused")
        /\ UNCHANGED <<canceled, replaced>>
  /\ UNCHANGED <<lockVars, stateFile, phase, ofd, upgraded, loaded, child>>

EnsureWait(w) ==
  /\ pc[w] = "wait"
  /\ Goto(w, "load") \/ Goto(w, "failed")
  /\ UNCHANGED <<lockVars, stateFile, daemonVars, loaded, replaced, child>>

EnsureTryLock(w) ==
  /\ pc[w] = "trylock"
  /\ \/ Acquire(w) /\ Goto(w, "recheck")
     \/ lock # None /\ Goto(w, "wait") /\ UNCHANGED lockVars
  /\ UNCHANGED <<stateFile, daemonVars, loaded, replaced, child>>

(* startUnderLock, step by step. A daemon found healthy now would end it,    *)
(* with an error if its version is another one.                             *)
EnsureRecheck(w) ==
  /\ pc[w] = "recheck"
  /\ Goto(w, IF stateFile = None \/ ~Healthy(stateFile) THEN "clear"
             ELSE IF Compatible(w, stateFile) THEN "release" ELSE "unlock")
  /\ UNCHANGED <<lockVars, stateFile, daemonVars, loaded, replaced, child>>

EnsureClear(w) ==
  /\ pc[w] = "clear"
  /\ stateFile' = None
  /\ Goto(w, "start")
  /\ UNCHANGED <<lockVars, daemonVars, loaded, replaced, child>>

(* The executable may have been replaced since the wrapper was started.     *)
EnsureStart(w) ==
  /\ pc[w] = "start"
  /\ \/ \E d \in Daemons :
          /\ Fresh(d)
          /\ phase' = [phase EXCEPT ![d] = "spawned"]
          /\ ofd' = [ofd EXCEPT ![d] = w]
          /\ upgraded' \in {upgraded, upgraded \cup {d}}
          /\ refs' = [refs EXCEPT ![w] = @ \cup {d}]
          /\ child' = [child EXCEPT ![w] = d]
          /\ Goto(w, "await")
     \/ Goto(w, "unlock") /\ UNCHANGED <<phase, ofd, upgraded, refs, child>>
  /\ UNCHANGED <<lock, stateFile, canceled, loaded, replaced>>

(* Mutant: the lock is closed, not handed over. *)
EnsureAwait_Unlocks(w) ==
  /\ pc[w] = "await"
  /\ stateFile = child[w] /\ Healthy(child[w]) /\ Compatible(w, child[w])
  /\ Unlock(w, w)
  /\ Goto(w, "ok")
  /\ UNCHANGED <<stateFile, daemonVars, loaded, replaced, child>>

(* waitForChild succeeds: the wrapper drops its reference to the lock       *)
(* without unlocking, so that the daemon keeps it.                          *)
EnsureAwait(w) ==
  /\ pc[w] = "await"
  /\ stateFile = child[w] /\ Healthy(child[w]) /\ Compatible(w, child[w])
  /\ CloseFile(w, w)
  /\ Goto(w, "ok")
  /\ UNCHANGED <<stateFile, daemonVars, loaded, replaced, child>>

(* waitForChild times out or is canceled: stopChild.                        *)
EnsureGiveUp(w) ==
  /\ pc[w] = "await"
  /\ Kill(child[w])
  /\ Goto(w, "unlock")
  /\ UNCHANGED <<stateFile, ofd, loaded, replaced, child>>

(* Mutant: it is kept after an error. *)
EnsureUnlock_OnSuccess(w) ==
  /\ pc[w] \in {"release", "unlock"} /\ w \in Wrappers
  /\ IF pc[w] = "release" THEN Unlock(w, w) ELSE UNCHANGED lockVars
  /\ Goto(w, IF pc[w] = "release" THEN "ok" ELSE "failed")
  /\ UNCHANGED <<stateFile, daemonVars, loaded, replaced, child>>

(* The deferred Close of the lock. *)
EnsureUnlock(w) ==
  /\ pc[w] \in {"release", "unlock"} /\ w \in Wrappers
  /\ Unlock(w, w)
  /\ Goto(w, IF pc[w] = "release" THEN "ok" ELSE "failed")
  /\ UNCHANGED <<stateFile, daemonVars, loaded, replaced, child>>

-----------------------------------------------------------------------------
(* serve and RunService *)

(* A daemon in the foreground takes the lock, or is refused.                *)
Serve(d) ==
  /\ Fresh(d)
  /\ Acquire(d)
  /\ phase' = [phase EXCEPT ![d] = "init"]
  /\ ofd' = [ofd EXCEPT ![d] = d]
  /\ upgraded' \in {upgraded, upgraded \cup {d}}
  /\ UNCHANGED <<stateFile, canceled, clientVars>>

(* AdoptInheritedLock locks the description it was given once more.         *)
Adopt(d) ==
  /\ phase[d] = "spawned"
  /\ IF lock \in {ofd[d], None}
     THEN /\ phase' = [phase EXCEPT ![d] = "init"]
          /\ lock' = ofd[d] /\ UNCHANGED <<refs, upgraded, canceled>>
     ELSE Leave(d) /\ CloseFile(d, ofd[d])
  /\ UNCHANGED <<stateFile, ofd, clientVars>>

(* Configuration, certificates, identity and the server, unless one fails   *)
(* or the context is already canceled.                                      *)
StartServer(d) ==
  /\ phase[d] = "init"
  /\ \E p \in {"listening", "closing"} :
       /\ p = "listening" => d \notin canceled
       /\ phase' = [phase EXCEPT ![d] = p]
  /\ UNCHANGED <<lockVars, stateFile, ofd, upgraded, canceled, clientVars>>

(* StateStore.Save; an error shuts the server down, which may come after    *)
(* the file was replaced.                                                   *)
Publish(d) ==
  /\ phase[d] = "listening"
  /\ \E p \in {"ready", "closing"} :
       /\ stateFile' \in {stateFile, d} /\ (p = "ready" => stateFile' = d)
       /\ phase' = [phase EXCEPT ![d] = p]
  /\ UNCHANGED <<lockVars, ofd, upgraded, canceled, clientVars>>

(* Mutant: the state is removed while the server still runs.                *)
ShutDown_Late(d) ==
  /\ phase[d] = "ready" /\ d \in canceled
  /\ stateFile' = None
  /\ UNCHANGED <<lockVars, daemonVars, clientVars>>

(* The server is shut down: the context is canceled.                        *)
ShutDown(d) ==
  /\ phase[d] = "ready" /\ d \in canceled
  /\ phase' = [phase EXCEPT ![d] = "closing"]
  /\ UNCHANGED <<lockVars, stateFile, ofd, upgraded, canceled, clientVars>>

(* A signal, the idle timeout, or an error of the server.                   *)
Cancel(d) ==
  /\ Alive(d) /\ d \notin canceled
  /\ canceled' = canceled \cup {d}
  /\ UNCHANGED <<lockVars, stateFile, phase, ofd, upgraded, clientVars>>

(* RunService returns: the state file is removed, whosever it is ...        *)
RemoveState(d) ==
  /\ phase[d] = "closing"
  /\ stateFile' \in {None, stateFile}
  /\ phase' = [phase EXCEPT ![d] = "unlocking"]
  /\ UNCHANGED <<lockVars, ofd, upgraded, canceled, clientVars>>

(* ... and the lock is closed. *)
Exit(d) ==
  /\ phase[d] = "unlocking"
  /\ Unlock(d, ofd[d])
  /\ Leave(d)
  /\ UNCHANGED <<stateFile, ofd, clientVars>>

-----------------------------------------------------------------------------
(* stop *)

StopLoad(s) ==
  /\ pc[s] = "load" /\ s \in Stoppers
  /\ loaded' = [loaded EXCEPT ![s] = stateFile]
  /\ Goto(s, IF stateFile = None THEN "stopped" ELSE "check")
  /\ UNCHANGED <<lockVars, stateFile, daemonVars, replaced, child>>

(* ProcessAlive (also true of a process that is not reaped) and the probe,  *)
(* which may time out.                                                      *)
StopCheck(s) ==
  /\ pc[s] = "check"
  /\ \/ ~Alive(loaded[s]) /\ Goto(s, "stale")
     \/ Healthy(loaded[s]) /\ Goto(s, "signal")
     \/ Goto(s, "failed")
  /\ UNCHANGED <<lockVars, stateFile, daemonVars, loaded, replaced, child>>

StopSignal(s) ==
  /\ pc[s] = "signal"
  /\ canceled' = IF Alive(loaded[s]) THEN canceled \cup {loaded[s]} ELSE canceled
  /\ Goto(s, "poll")
  /\ UNCHANGED <<lockVars, stateFile, phase, ofd, upgraded, loaded, replaced, child>>

(* The state is gone or another instance's, or the process is gone.         *)
StopPoll(s) ==
  /\ pc[s] = "poll"
  /\ \/ stateFile # loaded[s] /\ Goto(s, "stopped")
     \/ stateFile = loaded[s] /\ ~Alive(loaded[s]) /\ Goto(s, "stale")
     \/ stateFile = loaded[s] /\ Goto(s, "failed")
  /\ UNCHANGED <<lockVars, stateFile, daemonVars, loaded, replaced, child>>

(* Mutant: the stale state is removed without the lock. *)
StaleLock_None(s) ==
  /\ pc[s] = "stale" /\ Goto(s, "compare")
  /\ UNCHANGED <<lockVars, stateFile, daemonVars, loaded, replaced, child>>

(* removeDaemonStateIfOwned, step by step: somebody else is starting, or    *)
(* the state is compared again, and removed, under the lock.                *)
StaleLock(s) ==
  /\ pc[s] = "stale"
  /\ \/ Acquire(s) /\ Goto(s, "compare")
     \/ lock # None /\ Goto(s, "stopped") /\ UNCHANGED lockVars
  /\ UNCHANGED <<stateFile, daemonVars, loaded, replaced, child>>

StaleCompare(s) ==
  /\ pc[s] = "compare"
  /\ Goto(s, IF stateFile = loaded[s] THEN "remove" ELSE "unlock")
  /\ UNCHANGED <<lockVars, stateFile, daemonVars, loaded, replaced, child>>

StaleRemove(s) ==
  /\ pc[s] = "remove"
  /\ stateFile' = None
  /\ Goto(s, "unlock")
  /\ UNCHANGED <<lockVars, daemonVars, loaded, replaced, child>>

StaleUnlock(s) ==
  /\ pc[s] = "unlock" /\ s \in Stoppers
  /\ Unlock(s, s)
  /\ Goto(s, "stopped")
  /\ UNCHANGED <<stateFile, daemonVars, loaded, replaced, child>>

-----------------------------------------------------------------------------
(* A client is killed; a daemon it started lives on. *)
CrashClient(c) ==
  /\ pc[c] \notin {"ok", "failed", "refused", "stopped", "gone"}
  /\ CloseFile(c, c)
  /\ Goto(c, "gone")
  /\ UNCHANGED <<stateFile, daemonVars, loaded, replaced, child>>

CrashDaemon(d) ==
  /\ Alive(d) /\ Kill(d)
  /\ UNCHANGED <<stateFile, ofd, clientVars>>

EnsureNext(w) ==
  \/ EnsureLoad(w) \/ EnsureProbe(w) \/ EnsureShutdown(w) \/ EnsureWait(w) \/ EnsureTryLock(w)
  \/ EnsureRecheck(w) \/ EnsureClear(w) \/ EnsureStart(w) \/ EnsureAwait(w) \/ EnsureGiveUp(w)
  \/ EnsureUnlock(w)

DaemonNext(d) ==
  Adopt(d) \/ StartServer(d) \/ Publish(d) \/ ShutDown(d) \/ RemoveState(d) \/ Exit(d)

StopNext(s) ==
  \/ StopLoad(s) \/ StopCheck(s) \/ StopSignal(s) \/ StopPoll(s)
  \/ StaleLock(s) \/ StaleCompare(s) \/ StaleRemove(s) \/ StaleUnlock(s)

Next ==
  \/ \E w \in Wrappers : EnsureNext(w)
  \/ \E s \in Stoppers : StopNext(s)
  \/ \E d \in Daemons : DaemonNext(d) \/ Serve(d) \/ Cancel(d) \/ CrashDaemon(d)
  \/ \E c \in Clients : CrashClient(c)

Spec == Init /\ [][Next]_vars

(* Processes that are not killed run; waits end by their timeouts.          *)
FairSpec ==
  /\ Spec
  /\ \A w \in Wrappers : WF_vars(EnsureNext(w))
  /\ \A s \in Stoppers : WF_vars(StopNext(s))
  /\ \A d \in Daemons : WF_vars(DaemonNext(d))

-----------------------------------------------------------------------------
(* One daemon per state directory (serve.go:34-43, docs/compatibility.md:215, *)
(* "shared on-demand daemon"): whatever crashes, times out or is stopped,   *)
(* there are never two daemon processes at a time.                          *)
SingleService == \A d, e \in Daemons : Alive(d) /\ Alive(e) => d = e

(* The state file of a running daemon is neither removed nor replaced by    *)
(* anybody else (manager.go:104, service.go:52-56, stop.go:96-121,          *)
(* docs/compatibility.md:171-173).                                          *)
ReadyIsPublished == \A d \in Daemons : phase[d] = "ready" => stateFile = d

(* What the error at manager.go:102 tells of, "incompatible daemon became   *)
(* healthy while startup lock was held", does not happen: whoever got the   *)
(* lock by TryAcquireLock and starts or removes something is alone.         *)
HolderIsAlone ==
  \A c \in Clients, d \in Daemons :
    pc[c] \in {"recheck", "clear", "start", "compare", "remove"} => phase[d] \in {"none", "gone"}

(* "daemon stopped" is true of the daemon that was asked for                *)
(* (stop.go:57-93).                                                         *)
StoppedMeansStopped ==
  \A s \in Stoppers : pc[s] = "stopped" /\ loaded[s] # None => ~Healthy(loaded[s])

(* The lock is not leaked: whoever has it gives it back or becomes the      *)
(* running daemon (manager.go:90-136, service.go:52-56).                    *)
LockIsNotLeaked == lock # None ~> lock = None \/ \E d \in Daemons : phase[d] = "ready"

(* All of this implements the promise of SharedDaemon, with the daemon      *)
(* process there is as the one in service (manager.go:90-136,               *)
(* service.go:44-196).                                                      *)
Service == IF \E d \in Daemons : Alive(d) THEN CHOOSE d \in Daemons : Alive(d) ELSE None
Ready == \E d \in Daemons : phase[d] = "ready"
Served == {d \in Daemons : phase[d] # "none"}

Promise == INSTANCE SharedDaemon WITH
  service <- Service, ready <- Ready, announced <- stateFile, served <- Served

ImplementsSharedDaemon == Promise!Spec

(* docs/getting-started.md:135-136: "A newer wrapper binary replaces an     *)
(* older healthy daemon through an authenticated control request": it does  *)
(* not fail because another one is replacing that daemon already.           *)
UpgradeIsNotRefused ==
  \A w, v \in Wrappers : pc[w] = "refused" => replaced[v] # loaded[w]
=============================================================================
