---------------------------- MODULE DaemonService ----------------------------
(***************************************************************************)
(* One daemon process after the other, from the inside: RunService         *)
(* (daemon/service.go) with the goroutines of the HTTPS server             *)
(* (server/server.go), the idle monitor, the certificates it loads, the    *)
(* Shutdown call (daemon/shutdown.go) and the requests that are served.    *)
(* DaemonLifecycle has the same processes from the outside.                *)
(*                                                                         *)
(* A request is an authenticated one: /healthz holds no lease and changes  *)
(* nothing. Of net/http the model has: Shutdown closes the listener, so    *)
(* that Serve returns at once, and waits for the connections in use, up to *)
(* a timeout; Close cuts them; what a handler wrote is sent as it returns. *)
(***************************************************************************)
EXTENDS Naturals, FiniteSets

CONSTANTS
  Requests,        \* made to one process, each on a connection of its own
  Controls,        \* those that are Shutdown calls
  Timeout,         \* of the idle monitor, in ticks
  MaxGenerations   \* bound on the sets of certificates ever made

ASSUME ServiceAssumption ==
  /\ Controls \subseteq Requests /\ IsFiniteSet(Requests)
  /\ Timeout \in Nat \ {0} /\ MaxGenerations \in Nat

VARIABLES
  main,       \* RunService
  signaled,   \* its context is done
  canceled,   \* the service context, derived from it, is done
  requested,  \* a Shutdown handler has started the goroutine that cancels
  listener,   \* "none", "open" or "closed"
  finished,   \* Serve has returned
  drainer,    \* the goroutine of server.Start that waits for the context
  failed,     \* Serve returned an error of its own
  overdue,    \* a Shutdown of the server ran into its timeout
  published,  \* the state file is there
  handler, conn,  \* of each request: its handler, its connection
  active, elapsed, wake, waiter, remaining,               \* IdleMonitor
  files, latest, expiring, step, written, material        \* CertificateStore

Idle == INSTANCE IdleMonitor
Certs == INSTANCE CertificateStore

idleVars == <<active, elapsed, wake, waiter, remaining>>
certVars == <<files, latest, expiring, step, written, material>>
contextVars == <<signaled, canceled, requested>>
serverVars == <<listener, finished, drainer, failed, overdue>>
requestVars == <<handler, conn>>
vars == <<main, contextVars, serverVars, published, requestVars, idleVars, certVars>>

Running == main # "off"

(* A handler that took its lease, until it has given it back. *)
Holding(r) == handler[r] \in {"begun", "serving"}

TypeOK ==
  /\ main \in {"off", "setup", "publish", "select", "drain", "abort", "collect",
               "remove", "exit"}
  /\ signaled \in BOOLEAN /\ canceled \in BOOLEAN /\ requested \in BOOLEAN
  /\ listener \in {"none", "open", "closed"}
  /\ finished \in BOOLEAN /\ failed \in BOOLEAN /\ overdue \in BOOLEAN
  /\ drainer \in {"none", "watch", "drain", "done"}
  /\ published \in BOOLEAN
  /\ handler \in [Requests -> {"none", "begun", "serving", "ended", "returned"}]
  /\ conn \in [Requests -> {"none", "open", "answered", "refused", "cut"}]
  /\ Idle!TypeOK /\ Certs!TypeOK

Init ==
  /\ main = "off"
  /\ signaled = FALSE /\ canceled = FALSE /\ requested = FALSE
  /\ listener = "none" /\ finished = FALSE /\ drainer = "none"
  /\ failed = FALSE /\ overdue = FALSE /\ published = FALSE
  /\ handler = [r \in Requests |-> "none"] /\ conn = [r \in Requests |-> "none"]
  /\ Idle!Init /\ Certs!Init

-----------------------------------------------------------------------------
(* Start of the process *)

(* The requests are those made to one process. *)
Boot ==
  /\ main = "off" /\ main' = "setup"
  /\ Certs!Begin
  /\ conn' = [r \in Requests |-> "none"]
  /\ UNCHANGED <<handler, contextVars, serverVars, published, idleVars>>

EnsureCertificates ==
  /\ main = "setup"
  /\ Certs!Ensure \/ Certs!Fail
  /\ UNCHANGED <<main, contextVars, serverVars, published, requestVars, idleVars>>

(* server.Start, which refuses a context that is done, and starts Serve and *)
(* the drainer. The address may be taken.                                   *)
Listen ==
  /\ main = "setup" /\ step = "done" /\ ~canceled
  /\ main' = "publish"
  /\ listener' = "open" /\ drainer' = "watch"
  /\ UNCHANGED <<finished, failed, overdue>>
  /\ UNCHANGED <<contextVars, published, requestVars, idleVars, certVars>>

(* RunService returns: the service context is canceled first. *)
Return ==
  /\ main' = "remove" /\ canceled' = TRUE
  /\ UNCHANGED <<signaled, requested>>

SetupFails ==
  /\ main = "setup" /\ step \in {"done", "failed"}
  /\ Return
  /\ UNCHANGED <<serverVars, published, requestVars, idleVars, certVars>>

(* StateStore.Save, and the goroutines RunService waits for. An error may   *)
(* come after the file was replaced.                                        *)
Publish ==
  /\ main = "publish"
  /\ \/ main' = "select" /\ published' = TRUE /\ Idle!Wait /\ UNCHANGED listener
     \/ /\ main' = "abort" /\ published' \in {published, TRUE}
        /\ listener' = "closed" /\ UNCHANGED idleVars
  /\ UNCHANGED <<contextVars, finished, drainer, failed, overdue, requestVars, certVars>>

-----------------------------------------------------------------------------
(* Reasons to stop *)

Signal ==
  /\ Running /\ ~signaled
  /\ signaled' = TRUE /\ canceled' = TRUE
  /\ UNCHANGED <<main, requested, serverVars, published, requestVars, idleVars, certVars>>

(* The goroutine a Shutdown handler started. *)
CancelRequested ==
  /\ requested /\ ~canceled
  /\ canceled' = TRUE
  /\ UNCHANGED <<main, signaled, requested, serverVars, published, requestVars, idleVars, certVars>>

ServeFails ==
  /\ listener = "open"
  /\ listener' = "closed" /\ finished' = TRUE /\ failed' = TRUE
  /\ UNCHANGED <<drainer, overdue, main, contextVars, published, requestVars, idleVars, certVars>>

(* Mutant: a server that was closed is not reported as finished. *)
ServeReturns_OnError ==
  /\ listener = "closed" /\ ~finished /\ failed
  /\ finished' = TRUE
  /\ UNCHANGED <<listener, drainer, failed, overdue>>
  /\ UNCHANGED <<main, contextVars, published, requestVars, idleVars, certVars>>

ServeReturns ==
  /\ listener = "closed" /\ ~finished
  /\ finished' = TRUE
  /\ UNCHANGED <<listener, drainer, failed, overdue>>
  /\ UNCHANGED <<main, contextVars, published, requestVars, idleVars, certVars>>

(* The loop of the idle monitor, as long as its result is waited for.       *)
MonitorIdle ==
  /\ main = "select"
  /\ Idle!Loop \/ (canceled /\ Idle!WaitCanceled)
  /\ UNCHANGED <<main, contextVars, serverVars, published, requestVars, certVars>>

-----------------------------------------------------------------------------
(* Draining *)

(* A connection is in use until its answer is sent. *)
InUse(r) == conn[r] = "open"
Drained == ~\E r \in Requests : InUse(r)

StartDraining ==
  /\ drainer = "watch" /\ canceled
  /\ drainer' = "drain" /\ listener' = "closed"
  /\ UNCHANGED <<finished, failed, overdue>>
  /\ UNCHANGED <<main, contextVars, published, requestVars, idleVars, certVars>>

(* Drained, or the server is finished before the context is done.           *)
DrainerEnds ==
  /\ (drainer = "drain" /\ Drained) \/ (drainer = "watch" /\ finished)
  /\ drainer' = "done"
  /\ UNCHANGED <<listener, finished, failed, overdue>>
  /\ UNCHANGED <<main, contextVars, published, requestVars, idleVars, certVars>>

CutAll == conn' = [r \in Requests |-> IF conn[r] = "open" THEN "cut" ELSE conn[r]]

(* automaticShutdownTimeout, and Close. *)
DrainerCloses ==
  /\ drainer = "drain" /\ ~Drained
  /\ drainer' = "done" /\ overdue' = TRUE
  /\ CutAll
  /\ UNCHANGED <<listener, finished, failed, handler>>
  /\ UNCHANGED <<main, contextVars, published, idleVars, certVars>>

-----------------------------------------------------------------------------
(* The select of RunService and what follows *)

SelectServer ==
  /\ main = "select" /\ finished
  /\ Return
  /\ UNCHANGED <<serverVars, published, requestVars, idleVars, certVars>>

(* cancelService, then shutdownServiceServer. *)
ShutDown ==
  /\ canceled' = TRUE /\ UNCHANGED <<signaled, requested>>
  /\ main' = "drain"
  /\ listener' = "closed" /\ UNCHANGED <<finished, drainer, failed, overdue>>

(* Mutant: the result of the monitor ends RunService at once. *)
SelectIdle_Returns ==
  /\ main = "select" /\ waiter \in {"idle", "canceled"}
  /\ Return
  /\ UNCHANGED <<serverVars, published, requestVars, idleVars, certVars>>

SelectIdle ==
  /\ main = "select" /\ waiter \in {"idle", "canceled"}
  /\ ShutDown
  /\ UNCHANGED <<published, requestVars, idleVars, certVars>>

SelectSignal ==
  /\ main = "select" /\ signaled
  /\ ShutDown
  /\ UNCHANGED <<published, requestVars, idleVars, certVars>>

(* shutdownServiceServer is done within its timeout; after an error of Save *)
(* RunService returns then.                                                 *)
ShutDownDone ==
  /\ main \in {"drain", "abort"} /\ Drained
  /\ IF main = "drain" THEN main' = "collect" /\ UNCHANGED contextVars ELSE Return
  /\ UNCHANGED <<serverVars, published, requestVars, idleVars, certVars>>

ShutDownLate ==
  /\ main \in {"drain", "abort"} /\ ~Drained
  /\ Return
  /\ overdue' = TRUE
  /\ UNCHANGED <<listener, finished, drainer, failed>>
  /\ UNCHANGED <<published, requestVars, idleVars, certVars>>

(* <-serverResult *)
Collect ==
  /\ main = "collect" /\ finished
  /\ Return
  /\ UNCHANGED <<serverVars, published, requestVars, idleVars, certVars>>

RemoveState ==
  /\ main = "remove" /\ main' = "exit"
  /\ published' \in {published, FALSE}
  /\ UNCHANGED <<contextVars, serverVars, requestVars, idleVars, certVars>>

(* The process is gone, and its connections with it.                        *)
Gone ==
  /\ main' = "off"
  /\ signaled' = FALSE /\ canceled' = FALSE /\ requested' = FALSE
  /\ listener' = "none" /\ finished' = FALSE /\ drainer' = "none"
  /\ failed' = FALSE /\ overdue' = FALSE
  /\ handler' = [r \in Requests |-> "none"]
  /\ CutAll
  /\ Idle!Reset /\ Certs!Forget
  /\ UNCHANGED published

(* The lock is closed and serve returns. *)
Exit == main = "exit" /\ Gone

Crash == Running /\ main # "exit" /\ Gone

-----------------------------------------------------------------------------
(* Requests *)

(* A connection is accepted. Nobody knows the address before it is saved.   *)
Accept(r) ==
  /\ conn[r] = "none" /\ listener = "open" /\ main # "publish"
  /\ conn' = [conn EXCEPT ![r] = "open"]
  /\ UNCHANGED handler
  /\ UNCHANGED <<main, contextVars, serverVars, published, idleVars, certVars>>

(* Shutdown closes a connection on which no request has come.               *)
CloseUnused(r) ==
  /\ conn[r] = "open" /\ handler[r] = "none"
  /\ drainer = "drain" \/ main \in {"drain", "abort"}
  /\ conn' = [conn EXCEPT ![r] = "refused"]
  /\ UNCHANGED handler
  /\ UNCHANGED <<main, contextVars, serverVars, published, idleVars, certVars>>

Step(r, from, to) == handler[r] = from /\ handler' = [handler EXCEPT ![r] = to]

(* The handlers: Begin is called, and has signaled; ...                     *)
BeginActivity(r) ==
  /\ conn[r] = "open"
  /\ Step(r, "none", "begun")
  /\ Idle!Enter
  /\ UNCHANGED <<conn, main, contextVars, serverVars, published, certVars>>

Serve(r) ==
  /\ Step(r, "begun", "serving")
  /\ Idle!Signal
  /\ UNCHANGED <<conn, main, contextVars, serverVars, published, certVars>>

(* ... a Shutdown call starts the goroutine that cancels; ...               *)
RequestShutdown(r) ==
  /\ r \in Controls /\ handler[r] = "serving" /\ ~requested
  /\ requested' = TRUE
  /\ UNCHANGED <<requestVars, main, signaled, canceled, serverVars, published, idleVars, certVars>>

(* ... endActivity, deferred, is called; ...                                *)
EndActivity(r) ==
  /\ r \in Controls => requested
  /\ Step(r, "serving", "ended")
  /\ Idle!Leave
  /\ UNCHANGED <<conn, main, contextVars, serverVars, published, certVars>>

(* ... it has signaled; ...                                                 *)
SignalEnd(r) ==
  /\ Step(r, "ended", "returned")
  /\ Idle!Signal
  /\ UNCHANGED <<conn, main, contextVars, serverVars, published, certVars>>

(* ... and the server sends the answer. *)
Answer(r) ==
  /\ handler[r] = "returned" /\ conn[r] = "open"
  /\ conn' = [conn EXCEPT ![r] = "answered"]
  /\ UNCHANGED handler
  /\ UNCHANGED <<main, contextVars, serverVars, published, idleVars, certVars>>

Request(r) ==
  \/ Accept(r) \/ CloseUnused(r) \/ BeginActivity(r) \/ Serve(r) \/ RequestShutdown(r)
  \/ EndActivity(r) \/ SignalEnd(r) \/ Answer(r)

-----------------------------------------------------------------------------
(* Surroundings *)

Tick ==
  /\ main = "select"
  /\ Idle!Tick
  /\ UNCHANGED <<main, contextVars, serverVars, published, requestVars, certVars>>

Damage ==
  /\ main = "off"
  /\ \E f \in Certs!Files : files[f] # 0 /\ Certs!Damage(f)
  /\ UNCHANGED <<main, contextVars, serverVars, published, requestVars, idleVars>>

Age ==
  /\ main = "off" /\ expiring # 1..latest
  /\ Certs!Age
  /\ UNCHANGED <<main, contextVars, serverVars, published, requestVars, idleVars>>

Start == EnsureCertificates \/ Listen \/ SetupFails \/ Publish
Server == ServeReturns \/ StartDraining \/ DrainerEnds \/ DrainerCloses
Stop ==
  \/ SelectServer \/ SelectIdle \/ SelectSignal \/ ShutDownDone \/ ShutDownLate
  \/ Collect \/ RemoveState \/ Exit

Next ==
  \/ Boot \/ Start \/ Server \/ Stop \/ MonitorIdle
  \/ Signal \/ CancelRequested \/ ServeFails \/ Crash
  \/ \E r \in Requests : Request(r)
  \/ Tick \/ Damage \/ Age

Spec == Init /\ [][Next]_vars

(* Go runs every goroutine that can run, timers fire, and time passes. A    *)
(* handler may run for ever; clients owe nothing; nobody has to start a     *)
(* daemon.                                                                  *)
FairSpec ==
  /\ Spec
  /\ WF_vars(Start) /\ WF_vars(Stop) /\ WF_vars(MonitorIdle)
  /\ WF_vars(ServeReturns) /\ WF_vars(StartDraining)
  /\ WF_vars(DrainerEnds \/ DrainerCloses) /\ WF_vars(CancelRequested)
  /\ WF_vars(Tick)
  /\ \A r \in Requests : WF_vars(Serve(r)) /\ WF_vars(SignalEnd(r))

-----------------------------------------------------------------------------
(* Nobody is cut off by a daemon that goes because it is idle, although a   *)
(* request may begin after the monitor has decided (idle.go:69,             *)
(* service.go:173-181): a connection in use is lost only to a crash, a      *)
(* server that failed, the timeout of the drain, or a daemon that was told  *)
(* to stop.                                                                 *)
ToldToStop == signaled \/ requested

IdleExitCutsNothing ==
  [][\A r \in Requests : conn[r] = "open" /\ conn'[r] = "cut" =>
       Crash \/ failed \/ overdue' \/ overdue \/ ToldToStop]_vars

(* Whoever reads the state file of a running daemon can verify it: the      *)
(* server was given material that the CA certificate on disk vouches for,   *)
(* wherever an earlier process died while it replaced the four files        *)
(* (manager.go:56-66, 145-149). And generate never fails its validation.    *)
CertificateIsTrusted ==
  /\ listener # "none" => \A f \in Certs!Files : files[f] = material
  /\ step = "validate" => Certs!Accepted(material)

(* A service whose context is done ends, whatever its requests do           *)
(* (service.go:166-195, server.go:128-138).                                 *)
ServiceEnds == canceled ~> main = "off"

(* The monitor does not wait for a lease to end when there is none, unless  *)
(* it is told so by a token in its channel or by a handler that is about to *)
(* signal: a signal that falls between a look at the counters and the wait, *)
(* or finds the channel full, is not lost (idle.go:42-59, 75-110).          *)
MonitorIsWoken ==
  waiter = "lease" => active > 0 \/ wake \/ \E r \in Requests : handler[r] = "ended"

(* A daemon does not stay once nobody uses it: neither a signal that falls  *)
(* between a look at the counters and a wait, nor one that finds the        *)
(* channel full, leaves the monitor asleep (idle.go:61-110).                *)
IdleServiceEnds == []<>(main # "select" \/ \E r \in Requests : Holding(r))
=============================================================================
