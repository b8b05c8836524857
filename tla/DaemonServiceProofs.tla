------------------------- MODULE DaemonServiceProofs -------------------------
(***************************************************************************)
(* Type correctness of DaemonService, and its safety properties for any    *)
(* set of requests, any timeout and any number of certificates.            *)
(***************************************************************************)
EXTENDS DaemonService, FiniteSetTheorems, TLAPS

USE ServiceAssumption

(* What the monitor counts are the handlers that hold a lease.              *)
LeasesCounted == active = Cardinality({r \in Requests : Holding(r)})

(* The certificate files, while Ensure replaces them and afterwards.        *)
FilesInv ==
  /\ main = "off" => step = "none"
  /\ step = "write" =>
       /\ written < 4 /\ material \in 1..latest /\ material \notin expiring
       /\ \A i \in 1..4 : i <= written => files[Certs!WriteOrder[i]] = material
  /\ step \in {"sync", "validate"} =>
       /\ material \in 1..latest /\ material \notin expiring
       /\ \A f \in Certs!Files : files[f] = material
  /\ step = "done" => \A f \in Certs!Files : files[f] = material
  /\ listener # "none" => main \notin {"off", "setup"} /\ step = "done"

(* Why the server and its service stop. *)
Excused == failed \/ overdue \/ ToldToStop

StopInv ==
  /\ listener = "none" \/ main = "publish" => Drained
  /\ main \in {"off", "setup"} => listener = "none"
  /\ main \in {"publish", "select"} \/ drainer # "none" => listener # "none"
  /\ finished => listener = "closed"
  /\ main \in {"publish", "select"} /\ listener = "closed" => failed \/ canceled
  /\ main \in {"off", "setup", "publish", "select"} /\ canceled => ToldToStop
  /\ main \in {"drain", "abort", "collect"} => listener = "closed"
  /\ main = "collect" => Drained
  /\ main \in {"remove", "exit"} => listener # "open" /\ (Drained \/ Excused)

IInv == TypeOK /\ LeasesCounted /\ FilesInv /\ StopInv

-----------------------------------------------------------------------------
(* Types *)

LEMMA Zero == 0 \in 0..4 /\ 0 \in 0..Timeout /\ Timeout \in Nat
BY DEF ServiceAssumption

LEMMA InitTypes == Init => TypeOK
<1> SUFFICES ASSUME Init PROVE TypeOK
  OBVIOUS
<1>1. Idle!TypeOK
  BY Zero DEF Init, Idle!Init, Idle!TypeOK
<1>2. Certs!TypeOK
  <2>1. files \in [Certs!Files -> 0..latest] /\ latest = 0
    BY DEF Init, Certs!Init
  <2>2. QED
    BY <2>1 DEF Init, Certs!Init, Certs!TypeOK
<1>3. QED
  BY <1>1, <1>2 DEF Init, TypeOK

(* What the monitor does keeps its types. *)
LEMMA IdleTypes ==
  ASSUME Idle!TypeOK,
         Idle!Enter \/ Idle!Leave \/ Idle!Signal \/ Idle!Wait \/ Idle!Loop
           \/ Idle!WaitCanceled \/ Idle!Tick \/ Idle!Reset \/ UNCHANGED idleVars
  PROVE  Idle!TypeOK'
<1>1. CASE Idle!Enter
  BY <1>1 DEF Idle!TypeOK, Idle!Enter
<1>2. CASE Idle!Leave
  BY <1>2 DEF Idle!TypeOK, Idle!Leave
<1>3. CASE Idle!Signal
  BY <1>3 DEF Idle!TypeOK, Idle!Signal
<1>4. CASE Idle!Wait
  BY <1>4 DEF Idle!TypeOK, Idle!Wait
<1>5. CASE Idle!Check
  BY <1>5 DEF Idle!TypeOK, Idle!Check
<1>6. CASE Idle!Wake
  BY <1>6, Zero DEF Idle!TypeOK, Idle!Wake
<1>7. CASE Idle!TimerFires
  BY <1>7 DEF Idle!TypeOK, Idle!TimerFires
<1>8. CASE Idle!WaitCanceled
  BY <1>8 DEF Idle!TypeOK, Idle!WaitCanceled
<1>9. CASE Idle!Tick
  BY <1>9 DEF Idle!TypeOK, Idle!Tick, Idle!Decrease
<1>10. CASE Idle!Reset
  BY <1>10, Zero DEF Idle!TypeOK, Idle!Reset
<1>11. CASE UNCHANGED idleVars
  BY <1>11 DEF Idle!TypeOK, idleVars
<1>12. QED
  BY <1>1, <1>2, <1>3, <1>4, <1>5, <1>6, <1>7, <1>8, <1>9, <1>10, <1>11 DEF Idle!Loop

LEMMA CertTypes ==
  ASSUME Certs!TypeOK,
         Certs!Begin \/ Certs!Forget \/ Certs!Ensure \/ Certs!Fail \/ Certs!Age
           \/ (\E f \in Certs!Files : Certs!Damage(f)) \/ UNCHANGED certVars,
         step = "write" => written < 4
  PROVE  Certs!TypeOK'
<1>1. CASE UNCHANGED certVars
  BY <1>1 DEF Certs!TypeOK, certVars
<1>2. CASE Certs!Begin
  BY <1>2 DEF Certs!TypeOK, Certs!Begin
<1>3. CASE Certs!Forget
  <2>1. 0 \in 0..latest
    BY DEF Certs!TypeOK
  <2>2. QED
    BY <1>3, <2>1, Zero DEF Certs!TypeOK, Certs!Forget
<1>4. CASE Certs!Age
  BY <1>4 DEF Certs!TypeOK, Certs!Age
<1>5. CASE Certs!Load
  BY <1>5 DEF Certs!TypeOK, Certs!Load
<1>6. CASE Certs!Generate
  <2>1. latest' = latest + 1 /\ material' = latest' /\ latest' \in 0..MaxGenerations
    BY <1>6 DEF Certs!TypeOK, Certs!Generate
  <2>2. files' \in [Certs!Files -> 0..latest'] /\ expiring' \subseteq 1..latest'
    BY <1>6, <2>1 DEF Certs!TypeOK, Certs!Generate
  <2>3. QED
    BY <1>6, <2>1, <2>2 DEF Certs!TypeOK, Certs!Generate
<1>7. CASE Certs!WriteFile
  <2>1. written + 1 \in 1..4 /\ Certs!WriteOrder[written + 1] \in Certs!Files
    BY <1>7 DEF Certs!TypeOK, Certs!WriteFile, Certs!WriteOrder, Certs!Files
  <2>2. files' \in [Certs!Files -> 0..latest]
    BY <1>7, <2>1 DEF Certs!TypeOK, Certs!WriteFile, Certs!Put
  <2>3. QED
    BY <1>7, <2>1, <2>2 DEF Certs!TypeOK, Certs!WriteFile
<1>8. CASE Certs!Sync \/ Certs!Validate
  BY <1>8, Zero DEF Certs!TypeOK, Certs!Sync, Certs!Validate
<1>9. CASE Certs!Fail
  <2>1. files' \in [Certs!Files -> 0..latest]
    <3>1. CASE step = "write"
      BY <1>9, <3>1 DEF Certs!TypeOK, Certs!Fail, Certs!Put, Certs!WriteOrder, Certs!Files
    <3>2. QED
      BY <1>9, <3>1 DEF Certs!TypeOK, Certs!Fail
  <2>2. QED
    BY <1>9, <2>1 DEF Certs!TypeOK, Certs!Fail
<1>10. CASE \E f \in Certs!Files : Certs!Damage(f)
  BY <1>10 DEF Certs!TypeOK, Certs!Damage
<1>11. QED
  BY <1>1, <1>2, <1>5, <1>6, <1>7, <1>8, <1>9, <1>10, <1>3, <1>4 DEF Certs!Ensure

(* A step, as one of the actions. *)
LEMMA Steps ==
  ASSUME [Next]_vars
  PROVE  \/ Boot \/ EnsureCertificates \/ Listen \/ SetupFails \/ Publish
         \/ ServeReturns \/ StartDraining \/ DrainerEnds \/ DrainerCloses \/ SelectServer \/ SelectIdle
         \/ SelectSignal \/ ShutDownDone \/ ShutDownLate \/ Collect \/ RemoveState \/ Exit
         \/ MonitorIdle \/ Signal \/ CancelRequested \/ ServeFails \/ Crash
         \/ (\E r \in Requests : Request(r)) \/ Tick \/ Damage \/ Age \/ UNCHANGED vars
BY DEF Next, Start, Server, Stop

LEMMA IdleStep ==
  ASSUME [Next]_vars
  PROVE  Idle!Enter \/ Idle!Leave \/ Idle!Signal \/ Idle!Wait \/ Idle!Loop
           \/ Idle!WaitCanceled \/ Idle!Tick \/ Idle!Reset \/ UNCHANGED idleVars
BY Steps DEF Request, Boot, EnsureCertificates, Listen, SetupFails, Publish, ServeReturns,
  StartDraining, DrainerEnds, DrainerCloses, SelectServer, SelectIdle, SelectSignal, ShutDownDone,
  ShutDownLate, Collect, RemoveState, Exit, MonitorIdle, Signal, CancelRequested, ServeFails,
  Crash, Accept, CloseUnused, BeginActivity, Serve, RequestShutdown, EndActivity, SignalEnd,
  Answer, Tick, Damage, Age, Gone, vars

LEMMA CertStep ==
  ASSUME [Next]_vars
  PROVE  Certs!Begin \/ Certs!Forget \/ Certs!Ensure \/ Certs!Fail \/ Certs!Age
           \/ (\E f \in Certs!Files : Certs!Damage(f)) \/ UNCHANGED certVars
BY Steps DEF Request, Boot, EnsureCertificates, Listen, SetupFails, Publish, ServeReturns,
  StartDraining, DrainerEnds, DrainerCloses, SelectServer, SelectIdle, SelectSignal, ShutDownDone,
  ShutDownLate, Collect, RemoveState, Exit, MonitorIdle, Signal, CancelRequested, ServeFails,
  Crash, Accept, CloseUnused, BeginActivity, Serve, RequestShutdown, EndActivity, SignalEnd,
  Answer, Tick, Damage, Age, Gone, vars

LEMMA TypeStep ==
  ASSUME TypeOK, FilesInv, [Next]_vars
  PROVE  TypeOK'
<1>1. Idle!TypeOK'
  BY IdleStep, IdleTypes DEF TypeOK
<1>2. Certs!TypeOK'
  BY CertStep, CertTypes DEF TypeOK, FilesInv
<1>3. CASE Boot
  BY <1>3, <1>1, <1>2 DEF TypeOK, Boot, contextVars, serverVars, requestVars
<1>4. CASE EnsureCertificates
  BY <1>4, <1>1, <1>2 DEF TypeOK, EnsureCertificates, contextVars, serverVars, requestVars
<1>5. CASE Listen
  BY <1>5, <1>1, <1>2 DEF TypeOK, Listen, contextVars, serverVars, requestVars
<1>6. CASE SetupFails
  BY <1>6, <1>1, <1>2 DEF TypeOK, SetupFails, Return, contextVars, serverVars, requestVars
<1>7. CASE Publish
  BY <1>7, <1>1, <1>2 DEF TypeOK, Publish, contextVars, serverVars, requestVars
<1>8. CASE ServeReturns
  BY <1>8, <1>1, <1>2 DEF TypeOK, ServeReturns, contextVars, serverVars, requestVars
<1>9. CASE StartDraining
  BY <1>9, <1>1, <1>2 DEF TypeOK, StartDraining, contextVars, serverVars, requestVars
<1>10. CASE DrainerEnds
  BY <1>10, <1>1, <1>2 DEF TypeOK, DrainerEnds, contextVars, serverVars, requestVars
<1>11. CASE DrainerCloses
  BY <1>11, <1>1, <1>2 DEF TypeOK, DrainerCloses, CutAll, contextVars, serverVars, requestVars
<1>12. CASE SelectServer
  BY <1>12, <1>1, <1>2 DEF TypeOK, SelectServer, Return, contextVars, serverVars, requestVars
<1>13. CASE SelectIdle
  BY <1>13, <1>1, <1>2 DEF TypeOK, SelectIdle, ShutDown, contextVars, serverVars, requestVars
<1>14. CASE SelectSignal
  BY <1>14, <1>1, <1>2 DEF TypeOK, SelectSignal, ShutDown, contextVars, serverVars, requestVars
<1>15. CASE ShutDownDone
  BY <1>15, <1>1, <1>2 DEF TypeOK, ShutDownDone, Return, contextVars, serverVars, requestVars
<1>16. CASE ShutDownLate
  BY <1>16, <1>1, <1>2 DEF TypeOK, ShutDownLate, Return, contextVars, serverVars, requestVars
<1>17. CASE Collect
  BY <1>17, <1>1, <1>2 DEF TypeOK, Collect, Return, contextVars, serverVars, requestVars
<1>18. CASE RemoveState
  BY <1>18, <1>1, <1>2 DEF TypeOK, RemoveState, contextVars, serverVars, requestVars
<1>19. CASE Exit
  BY <1>19, <1>1, <1>2 DEF TypeOK, Exit, Gone, CutAll, contextVars, serverVars, requestVars
<1>20. CASE MonitorIdle
  BY <1>20, <1>1, <1>2 DEF TypeOK, MonitorIdle, contextVars, serverVars, requestVars
<1>21. CASE Signal
  BY <1>21, <1>1, <1>2 DEF TypeOK, Signal, contextVars, serverVars, requestVars
<1>22. CASE CancelRequested
  BY <1>22, <1>1, <1>2 DEF TypeOK, CancelRequested, contextVars, serverVars, requestVars
<1>23. CASE ServeFails
  BY <1>23, <1>1, <1>2 DEF TypeOK, ServeFails, contextVars, serverVars, requestVars
<1>24. CASE Crash
  BY <1>24, <1>1, <1>2 DEF TypeOK, Crash, Gone, CutAll, contextVars, serverVars, requestVars
<1>25. ASSUME NEW r \in Requests, Request(r) PROVE TypeOK'
  <2>1. CASE Accept(r)
    BY <2>1, <1>1, <1>2 DEF TypeOK, Accept, contextVars, serverVars, requestVars
  <2>2. CASE CloseUnused(r)
    BY <2>2, <1>1, <1>2 DEF TypeOK, CloseUnused, contextVars, serverVars, requestVars
  <2>3. CASE BeginActivity(r)
    BY <2>3, <1>1, <1>2 DEF TypeOK, BeginActivity, Step, contextVars, serverVars, requestVars
  <2>4. CASE Serve(r)
    BY <2>4, <1>1, <1>2 DEF TypeOK, Serve, Step, contextVars, serverVars, requestVars
  <2>5. CASE RequestShutdown(r)
    BY <2>5, <1>1, <1>2 DEF TypeOK, RequestShutdown, contextVars, serverVars, requestVars
  <2>6. CASE EndActivity(r)
    BY <2>6, <1>1, <1>2 DEF TypeOK, EndActivity, Step, contextVars, serverVars, requestVars
  <2>7. CASE SignalEnd(r)
    BY <2>7, <1>1, <1>2 DEF TypeOK, SignalEnd, Step, contextVars, serverVars, requestVars
  <2>8. CASE Answer(r)
    BY <2>8, <1>1, <1>2 DEF TypeOK, Answer, contextVars, serverVars, requestVars
  <2>9. QED
    BY <1>25, <2>1, <2>2, <2>3, <2>4, <2>5, <2>6, <2>7, <2>8 DEF Request
<1>26. CASE Tick
  BY <1>26, <1>1, <1>2 DEF TypeOK, Tick, contextVars, serverVars, requestVars
<1>27. CASE Damage
  BY <1>27, <1>1, <1>2 DEF TypeOK, Damage, contextVars, serverVars, requestVars
<1>28. CASE Age
  BY <1>28, <1>1, <1>2 DEF TypeOK, Age, contextVars, serverVars, requestVars
<1>29. CASE UNCHANGED vars
  BY <1>29, <1>1, <1>2 DEF TypeOK, vars, contextVars, serverVars, requestVars
<1>30. QED
  BY Steps, <1>3, <1>4, <1>5, <1>6, <1>7, <1>8, <1>9, <1>10, <1>11, <1>12, <1>13, <1>14, <1>15,
    <1>16, <1>17, <1>18, <1>19, <1>20, <1>21, <1>22, <1>23, <1>24, <1>25, <1>26, <1>27, <1>28, <1>29

-----------------------------------------------------------------------------
(* The certificate files *)

(* Ensure and its errors, of a process that has no listener yet. *)
LEMMA EnsureFiles ==
  ASSUME TypeOK, FilesInv, main = "setup", main' = "setup", listener' = listener,
         Certs!Ensure \/ Certs!Fail
  PROVE  FilesInv'
<1>1. listener' = "none"
  BY DEF FilesInv, TypeOK
<1>2. CASE Certs!Load
  BY <1>1, <1>2 DEF FilesInv, Certs!Load, Certs!Accepted, Certs!Files
<1>3. CASE Certs!Generate
  <2>1. latest' \in 1..latest' /\ latest' \notin expiring
    BY <1>3 DEF Certs!Generate, TypeOK, Certs!TypeOK
  <2>2. \A i \in 1..4 : i <= written' => FALSE
    BY <1>3 DEF Certs!Generate
  <2>3. QED
    BY <1>1, <1>3, <2>1, <2>2 DEF FilesInv, Certs!Generate
<1>4. CASE Certs!WriteFile
  <2>1. written \in 0..3 /\ written' = written + 1 /\ material' = material /\ latest' = latest
        /\ expiring' = expiring /\ material \in 1..latest /\ material \notin expiring
    BY <1>4 DEF Certs!WriteFile, FilesInv, TypeOK, Certs!TypeOK
  <2>2. \A f \in Certs!Files : files[f] = material => files'[f] = material
    BY <1>4 DEF Certs!WriteFile, Certs!Put, TypeOK, Certs!TypeOK
  <2>3. files'[Certs!WriteOrder[written']] = material
    BY <1>4, <2>1 DEF Certs!WriteFile, Certs!Put, TypeOK, Certs!TypeOK, Certs!WriteOrder,
      Certs!Files
  <2>4. \A i \in 1..4 : Certs!WriteOrder[i] \in Certs!Files
    BY DEF Certs!WriteOrder, Certs!Files
  <2>5. \A i \in 1..4 : i <= written' => files'[Certs!WriteOrder[i]] = material'
    <3>1. ASSUME NEW i \in 1..4, i <= written' PROVE files'[Certs!WriteOrder[i]] = material'
      <4>1. CASE i = written'
        BY <4>1, <2>1, <2>3
      <4>2. CASE i <= written
        BY <1>4, <4>2, <2>1, <2>2, <2>4 DEF FilesInv, Certs!WriteFile
      <4>3. QED
        BY <3>1, <4>1, <4>2, <2>1
    <3>2. QED
      BY <3>1
  <2>6. CASE written' = 4
    <3>1. \A f \in Certs!Files : files'[f] = material'
      BY <2>5, <2>6 DEF Certs!WriteOrder, Certs!Files
    <3>2. step' = "sync"
      BY <1>4, <2>6 DEF Certs!WriteFile
    <3>3. QED
      BY <3>1, <3>2, <1>1, <2>1 DEF FilesInv
  <2>7. CASE written' # 4
    <3>1. step' = "write"
      BY <1>4, <2>7 DEF Certs!WriteFile
    <3>2. QED
      BY <3>1, <1>1, <2>1, <2>5, <2>7 DEF FilesInv
  <2>8. QED
    BY <2>6, <2>7
<1>5. CASE Certs!Sync
  BY <1>1, <1>5 DEF FilesInv, Certs!Sync
<1>6. CASE Certs!Validate
  <2>1. step' \in {"done", "failed"} /\ files' = files /\ material' = material
    BY <1>6 DEF Certs!Validate
  <2>2. \A f \in Certs!Files : files[f] = material
    BY <1>6 DEF Certs!Validate, FilesInv
  <2>3. QED
    BY <1>1, <2>1, <2>2 DEF FilesInv
<1>7. CASE Certs!Fail
  BY <1>1, <1>7 DEF FilesInv, Certs!Fail
<1>8. QED
  BY <1>2, <1>3, <1>4, <1>5, <1>6, <1>7 DEF Certs!Ensure

LEMMA FilesStep ==
  ASSUME TypeOK, FilesInv, StopInv, [Next]_vars
  PROVE  FilesInv'
<1>1. CASE Boot
  BY <1>1 DEF FilesInv, StopInv, Boot, Certs!Begin, serverVars, certVars
<1>2. CASE EnsureCertificates
  BY <1>2, EnsureFiles DEF EnsureCertificates, serverVars
<1>3. CASE Listen
  BY <1>3 DEF FilesInv, StopInv, Listen, serverVars, certVars
<1>4. CASE SetupFails
  BY <1>4 DEF FilesInv, StopInv, SetupFails, Return, serverVars, certVars
<1>5. CASE Publish
  BY <1>5 DEF FilesInv, StopInv, Publish, serverVars, certVars
<1>6. CASE ServeReturns
  BY <1>6 DEF FilesInv, StopInv, ServeReturns, serverVars, certVars
<1>7. CASE StartDraining
  BY <1>7 DEF FilesInv, StopInv, StartDraining, serverVars, certVars
<1>8. CASE DrainerEnds
  BY <1>8 DEF FilesInv, StopInv, DrainerEnds, serverVars, certVars
<1>9. CASE DrainerCloses
  BY <1>9 DEF FilesInv, StopInv, DrainerCloses, CutAll, serverVars, certVars
<1>10. CASE SelectServer
  BY <1>10 DEF FilesInv, StopInv, SelectServer, Return, serverVars, certVars
<1>11. CASE SelectIdle
  BY <1>11 DEF FilesInv, StopInv, SelectIdle, ShutDown, serverVars, certVars
<1>12. CASE SelectSignal
  BY <1>12 DEF FilesInv, StopInv, SelectSignal, ShutDown, serverVars, certVars
<1>13. CASE ShutDownDone
  BY <1>13 DEF FilesInv, StopInv, ShutDownDone, Return, serverVars, certVars
<1>14. CASE ShutDownLate
  BY <1>14 DEF FilesInv, StopInv, ShutDownLate, Return, serverVars, certVars
<1>15. CASE Collect
  BY <1>15 DEF FilesInv, StopInv, Collect, Return, serverVars, certVars
<1>16. CASE RemoveState
  BY <1>16 DEF FilesInv, StopInv, RemoveState, serverVars, certVars
<1>17. CASE Exit
  BY <1>17 DEF FilesInv, StopInv, Exit, Gone, Certs!Forget, serverVars, certVars
<1>18. CASE MonitorIdle
  BY <1>18 DEF FilesInv, StopInv, MonitorIdle, serverVars, certVars
<1>19. CASE Signal
  BY <1>19 DEF FilesInv, StopInv, Signal, serverVars, certVars
<1>20. CASE CancelRequested
  BY <1>20 DEF FilesInv, StopInv, CancelRequested, serverVars, certVars
<1>21. CASE ServeFails
  BY <1>21 DEF FilesInv, StopInv, ServeFails, serverVars, certVars
<1>22. CASE Crash
  BY <1>22 DEF FilesInv, StopInv, Crash, Gone, Certs!Forget, serverVars, certVars
<1>23. ASSUME NEW r \in Requests, Request(r) PROVE FilesInv'
  BY <1>23 DEF FilesInv, Request, Accept, CloseUnused, BeginActivity, Serve, RequestShutdown,
    EndActivity, SignalEnd, Answer, serverVars, certVars
<1>24. CASE Tick
  BY <1>24 DEF FilesInv, StopInv, Tick, serverVars, certVars
<1>25. CASE Damage
  BY <1>25 DEF FilesInv, StopInv, Damage, Certs!Damage, serverVars, certVars
<1>26. CASE Age
  BY <1>26 DEF FilesInv, StopInv, Age, Certs!Age, serverVars, certVars
<1>27. CASE UNCHANGED vars
  BY <1>27 DEF FilesInv, StopInv, vars, serverVars, certVars
<1>28. QED
  BY Steps, <1>1, <1>2, <1>3, <1>4, <1>5, <1>6, <1>7, <1>8, <1>9, <1>10, <1>11, <1>12, <1>13,
    <1>14, <1>15, <1>16, <1>17, <1>18, <1>19, <1>20, <1>21, <1>22, <1>23, <1>24, <1>25, <1>26, <1>27

-----------------------------------------------------------------------------
(* Stopping, and the handlers *)

LEMMA StopStep ==
  ASSUME TypeOK, StopInv, [Next]_vars
  PROVE  StopInv'
<1> USE DEF TypeOK, StopInv, Drained, InUse, Excused, ToldToStop
<1> USE DEF contextVars, serverVars, requestVars, vars
<1>1. CASE Boot
  BY <1>1 DEF Boot
<1>2. CASE EnsureCertificates
  BY <1>2 DEF EnsureCertificates
<1>3. CASE Listen
  BY <1>3 DEF Listen
<1>4. CASE SetupFails
  BY <1>4 DEF SetupFails, Return
<1>5. CASE Publish
  BY <1>5 DEF Publish
<1>6. CASE ServeReturns
  BY <1>6 DEF ServeReturns
<1>7. CASE StartDraining
  BY <1>7 DEF StartDraining
<1>8. CASE DrainerEnds
  BY <1>8 DEF DrainerEnds
<1>9. CASE DrainerCloses
  BY <1>9 DEF DrainerCloses, CutAll
<1>10. CASE SelectServer
  BY <1>10 DEF SelectServer, Return
<1>11. CASE SelectIdle
  BY <1>11 DEF SelectIdle, ShutDown
<1>12. CASE SelectSignal
  BY <1>12 DEF SelectSignal, ShutDown
<1>13. CASE ShutDownDone
  BY <1>13 DEF ShutDownDone, Return
<1>14. CASE ShutDownLate
  BY <1>14 DEF ShutDownLate, Return
<1>15. CASE Collect
  BY <1>15 DEF Collect, Return
<1>16. CASE RemoveState
  BY <1>16 DEF RemoveState
<1>17. CASE Exit
  BY <1>17 DEF Exit, Gone, CutAll
<1>18. CASE MonitorIdle
  BY <1>18 DEF MonitorIdle
<1>19. CASE Signal
  BY <1>19 DEF Signal
<1>20. CASE CancelRequested
  BY <1>20 DEF CancelRequested
<1>21. CASE ServeFails
  BY <1>21 DEF ServeFails
<1>22. CASE Crash
  BY <1>22 DEF Crash, Gone, CutAll
<1>23. ASSUME NEW r \in Requests, Request(r) PROVE StopInv'
  <2>1. CASE Accept(r)
    BY <2>1 DEF Accept
  <2>2. CASE CloseUnused(r)
    BY <2>2 DEF CloseUnused
  <2>3. CASE BeginActivity(r)
    BY <2>3 DEF BeginActivity, Step
  <2>4. CASE Serve(r)
    BY <2>4 DEF Serve, Step
  <2>5. CASE RequestShutdown(r)
    BY <2>5 DEF RequestShutdown
  <2>6. CASE EndActivity(r)
    BY <2>6 DEF EndActivity, Step
  <2>7. CASE SignalEnd(r)
    BY <2>7 DEF SignalEnd, Step
  <2>8. CASE Answer(r)
    BY <2>8 DEF Answer
  <2>9. QED
    BY <1>23, <2>1, <2>2, <2>3, <2>4, <2>5, <2>6, <2>7, <2>8 DEF Request
<1>24. CASE Tick
  BY <1>24 DEF Tick
<1>25. CASE Damage
  BY <1>25 DEF Damage
<1>26. CASE Age
  BY <1>26 DEF Age
<1>27. CASE UNCHANGED vars
  BY <1>27
<1>28. QED
  BY Steps, <1>1, <1>2, <1>3, <1>4, <1>5, <1>6, <1>7, <1>8, <1>9, <1>10, <1>11, <1>12, <1>13,
    <1>14, <1>15, <1>16, <1>17, <1>18, <1>19, <1>20, <1>21, <1>22, <1>23, <1>24, <1>25, <1>26, <1>27

(* A handler that takes or gives back its lease changes what is counted by  *)
(* one.                                                                     *)
LEMMA LeaseStep ==
  ASSUME TypeOK, LeasesCounted, [Next]_vars
  PROVE  LeasesCounted'
<1> DEFINE H == {r \in Requests : Holding(r)}
<1>0. IsFiniteSet(H) /\ H \subseteq Requests
  BY FS_Subset DEF ServiceAssumption
<1>1. CASE UNCHANGED <<handler, active>>
  BY <1>1 DEF LeasesCounted, Holding
<1>2. ASSUME NEW r \in Requests, BeginActivity(r) PROVE LeasesCounted'
  <2>1. H' = H \cup {r} /\ r \notin H /\ active' = active + 1
    BY <1>2 DEF BeginActivity, Step, Holding, Idle!Enter, TypeOK
  <2>2. Cardinality(H') = Cardinality(H) + 1
    BY <1>0, <2>1, FS_AddElement
  <2>3. QED
    BY <2>1, <2>2 DEF LeasesCounted
<1>3. ASSUME NEW r \in Requests, EndActivity(r) PROVE LeasesCounted'
  <2>1. H' = H \ {r} /\ r \in H
    BY <1>3 DEF EndActivity, Step, Holding, TypeOK
  <2>2. Cardinality(H') = Cardinality(H) - 1
    BY <1>0, <2>1, FS_RemoveElement
  <2>3. Cardinality(H) \in Nat /\ Cardinality(H) # 0
    BY <1>0, <2>1, FS_CardinalityType, FS_EmptySet
  <2>4. active' = active - 1
    BY <1>3, <2>3 DEF EndActivity, Idle!Leave, LeasesCounted
  <2>5. QED
    BY <2>2, <2>4 DEF LeasesCounted
<1>4. ASSUME NEW r \in Requests, Serve(r) \/ SignalEnd(r) PROVE LeasesCounted'
  <2>1. H' = H /\ active' = active
    BY <1>4 DEF Serve, SignalEnd, Step, Holding, Idle!Signal, TypeOK
  <2>2. QED
    BY <2>1 DEF LeasesCounted
<1>5. CASE Exit \/ Crash
  <2>1. H' = {} /\ active' = 0
    BY <1>5 DEF Exit, Crash, Gone, Holding, Idle!Reset
  <2>2. QED
    BY <2>1, FS_EmptySet DEF LeasesCounted
<1>6. CASE MonitorIdle \/ Publish \/ Tick
  BY <1>1, <1>6 DEF MonitorIdle, Publish, Tick, requestVars, idleVars, Idle!Wait, Idle!Loop,
    Idle!Check, Idle!Wake, Idle!TimerFires, Idle!WaitCanceled, Idle!Tick
<1>7. ASSUME NEW r \in Requests, Request(r) PROVE LeasesCounted'
  BY <1>1, <1>2, <1>3, <1>4, <1>7 DEF Request, Accept, CloseUnused, RequestShutdown, Answer,
    requestVars, idleVars
<1>8. QED
  BY <1>1, <1>5, <1>6, <1>7, Steps DEF Boot, EnsureCertificates, Listen, SetupFails, ServeReturns,
    StartDraining, DrainerEnds, DrainerCloses, SelectServer, SelectIdle, SelectSignal,
    ShutDownDone, ShutDownLate, Collect, RemoveState, Signal, CancelRequested, ServeFails, Damage,
    Age,
    requestVars, idleVars, vars

-----------------------------------------------------------------------------
LEMMA InitInv == Init => IInv
<1> SUFFICES ASSUME Init PROVE IInv
  OBVIOUS
<1>1. LeasesCounted
  <2>1. {r \in Requests : Holding(r)} = {} /\ active = 0
    BY DEF Init, Holding, Idle!Init
  <2>2. QED
    BY <2>1, FS_EmptySet DEF LeasesCounted
<1>2. FilesInv
  BY DEF FilesInv, Init, Certs!Init
<1>3. StopInv
  BY DEF StopInv, Init, Drained, InUse
<1>4. QED
  BY <1>1, <1>2, <1>3, InitTypes DEF IInv

LEMMA InvStep == IInv /\ [Next]_vars => IInv'
BY TypeStep, LeaseStep, FilesStep, StopStep DEF IInv

(* The inductive invariant: types, the count of leases, the files, and why  *)
(* the service stops.                                                       *)
THEOREM Invariance == Spec => []IInv
BY InitInv, InvStep, PTL DEF Spec

(* The variables keep their types, whoever starts and stops the daemon.     *)
THEOREM TypeCorrect == Spec => []TypeOK
<1>1. IInv => TypeOK
  BY DEF IInv
<1>2. QED
  BY <1>1, Invariance, PTL

(* What a client trusts is what the server was given (manager.go:36-69).    *)
THEOREM CertificatesMatch == Spec => []CertificateIsTrusted
<1>1. IInv => CertificateIsTrusted
  <2> SUFFICES ASSUME IInv PROVE CertificateIsTrusted
    OBVIOUS
  <2>1. listener # "none" => \A f \in Certs!Files : files[f] = material
    BY DEF IInv, FilesInv
  <2>2. ASSUME step = "validate" PROVE Certs!Accepted(material)
    <3>1. /\ \A f \in Certs!Files : files[f] = material
          /\ material \in 1..latest /\ material \notin expiring /\ latest \in Nat
      BY <2>2 DEF IInv, FilesInv, TypeOK, Certs!TypeOK
    <3>2. QED
      BY <3>1 DEF Certs!Accepted, Certs!Files
  <2>3. QED
    BY <2>1, <2>2 DEF CertificateIsTrusted
<1>2. QED
  BY <1>1, Invariance, PTL

(* The monitor never calls a daemon idle while a handler holds its lease:   *)
(* it takes that decision under the mutex of the counters (idle.go:65-68).  *)
THEOREM IdleWithoutLease ==
  Spec => [][waiter' = "idle" /\ waiter # "idle" => ~\E r \in Requests : Holding(r)]_vars
<1>1. ASSUME IInv, [Next]_vars
      PROVE  [waiter' = "idle" /\ waiter # "idle" => ~\E r \in Requests : Holding(r)]_vars
  <2> SUFFICES ASSUME waiter' = "idle", waiter # "idle"
               PROVE  ~\E r \in Requests : Holding(r)
    OBVIOUS
  <2> DEFINE H == {r \in Requests : Holding(r)}
  <2>1. active = 0
    <3>1. CASE Idle!Check
      BY <3>1 DEF Idle!Check
    <3>2. CASE Idle!Wake \/ Idle!TimerFires \/ Idle!WaitCanceled \/ Idle!Wait \/ Idle!Reset
      BY <3>2 DEF Idle!Wake, Idle!TimerFires, Idle!WaitCanceled, Idle!Wait, Idle!Reset
    <3>3. CASE Idle!Enter \/ Idle!Leave \/ Idle!Signal \/ Idle!Tick \/ UNCHANGED idleVars
      BY <3>3 DEF Idle!Enter, Idle!Leave, Idle!Signal, Idle!Tick, idleVars
    <3>4. QED
      BY <1>1, <3>1, <3>2, <3>3, IdleStep DEF Idle!Loop
  <2>2. IsFiniteSet(H) /\ Cardinality(H) = 0
    <3>1. IsFiniteSet(H)
      BY FS_Subset DEF ServiceAssumption
    <3>2. QED
      BY <1>1, <3>1, <2>1 DEF IInv, LeasesCounted
  <2>3. H = {}
    <3> HIDE DEF H
    <3>1. QED
      BY <2>2, FS_EmptySet
  <2>4. QED
    BY <2>3
<1>2. QED
  BY <1>1, Invariance, PTL DEF Spec

(* A connection in use is lost by a daemon that goes idle only if it fails  *)
(* or its drain runs into the timeout (service.go:173-195).                 *)
THEOREM IdleExitIsGraceful == Spec => IdleExitCutsNothing
<1>1. ASSUME IInv, [Next]_vars
      PROVE  [\A r \in Requests : conn[r] = "open" /\ conn'[r] = "cut" =>
                Crash \/ failed \/ overdue' \/ overdue \/ ToldToStop]_vars
  <2> SUFFICES ASSUME NEW r \in Requests, conn[r] = "open", conn'[r] = "cut"
               PROVE  Crash \/ failed \/ overdue' \/ overdue \/ ToldToStop
    OBVIOUS
  <2>1. \/ Exit \/ Crash \/ DrainerCloses \/ Boot \/ UNCHANGED requestVars
        \/ \E q \in Requests : Request(q)
    BY <1>1, Steps DEF EnsureCertificates, Listen, SetupFails, Publish, ServeReturns,
      StartDraining, DrainerEnds, SelectServer, SelectIdle, SelectSignal, ShutDownDone,
      ShutDownLate, Collect, RemoveState, MonitorIdle, Signal, CancelRequested, ServeFails,
      Tick, Damage, Age, vars
  <2>2. CASE DrainerCloses
    BY <2>2 DEF DrainerCloses
  <2>3. CASE Exit
    <3>1. ~Drained
      BY DEF Drained, InUse
    <3>2. main = "exit"
      BY <2>3 DEF Exit
    <3>3. Excused
      BY <1>1, <3>1, <3>2 DEF IInv, StopInv
    <3>4. QED
      BY <3>3, Zenon DEF Excused
  <2>4. CASE Boot \/ UNCHANGED requestVars
    BY <2>4 DEF Boot, requestVars
  <2>5. ASSUME NEW q \in Requests, Request(q) PROVE FALSE
    <3>1. \/ UNCHANGED conn
          \/ \E v \in {"open", "refused", "answered"} : conn' = [conn EXCEPT ![q] = v]
      BY <2>5 DEF Request, Accept, CloseUnused, BeginActivity, Serve, RequestShutdown, EndActivity,
        SignalEnd, Answer, requestVars
    <3>2. conn[r] # "cut" /\ conn \in [Requests -> {"none", "open", "answered", "refused", "cut"}]
      BY <1>1 DEF IInv, TypeOK
    <3>3. QED
      BY <3>1, <3>2
  <2>6. QED
    BY <2>1, <2>2, <2>3, <2>4, <2>5
<1>2. QED
  BY <1>1, Invariance, PTL DEF Spec, IdleExitCutsNothing

(* A monitor that waits for a lease to end is woken: the lease is there, or *)
(* the token, or the handler that gave back the last lease and signals next *)
(* (idle.go:42-59, 75-110). IdleServiceEnds rests on it.                    *)
LEMMA WokenStep ==
  ASSUME TypeOK, LeasesCounted, MonitorIsWoken, [Next]_vars
  PROVE  MonitorIsWoken'
<1>1. active \in Nat /\ wake \in BOOLEAN
  BY DEF TypeOK, Idle!TypeOK
<1>2. CASE UNCHANGED <<handler, active, wake, waiter>>
  BY <1>2 DEF MonitorIsWoken
<1>3. ASSUME NEW r \in Requests, Request(r) PROVE MonitorIsWoken'
  <2>1. CASE Accept(r) \/ CloseUnused(r) \/ RequestShutdown(r) \/ Answer(r)
    BY <1>2, <2>1 DEF Accept, CloseUnused, RequestShutdown, Answer, requestVars, idleVars
  <2>2. CASE BeginActivity(r)
    BY <1>1, <2>2 DEF BeginActivity, Idle!Enter, MonitorIsWoken
  <2>3. CASE Serve(r) \/ SignalEnd(r)
    BY <2>3 DEF Serve, SignalEnd, Idle!Signal, MonitorIsWoken
  <2>4. CASE EndActivity(r)
    <3>1. handler'[r] = "ended"
      BY <2>4 DEF EndActivity, Step, TypeOK
    <3> QED BY <3>1 DEF MonitorIsWoken
  <2> QED BY <1>3, <2>1, <2>2, <2>3, <2>4 DEF Request
<1>4. CASE MonitorIdle
  BY <1>1, <1>4 DEF MonitorIdle, requestVars, MonitorIsWoken, Idle!Loop, Idle!Check, Idle!Wake,
    Idle!TimerFires, Idle!WaitCanceled
<1>5. CASE Exit \/ Crash
  BY <1>5 DEF Exit, Crash, Gone, Idle!Reset, MonitorIsWoken
<1>6. CASE Publish
  BY <1>2, <1>6 DEF Publish, Idle!Wait, requestVars, idleVars, MonitorIsWoken
<1>7. CASE Tick
  BY <1>2, <1>7 DEF Tick, Idle!Tick, requestVars
<1> QED BY <1>2, <1>3, <1>4, <1>5, <1>6, <1>7, Steps DEF Boot, EnsureCertificates, Listen, SetupFails,
    ServeReturns, StartDraining, DrainerEnds, DrainerCloses, SelectServer, SelectIdle, SelectSignal,
    ShutDownDone, ShutDownLate, Collect, RemoveState, Signal, CancelRequested, ServeFails, Damage,
    Age, requestVars, idleVars, vars

(* No signal of a handler that gives back the last lease is lost on the     *)
(* monitor, which may look at the counters at any time (idle.go:61-110).    *)
THEOREM NoSignalIsLost == Spec => []MonitorIsWoken
<1>1. Init => MonitorIsWoken
  BY DEF Init, Idle!Init, MonitorIsWoken
<1>2. IInv /\ MonitorIsWoken /\ [Next]_vars => MonitorIsWoken'
  BY WokenStep DEF IInv
<1> QED BY <1>1, <1>2, Invariance, PTL DEF Spec

=============================================================================
