---------------------------- MODULE SharedDaemon ----------------------------
(***************************************************************************)
(* What the processes of one state directory promise together: at most one *)
(* daemon is in service, each serves once, and while it is ready the       *)
(* announcement everybody reads is its own.                                *)
(***************************************************************************)
CONSTANTS Daemons, None

VARIABLES
  service,    \* the daemon in service, or None
  ready,      \* whether it is ready
  announced,  \* the daemon that clients are told of, or None
  served      \* the daemons that were in service so far

vars == <<service, ready, announced, served>>

Init == service = None /\ ready = FALSE /\ announced = None /\ served = {}

Begin(d) ==
  /\ service = None /\ d \notin served
  /\ service' = d /\ served' = served \cup {d}
  /\ UNCHANGED <<ready, announced>>

Announce ==
  /\ service # None /\ ~ready
  /\ announced' = service /\ ready' \in BOOLEAN
  /\ UNCHANGED <<service, served>>

Withdraw ==
  /\ ready /\ ready' = FALSE
  /\ UNCHANGED <<service, announced, served>>

Forget ==
  /\ ~ready /\ announced' = None
  /\ UNCHANGED <<service, ready, served>>

End ==
  /\ service # None
  /\ service' = None /\ ready' = FALSE
  /\ UNCHANGED <<announced, served>>

Next == (\E d \in Daemons : Begin(d)) \/ Announce \/ Withdraw \/ Forget \/ End

Spec == Init /\ [][Next]_vars
=============================================================================
