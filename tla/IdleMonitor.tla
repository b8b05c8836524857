----------------------------- MODULE IdleMonitor -----------------------------
(***************************************************************************)
(* The IdleMonitor of internal/daemon/idle.go: request handlers hold leases, *)
(* and the goroutine in Wait reports that none was held for Timeout ticks.  *)
(* Begin and End change the counters under a mutex and signal after it, on  *)
(* a channel of capacity 1 that never blocks them.                          *)
(***************************************************************************)
EXTENDS Integers

CONSTANT Timeout   \* ticks without activity

VARIABLES
  active,     \* leases held
  elapsed,    \* ticks since lastActivity (Timeout: that many or more)
  wake,       \* the wake channel holds a token
  waiter,     \* the goroutine in Wait
  remaining   \* ticks until its timer fires

vars == <<active, elapsed, wake, waiter, remaining>>

TypeOK ==
  /\ active \in Nat /\ elapsed \in 0..Timeout /\ wake \in BOOLEAN
  /\ waiter \in {"none", "check", "lease", "timer", "idle", "canceled"}
  /\ remaining \in 0..Timeout

Init ==
  /\ active = 0 /\ elapsed = 0 /\ wake = FALSE
  /\ waiter = "none" /\ remaining = 0

(* The process ends, or has not started: nothing of this is left.           *)
Reset ==
  /\ active' = 0 /\ elapsed' = 0 /\ wake' = FALSE
  /\ waiter' = "none" /\ remaining' = 0

(* Begin, under the mutex. *)
Enter ==
  /\ active' = active + 1
  /\ elapsed' = 0
  /\ UNCHANGED <<wake, waiter, remaining>>

(* The function Begin returned, the first time it is called.                *)
Leave ==
  /\ active' = IF active > 0 THEN active - 1 ELSE 0
  /\ elapsed' = 0
  /\ UNCHANGED <<wake, waiter, remaining>>

(* Mutant: only somebody who holds a lease wakes the waiter. *)
Signal_Held ==
  /\ wake' = (wake \/ active > 0)
  /\ UNCHANGED <<active, elapsed, waiter, remaining>>

Signal ==
  /\ wake' = TRUE
  /\ UNCHANGED <<active, elapsed, waiter, remaining>>

Wait ==
  /\ waiter = "none" /\ waiter' = "check"
  /\ UNCHANGED <<active, elapsed, wake, remaining>>

(* The top of the loop, under the mutex: idle, or blocked until a token     *)
(* arrives or the timer fires. A token left in the channel is not lost.     *)
Check ==
  /\ waiter = "check"
  /\ \/ /\ active = 0 /\ elapsed = Timeout
        /\ waiter' = "idle" /\ UNCHANGED remaining
     \/ /\ active > 0
        /\ waiter' = "lease" /\ UNCHANGED remaining
     \/ /\ active = 0 /\ elapsed < Timeout
        /\ waiter' = "timer" /\ remaining' = Timeout - elapsed
  /\ UNCHANGED <<active, elapsed, wake>>

Wake ==
  /\ waiter \in {"lease", "timer"} /\ wake
  /\ wake' = FALSE
  /\ waiter' = "check" /\ remaining' = 0
  /\ UNCHANGED <<active, elapsed>>

TimerFires ==
  /\ waiter = "timer" /\ remaining = 0
  /\ waiter' = "check"
  /\ UNCHANGED <<active, elapsed, wake, remaining>>

(* The context is done: taken from a select only. *)
WaitCanceled ==
  /\ waiter \in {"lease", "timer"}
  /\ waiter' = "canceled" /\ remaining' = 0
  /\ UNCHANGED <<active, elapsed, wake>>

Decrease(n) == IF n > 0 THEN n - 1 ELSE 0

Tick ==
  /\ elapsed < Timeout \/ remaining > 0
  /\ elapsed' = IF elapsed < Timeout THEN elapsed + 1 ELSE Timeout
  /\ remaining' = Decrease(remaining)
  /\ UNCHANGED <<active, wake, waiter>>

Loop == Check \/ Wake \/ TimerFires
=============================================================================
