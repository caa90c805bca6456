----------------------------- MODULE TimerQueue -----------------------------
(***************************************************************************)
(* What scheduler.h promises: a job that is scheduled is handed on when    *)
(* its time has come, never earlier, and never while an event that is due  *)
(* before it is still pending; none is lost before the scheduler is        *)
(* flushed.                                                                *)
(***************************************************************************)
EXTENDS Integers

CONSTANT Job
VARIABLES
    pending, \* scheduled events
    now,     \* the clock
    flushed  \* flush() has been called

vars == <<pending, now, flushed>>

Init == pending = {} /\ now = 0 /\ flushed = FALSE

Schedule(e) ==
    /\ ~flushed
    /\ \A p \in pending : p.job # e.job
    /\ e.time >= now
    /\ pending' = pending \cup {e}
    /\ UNCHANGED <<now, flushed>>

Fire(e) ==
    /\ ~flushed
    /\ e.time <= now
    /\ \A p \in pending : e.time <= p.time
    /\ pending' = pending \ {e}
    /\ UNCHANGED <<now, flushed>>

Flush ==
    /\ flushed' = TRUE
    /\ pending' = {}
    /\ UNCHANGED now

Tick == now' = now + 1 /\ UNCHANGED <<pending, flushed>>

Next ==
    \/ \E e \in pending : Fire(e)
    \/ \E e \in pending' : Schedule(e)
    \/ Flush
    \/ Tick

Spec == Init /\ [][Next]_vars
=============================================================================
