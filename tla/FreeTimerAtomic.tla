--------------------------- MODULE FreeTimerAtomic ---------------------------
(***************************************************************************)
(* What src/kernel/freetimer.c promises its callers: an array of byte     *)
(* counters, each decremented towards zero by the realtime interrupt, and  *)
(* four task-level operations each of which takes effect at one instant.   *)
(* free_timer_start in particular sets a timer only if it is stopped.     *)
(***************************************************************************)
EXTENDS Naturals

CONSTANTS
  NTimers,      \* MAX_FREE_TIMERS
  TickValues    \* the tick counts callers pass

VARIABLES
  free_timers,
  last_call     \* the last task-level call that has taken effect

avars == <<free_timers, last_call>>

Ids == 0..NTimers-1

Call(op, tid, ticks) == [op |-> op, tid |-> tid, ticks |-> ticks]

AInit == free_timers = [t \in Ids |-> 0] /\ last_call = Call("none", 0, 0)

(* One realtime tick: every running timer loses one tick.                *)
ARtt == /\ free_timers' = [t \in Ids |-> IF free_timers[t] # 0
                                         THEN free_timers[t] - 1
                                         ELSE 0]
        /\ UNCHANGED last_call

ARestart(tid, ticks) ==
  /\ free_timers' = [free_timers EXCEPT ![tid] = ticks]
  /\ last_call' = Call("restart", tid, ticks)

AStart(tid, ticks) ==
  /\ free_timers' = IF free_timers[tid] = 0
                    THEN [free_timers EXCEPT ![tid] = ticks]
                    ELSE free_timers
  /\ last_call' = Call("start", tid, ticks)

AStop(tid) ==
  /\ free_timers' = [free_timers EXCEPT ![tid] = 0]
  /\ last_call' = Call("stop", tid, 0)

ANext ==
  \/ ARtt
  \/ \E tid \in Ids, ticks \in TickValues :
       ARestart(tid, ticks) \/ AStart(tid, ticks)
  \/ \E tid \in Ids : AStop(tid)

ASpec == AInit /\ [][ANext]_avars

=============================================================================
