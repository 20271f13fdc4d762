------------------------------ MODULE FreeTimer ------------------------------
(***************************************************************************)
(* src/kernel/freetimer.c as the machine runs it.  free_timer_rtt runs at  *)
(* IRQ level and, once entered, runs to its end.  The other operations run *)
(* at task level.  Tasks are scheduled cooperatively, so a task inside one *)
(* of them is never interleaved with another task, but the IRQ may come    *)
(* between any two of its instructions.  Only free_timer_start does more   *)
(* than one access to the array: it loads free_timers[tid], tests it, and  *)
(* stores ticks.  So it is split into StartLoad and StartStore.            *)
(* free_timer_test only reads, and is not an action.                       *)
(***************************************************************************)
EXTENDS Naturals

CONSTANTS
  NTimers,      \* MAX_FREE_TIMERS (32 in the code)
  TickValues    \* the tick counts callers pass (a U8)

ASSUME TimersAssumption ==
  NTimers \in Nat \ {0} /\ TickValues \subseteq 0..255

VARIABLES
  free_timers,  \* U8 free_timers[MAX_FREE_TIMERS]
  pc,           \* "idle", or "loaded" between the load and the store of start
  arg_tid,      \* start's tid argument
  arg_ticks,    \* start's ticks argument
  seen,         \* the value start loaded
  last_call     \* history: the last task-level call that has returned

vars == <<free_timers, pc, arg_tid, arg_ticks, seen, last_call>>

Ids == 0..NTimers-1

Call(op, tid, ticks) == [op |-> op, tid |-> tid, ticks |-> ticks]

\* No timer ever holds more than the longest tick count a caller passes.
LongestTicks == CHOOSE m \in TickValues \cup {0} :
                  \A x \in TickValues : x <= m

TypeOK ==
  /\ free_timers \in [Ids -> 0..255]
  /\ pc \in {"idle", "loaded"}
  /\ arg_tid \in Ids
  /\ arg_ticks \in TickValues \cup {0}
  /\ seen \in 0..255
  /\ last_call \in [op : {"none", "restart", "start", "stop"}, tid : Ids,
                    ticks : 0..255]

Init ==
  /\ free_timers = [t \in Ids |-> 0]
  /\ pc = "idle"
  /\ arg_tid = 0
  /\ arg_ticks = 0
  /\ seen = 0
  /\ last_call = Call("none", 0, 0)

(* The loop of free_timer_rtt stops at &free_timers[MAX_FREE_TIMERS].     *)
\* Fault: the loop stops one timer short.
RttEndOneShort == NTimers - 1
RttEnd == NTimers

(* free_timer_rtt: every nonzero timer is decremented.                    *)
Rtt ==
  /\ free_timers' = [t \in Ids |-> IF t < RttEnd /\ free_timers[t] # 0
                                   THEN free_timers[t] - 1
                                   ELSE free_timers[t]]
  /\ UNCHANGED <<pc, arg_tid, arg_ticks, seen, last_call>>

(* free_timer_restart: one store.                                         *)
Restart(tid, ticks) ==
  /\ pc = "idle"
  /\ free_timers' = [free_timers EXCEPT ![tid] = ticks]
  /\ last_call' = Call("restart", tid, ticks)
  /\ UNCHANGED <<pc, arg_tid, arg_ticks, seen>>

(* free_timer_start, first half: load free_timers[tid] for the test.      *)
StartLoad(tid, ticks) ==
  /\ pc = "idle"
  /\ pc' = "loaded"
  /\ arg_tid' = tid
  /\ arg_ticks' = ticks
  /\ seen' = free_timers[tid]
  /\ UNCHANGED <<free_timers, last_call>>

(* free_timer_start, second half: store ticks if the loaded value was 0. *)
\* Fault: the store made whatever the test saw.
StartStoreNoTest ==
  /\ pc = "loaded"
  /\ pc' = "idle"
  /\ free_timers' = [free_timers EXCEPT ![arg_tid] = arg_ticks]
  /\ last_call' = Call("start", arg_tid, arg_ticks)
  /\ UNCHANGED <<arg_tid, arg_ticks, seen>>

StartStore ==
  /\ pc = "loaded"
  /\ pc' = "idle"
  /\ free_timers' = IF seen = 0
                    THEN [free_timers EXCEPT ![arg_tid] = arg_ticks]
                    ELSE free_timers
  /\ last_call' = Call("start", arg_tid, arg_ticks)
  /\ UNCHANGED <<arg_tid, arg_ticks, seen>>

(* free_timer_stop: one store of 0.                                       *)
Stop(tid) ==
  /\ pc = "idle"
  /\ free_timers' = [free_timers EXCEPT ![tid] = 0]
  /\ last_call' = Call("stop", tid, 0)
  /\ UNCHANGED <<pc, arg_tid, arg_ticks, seen>>

Next ==
  \/ Rtt
  \/ \E tid \in Ids, ticks \in TickValues :
       Restart(tid, ticks) \/ StartLoad(tid, ticks)
  \/ StartStore
  \/ \E tid \in Ids : Stop(tid)

(* The realtime interrupt keeps firing whatever the tasks do, and a task  *)
(* that was interrupted inside free_timer_start resumes when it returns.  *)
Spec == Init /\ [][Next]_vars /\ WF_vars(Rtt) /\ WF_vars(StartStore)

-----------------------------------------------------------------------------
(* While start is between its load and its store of a stopped timer, that *)
(* timer is still stopped: the IRQ only moves timers towards 0, and no    *)
(* other task runs.  It is the invariant the refinement rests on.         *)
StartLoadStillValid ==
  pc = "loaded" /\ seen = 0 => free_timers[arg_tid] = 0

(* Refinement mapping.  A start that loaded a running timer takes effect  *)
(* at its load (it does nothing, whatever the IRQ does next); one that    *)
(* loaded a stopped timer takes effect at its store.                      *)
LinearizedCall ==
  IF pc = "loaded" /\ seen # 0 THEN Call("start", arg_tid, arg_ticks)
  ELSE last_call

(* The split free_timer_start, run with the IRQ coming between its load   *)
(* and its store, behaves like the atomic start of FreeTimerAtomic: no    *)
(* interleaving of free_timer_rtt lets it start a running timer or lose a *)
(* start.                                                                 *)
Atomic == INSTANCE FreeTimerAtomic WITH last_call <- LinearizedCall
AtomicSpec == Atomic!ASpec

(* Every running timer keeps counting down: a timer that holds v > 0 does *)
(* not hold v for ever, whatever the tasks do with it.                    *)
CountsDown ==
  \A t \in Ids, v \in 1..LongestTicks : (free_timers[t] = v) ~> (free_timers[t] # v)

=============================================================================
