--------------------------- MODULE FreeTimerProofs ---------------------------
(***************************************************************************)
(* The split free_timer_start implements the atomic one, for every number *)
(* of timers and every set of tick counts.                                *)
(***************************************************************************)
EXTENDS FreeTimer, TLAPS

(* While start is between its load and its store, its ticks argument is   *)
(* one a caller passed.                                                   *)
LoadedArgs == pc = "loaded" => arg_ticks \in TickValues

IInv == TypeOK /\ StartLoadStillValid /\ LoadedArgs

(* The inductive invariant holds initially.                               *)
LEMMA InitIInv == Init => IInv
BY TimersAssumption DEF Init, IInv, TypeOK, StartLoadStillValid, LoadedArgs,
   Ids, Call

(* Every step keeps it: free_timer_rtt moves no stopped timer, and no     *)
(* task-level call runs while start is between its load and its store.    *)
LEMMA NextIInv == IInv /\ [Next]_vars => IInv'
<1> SUFFICES ASSUME IInv, [Next]_vars PROVE IInv'
  OBVIOUS
<1> USE TimersAssumption DEF IInv, TypeOK, StartLoadStillValid, LoadedArgs,
        Ids, Call
<1>1. CASE Rtt
  <2>1. free_timers' \in [Ids -> 0..255]
    BY <1>1 DEF Rtt, RttEnd
  <2>2. StartLoadStillValid'
    BY <1>1 DEF Rtt, RttEnd
  <2>. QED
    BY <1>1, <2>1, <2>2 DEF Rtt
<1>2. CASE \E tid \in Ids, ticks \in TickValues : Restart(tid, ticks)
  <2> PICK tid \in Ids, ticks \in TickValues : Restart(tid, ticks)
    BY <1>2
  <2>1. free_timers' \in [Ids -> 0..255]
    BY DEF Restart
  <2>. QED
    BY <2>1 DEF Restart
<1>3. CASE \E tid \in Ids, ticks \in TickValues : StartLoad(tid, ticks)
  <2> PICK tid \in Ids, ticks \in TickValues : StartLoad(tid, ticks)
    BY <1>3
  <2>. QED
    BY DEF StartLoad
<1>4. CASE StartStore
  BY <1>4 DEF StartStore
<1>5. CASE \E tid \in Ids : Stop(tid)
  BY <1>5 DEF Stop
<1>6. CASE UNCHANGED vars
  BY <1>6 DEF vars
<1>. QED
  BY <1>1, <1>2, <1>3, <1>4, <1>5, <1>6 DEF Next

(* free_timer_test, start and stop never see a timer they did not set    *)
(* change except by the IRQ's countdown: the invariant holds always.      *)
THEOREM AlwaysIInv == Spec => []IInv
BY InitIInv, NextIInv, PTL DEF Spec

-----------------------------------------------------------------------------
(* The initial state of the machine is an initial state of the atomic    *)
(* timers.                                                                *)
LEMMA InitRefines == Init => Atomic!AInit
BY DEF Init, Atomic!AInit, LinearizedCall, Call, Atomic!Call, Ids, Atomic!Ids

(* Every step of the machine is a step of the atomic timers or leaves     *)
(* them unchanged: Rtt is ARtt, Restart and Stop are themselves, a start  *)
(* that loads a running timer is AStart at its load, and one that loads a *)
(* stopped timer is AStart at its store.                                  *)
LEMMA StepRefines == IInv /\ [Next]_vars => [Atomic!ANext]_Atomic!avars
<1> SUFFICES ASSUME IInv, [Next]_vars PROVE [Atomic!ANext]_Atomic!avars
  OBVIOUS
<1> USE TimersAssumption DEF IInv, TypeOK, StartLoadStillValid, LoadedArgs,
        Ids, Atomic!Ids, Call, Atomic!Call, LinearizedCall, Atomic!avars
<1>1. CASE Rtt
  <2>1. Atomic!ARtt
    BY <1>1 DEF Rtt, RttEnd, Atomic!ARtt
  <2>. QED
    BY <2>1 DEF Atomic!ANext
<1>2. CASE \E tid \in Ids, ticks \in TickValues : Restart(tid, ticks)
  <2> PICK tid \in Ids, ticks \in TickValues : Restart(tid, ticks)
    BY <1>2
  <2>1. Atomic!ARestart(tid, ticks)
    BY DEF Restart, Atomic!ARestart
  <2>. QED
    BY <2>1 DEF Atomic!ANext
<1>3. CASE \E tid \in Ids, ticks \in TickValues : StartLoad(tid, ticks)
  <2> PICK tid \in Ids, ticks \in TickValues : StartLoad(tid, ticks)
    BY <1>3
  <2>1. CASE free_timers[tid] # 0
    <3>1. Atomic!AStart(tid, ticks)
      BY <2>1 DEF StartLoad, Atomic!AStart
    <3>. QED
      BY <3>1 DEF Atomic!ANext
  <2>2. CASE free_timers[tid] = 0
    BY <2>2 DEF StartLoad
  <2>. QED
    BY <2>1, <2>2
<1>4. CASE StartStore
  <2>1. CASE seen = 0
    <3>1. Atomic!AStart(arg_tid, arg_ticks)
      BY <1>4, <2>1 DEF StartStore, Atomic!AStart
    <3>. QED
      BY <1>4, <3>1 DEF Atomic!ANext, StartStore
  <2>2. CASE seen # 0
    BY <1>4, <2>2 DEF StartStore
  <2>. QED
    BY <2>1, <2>2
<1>5. CASE \E tid \in Ids : Stop(tid)
  <2> PICK tid \in Ids : Stop(tid)
    BY <1>5
  <2>1. Atomic!AStop(tid)
    BY DEF Stop, Atomic!AStop
  <2>. QED
    BY <2>1 DEF Atomic!ANext
<1>6. CASE UNCHANGED vars
  BY <1>6 DEF vars
<1>. QED
  BY <1>1, <1>2, <1>3, <1>4, <1>5, <1>6 DEF Next

(* The split free_timer_start, with free_timer_rtt coming between its    *)
(* load and its store, implements the atomic timers of FreeTimerAtomic.   *)
THEOREM Refinement == Spec => AtomicSpec
BY AlwaysIInv, InitRefines, StepRefines, PTL DEF Spec, AtomicSpec, Atomic!ASpec

=============================================================================
