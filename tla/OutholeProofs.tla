---------------------------- MODULE OutholeProofs ----------------------------
(***************************************************************************)
(* The multidrain award of outhole.c is right for every number of drains. *)
(***************************************************************************)
EXTENDS Outhole, TLAPS

(* The count is the window's drain count, held at 6 by bounded_increment; *)
(* a window of three or more drains has made the award due; and the award *)
(* flag agrees with it.                                                   *)
CountTracksWindow == multidrain_count = IF window < 6 THEN window ELSE 6
WindowAward == window >= 3 => award_due

(* No more tasks sleep than drains have happened.                        *)
SleepersBound == sleepers <= drains

IInv == /\ TypeOK /\ SleepersBound /\ CountTracksWindow /\ WindowAward
        /\ AwardIffThreeInWindow

(* The parts of IInv about numbers, and those about flags; the provers    *)
(* take them apart.                                                       *)
NumPart == /\ multidrain_count \in 0..6 /\ window \in Nat
           /\ sleepers \in 0..MaxDrains /\ drains \in 0..MaxDrains
           /\ SleepersBound /\ CountTracksWindow
FlagPart == /\ multidrain_awarded \in BOOLEAN /\ powerball_death \in BOOLEAN
            /\ timer_running \in BOOLEAN /\ award_due \in BOOLEAN
            /\ live \in BOOLEAN /\ multi \in BOOLEAN
            /\ powerball \in BOOLEAN /\ ballsave \in BOOLEAN
            /\ AwardIffThreeInWindow

LEMMA SplitIInv == IInv <=> NumPart /\ FlagPart /\ WindowAward
BY Zenon DEF IInv, NumPart, FlagPart, TypeOK

LEMMA InitIInv == Init => IInv
<1> SUFFICES ASSUME Init PROVE IInv
  OBVIOUS
<1>1. NumPart
  BY MaxDrainsAssumption DEF Init, NumPart, SleepersBound, CountTracksWindow
<1>2. FlagPart
  BY Zenon DEF Init, FlagPart, AwardIffThreeInWindow
<1>3. WindowAward
  <2>1. window = 0
    BY DEF Init
  <2>. QED
    BY <2>1 DEF WindowAward
<1>. QED
  BY <1>1, <1>2, <1>3, SplitIInv

(* The multidrain part of sw_outhole keeps the count, the window and the  *)
(* award in step, whichever of its branches it takes.                     *)
LEMMA MultidrainIInv ==
  ASSUME IInv, Multidrain
  PROVE  /\ multidrain_count' \in 0..6 /\ window' \in Nat
         /\ CountTracksWindow'
         /\ multidrain_awarded' \in BOOLEAN /\ award_due' \in BOOLEAN
         /\ timer_running' \in BOOLEAN
         /\ WindowAward' /\ AwardIffThreeInWindow'
<1> DEFINE start == ~timer_running /\ multi /\ ~ballsave
<1>0. TypeOK /\ NumPart /\ FlagPart /\ WindowAward
  BY SplitIInv DEF IInv
<1>1. CASE start
  <2>1. multidrain_count' = 1 /\ window' = 1
    BY <1>0, <1>1 DEF TypeOK, Multidrain, StartsWindow, BoundedIncrement
  <2>2. multidrain_awarded' = multidrain_awarded
    BY <1>0, <1>1 DEF TypeOK, Multidrain, StartsWindow, BoundedIncrement
  <2>3. award_due' = award_due
    BY <1>0, <1>1 DEF TypeOK, Multidrain, StartsWindow, BoundedIncrement
  <2>4. timer_running' = TRUE
    BY <1>1, Zenon DEF Multidrain
  <2>5. /\ CountTracksWindow' /\ ~(window' >= 3)
        /\ multidrain_count' \in 0..6 /\ window' \in Nat
    BY <2>1 DEF CountTracksWindow
  <2>6. /\ multidrain_awarded' \in BOOLEAN /\ award_due' \in BOOLEAN
        /\ timer_running' \in BOOLEAN
        /\ WindowAward' /\ AwardIffThreeInWindow'
    BY <1>0, <2>2, <2>3, <2>4, <2>5, Zenon
       DEF FlagPart, AwardIffThreeInWindow, WindowAward
  <2>. QED
    BY <2>5, <2>6
<1>2. CASE ~start /\ timer_running
  <2>1. /\ multidrain_count' = IF multidrain_count < 6
                              THEN multidrain_count + 1 ELSE multidrain_count
        /\ window' = window + 1
    BY <1>0, <1>2 DEF TypeOK, Multidrain, StartsWindow, BoundedIncrement
  <2>2. multidrain_awarded' = (multidrain_awarded \/ window + 1 = 3)
    <3>1. multidrain_awarded' = (multidrain_awarded \/ multidrain_count' = 3)
      BY <1>0, <1>2 DEF TypeOK, Multidrain, StartsWindow, BoundedIncrement
    <3>2. multidrain_count' = 3 <=> window + 1 = 3
      BY <1>0, <2>1 DEF NumPart, CountTracksWindow
    <3>. QED
      BY <1>0, <3>1, <3>2, Zenon DEF FlagPart
  <2>3. award_due' = (award_due \/ window + 1 >= 3)
    BY <1>0, <1>2 DEF TypeOK, Multidrain, StartsWindow
  <2>4. timer_running' = TRUE
    BY <1>2, Zenon DEF Multidrain
  <2>5. CountTracksWindow' /\ window' \in Nat /\ multidrain_count' \in 0..6
    BY <1>0, <2>1 DEF NumPart, CountTracksWindow
  <2>6. (window + 1 >= 3) <=> (window + 1 = 3 \/ window >= 3)
    BY <1>0 DEF NumPart
  <2>7. window' >= 3 <=> window + 1 >= 3
    BY <1>0, <2>1 DEF NumPart
  <2>8. /\ multidrain_awarded' \in BOOLEAN /\ award_due' \in BOOLEAN
        /\ timer_running' \in BOOLEAN
        /\ WindowAward' /\ AwardIffThreeInWindow'
    BY <1>0, <2>2, <2>3, <2>4, <2>6, <2>7, Zenon
       DEF FlagPart, AwardIffThreeInWindow, WindowAward
  <2>. QED
    BY <2>5, <2>8
<1>3. CASE ~start /\ ~timer_running
  <2>1. multidrain_count' = multidrain_count /\ window' = window
    BY <1>0, <1>3 DEF TypeOK, Multidrain, StartsWindow
  <2>2. /\ multidrain_awarded' = multidrain_awarded
        /\ award_due' = award_due /\ timer_running' = FALSE
    BY <1>0, <1>3 DEF TypeOK, Multidrain, StartsWindow
  <2>3. CountTracksWindow' /\ window' \in Nat /\ multidrain_count' \in 0..6
    BY <1>0, <2>1 DEF NumPart, CountTracksWindow
  <2>4. /\ multidrain_awarded' \in BOOLEAN /\ award_due' \in BOOLEAN
        /\ timer_running' \in BOOLEAN
        /\ WindowAward' /\ AwardIffThreeInWindow'
    BY <1>0, <2>1, <2>2, Zenon
       DEF FlagPart, AwardIffThreeInWindow, WindowAward
  <2>. QED
    BY <2>3, <2>4
<1>. QED
  BY <1>1, <1>2, <1>3

(* Every step keeps the invariant.  For each action the new values come   *)
(* first; the numeric part then follows by arithmetic and the flag part   *)
(* by rewriting.                                                          *)
LEMMA NextIInv == IInv /\ [Next]_vars => IInv'
<1> SUFFICES ASSUME IInv, [Next]_vars
             PROVE  NumPart' /\ FlagPart' /\ WindowAward'
  BY Zenon DEF IInv, NumPart, FlagPart, TypeOK
<1> USE MaxDrainsAssumption
<1>0. NumPart /\ FlagPart /\ WindowAward
  BY SplitIInv
<1>1. CASE Drain /\ ~live
  <2>1. /\ drains' = drains + 1 /\ drains < MaxDrains
        /\ UNCHANGED <<multidrain_count, sleepers, window>>
        /\ UNCHANGED <<multidrain_awarded, powerball_death, timer_running,
                       award_due, live, multi, powerball, ballsave>>
    BY <1>1, Zenon DEF Drain
  <2>2. NumPart'
    BY <1>0, <2>1 DEF NumPart, SleepersBound, CountTracksWindow
  <2>. QED
    BY <1>0, <2>1, <2>2, Zenon DEF FlagPart, AwardIffThreeInWindow, WindowAward
<1>2. CASE Drain /\ live /\ ~multi /\ powerball /\ ~ballsave
  <2>1. /\ drains' = drains + 1 /\ drains < MaxDrains
        /\ sleepers' = sleepers + 1
        /\ UNCHANGED <<multidrain_count, window>>
        /\ UNCHANGED <<multidrain_awarded, powerball_death, timer_running,
                       award_due, live, multi, powerball, ballsave>>
    BY <1>2, Zenon DEF Drain
  <2>2. NumPart'
    BY <1>0, <2>1 DEF NumPart, SleepersBound, CountTracksWindow
  <2>. QED
    BY <1>0, <2>1, <2>2, Zenon DEF FlagPart, AwardIffThreeInWindow, WindowAward
<1>3. CASE Drain /\ live /\ ~(~multi /\ powerball /\ ~ballsave)
  <2>1. /\ drains' = drains + 1 /\ drains < MaxDrains
        /\ UNCHANGED sleepers /\ Multidrain
        /\ UNCHANGED <<powerball_death, live, multi, powerball, ballsave>>
    BY <1>3, Zenon DEF Drain
  <2>2. /\ multidrain_count' \in 0..6 /\ window' \in Nat
        /\ CountTracksWindow'
        /\ multidrain_awarded' \in BOOLEAN /\ award_due' \in BOOLEAN
        /\ timer_running' \in BOOLEAN
        /\ WindowAward' /\ AwardIffThreeInWindow'
    BY <2>1, MultidrainIInv
  <2>3. NumPart'
    BY <1>0, <2>1, <2>2 DEF NumPart, SleepersBound
  <2>. QED
    BY <1>0, <2>1, <2>2, <2>3, Zenon DEF FlagPart
<1>4. CASE Wake
  <2>1. /\ sleepers > 0 /\ sleepers' = sleepers - 1 /\ Multidrain
        /\ powerball_death' = TRUE
        /\ UNCHANGED <<drains, live, multi, powerball, ballsave>>
    BY <1>4, Zenon DEF Wake
  <2>2. /\ multidrain_count' \in 0..6 /\ window' \in Nat
        /\ CountTracksWindow'
        /\ multidrain_awarded' \in BOOLEAN /\ award_due' \in BOOLEAN
        /\ timer_running' \in BOOLEAN
        /\ WindowAward' /\ AwardIffThreeInWindow'
    BY <2>1, MultidrainIInv
  <2>3. NumPart'
    BY <1>0, <2>1, <2>2 DEF NumPart, SleepersBound
  <2>. QED
    BY <1>0, <2>1, <2>2, <2>3, Zenon DEF FlagPart
<1>5. CASE ValidPlayfield \/ TimerExpire \/ Env \/ UNCHANGED vars
  <2>1. /\ UNCHANGED <<multidrain_count, sleepers, drains, window>>
        /\ UNCHANGED <<multidrain_awarded, award_due>>
        /\ powerball_death' \in BOOLEAN /\ timer_running' \in BOOLEAN
        /\ live' \in BOOLEAN /\ multi' \in BOOLEAN
        /\ powerball' \in BOOLEAN /\ ballsave' \in BOOLEAN
    BY <1>0, <1>5, Zenon
       DEF ValidPlayfield, TimerExpire, Env, vars, FlagPart
  <2>2. NumPart'
    BY <1>0, <2>1 DEF NumPart, SleepersBound, CountTracksWindow
  <2>. QED
    BY <1>0, <2>1, <2>2, Zenon DEF FlagPart, AwardIffThreeInWindow, WindowAward
<1>6. CASE BallServe
  <2>1. /\ multidrain_count' = 0 /\ window' = 0
        /\ UNCHANGED <<sleepers, drains>>
        /\ multidrain_awarded' = FALSE /\ award_due' = FALSE
        /\ powerball_death' = FALSE /\ timer_running' = FALSE
        /\ UNCHANGED <<live, multi, powerball, ballsave>>
    BY <1>6, Zenon DEF BallServe
  <2>2. NumPart' /\ ~(window' >= 3)
    BY <1>0, <2>1 DEF NumPart, SleepersBound, CountTracksWindow
  <2>. QED
    BY <1>0, <2>1, <2>2, Zenon DEF FlagPart, AwardIffThreeInWindow, WindowAward
<1>. QED
  BY <1>1, <1>2, <1>3, <1>4, <1>5, <1>6 DEF Next

(* sw_outhole gives the multidrain award exactly when three balls drained *)
(* while one GID_MULTIDRAIN timer ran since the ball was served, however  *)
(* drains, task_sleep wake-ups, ball_serve and timer expiry interleave.   *)
THEOREM AwardCorrect == Spec => []AwardIffThreeInWindow
<1>1. IInv => AwardIffThreeInWindow
  BY DEF IInv
<1>. QED
  BY InitIInv, NextIInv, <1>1, PTL DEF Spec

=============================================================================
