------------------------------- MODULE Outhole -------------------------------
(***************************************************************************)
(* The callset handlers of src/machine/tz/outhole.c under FreeWPC's       *)
(* cooperative task scheduler.  Every outhole drain runs sw_outhole in a  *)
(* task of its own.  A task runs until it sleeps or ends, so sw_outhole   *)
(* is two atomic steps when it sleeps in task_sleep (TIME_500MS) and one  *)
(* when it does not.  valid_playfield and ball_serve run in other tasks   *)
(* and may run while a drain sleeps.  The game state the handlers test    *)
(* (in_live_game, multi_ball_play, the powerball flag and ball save) is   *)
(* kept elsewhere and is changed here by Env, freely.  So is the          *)
(* expiry of the GID_MULTIDRAIN free timer.  Lamp and display effects     *)
(* are left out.                                                          *)
(***************************************************************************)
EXTENDS Naturals

CONSTANT MaxDrains    \* the number of drains a behaviour may contain

ASSUME MaxDrainsAssumption == MaxDrains \in Nat

VARIABLES
  multidrain_count, multidrain_awarded, powerball_death,
  timer_running,                 \* a GID_MULTIDRAIN timer exists
  live, multi, powerball, ballsave, \* in_live_game and the tested predicates
  sleepers,                      \* sw_outhole tasks asleep in task_sleep
  drains,                        \* drains so far (bounded by MaxDrains)
  window, award_due              \* history: see below

vars == <<multidrain_count, multidrain_awarded, powerball_death,
          timer_running, live, multi, powerball, ballsave, sleepers,
          drains, window, award_due>>

(* History.  window counts the drains seen while the current              *)
(* GID_MULTIDRAIN timer runs, from the drain that started it, without     *)
(* bound.  award_due records that since the last ball_serve some window   *)
(* reached three drains: "3 balls drain quickly".                         *)

TypeOK ==
  /\ multidrain_count \in 0..6
  /\ multidrain_awarded \in BOOLEAN /\ powerball_death \in BOOLEAN
  /\ timer_running \in BOOLEAN
  /\ live \in BOOLEAN /\ multi \in BOOLEAN
  /\ powerball \in BOOLEAN /\ ballsave \in BOOLEAN
  /\ sleepers \in 0..MaxDrains /\ drains \in 0..MaxDrains
  /\ window \in Nat /\ award_due \in BOOLEAN

Init ==
  /\ multidrain_count = 0 /\ multidrain_awarded = FALSE
  /\ powerball_death = FALSE /\ timer_running = FALSE
  /\ live \in BOOLEAN /\ multi \in BOOLEAN
  /\ powerball \in BOOLEAN /\ ballsave \in BOOLEAN
  /\ sleepers = 0 /\ drains = 0
  /\ window = 0 /\ award_due = FALSE

\* Fault: the counter bounded at 2 instead of 6.
BoundedIncrementLow(x) == IF x < 2 THEN x + 1 ELSE x
(* bounded_increment (multidrain_count, 6).                               *)
BoundedIncrement(x) == IF x < 6 THEN x + 1 ELSE x

\* Fault: the counter not cleared when the timer is started.
StartsWindowNoReset(start) == multidrain_count
(* The count the timer test sees: cleared when the timer is started.     *)
StartsWindow(start) == IF start THEN 0 ELSE multidrain_count

(* The multidrain part of sw_outhole, from the timer_find_gid test to the *)
(* award, with the history it feeds.                                      *)
Multidrain ==
  LET start   == ~timer_running /\ multi /\ ~ballsave
      running == timer_running \/ start
      base    == StartsWindow(start)
      w       == IF start THEN 0 ELSE window
  IN  /\ timer_running' = running
      /\ multidrain_count' = IF running THEN BoundedIncrement(base) ELSE base
      /\ multidrain_awarded' =
           (multidrain_awarded \/ (running /\ BoundedIncrement(base) = 3))
      /\ window' = IF running THEN w + 1 ELSE w
      /\ award_due' = (award_due \/ (running /\ w + 1 >= 3))

(* sw_outhole entered for a new drain.  Out of a live game it does        *)
(* nothing; a lost powerball outside multiball and ball save sleeps       *)
(* first; otherwise the whole handler runs.                               *)
Drain ==
  /\ drains < MaxDrains
  /\ drains' = drains + 1
  /\ UNCHANGED <<live, multi, powerball, ballsave>>
  /\ IF ~live
     THEN UNCHANGED <<multidrain_count, multidrain_awarded, powerball_death,
                      timer_running, sleepers, window, award_due>>
     ELSE IF ~multi /\ powerball /\ ~ballsave
     THEN /\ sleepers' = sleepers + 1
          /\ UNCHANGED <<multidrain_count, multidrain_awarded,
                         powerball_death, timer_running, window, award_due>>
     ELSE /\ Multidrain
          /\ UNCHANGED <<powerball_death, sleepers>>

(* A sleeping sw_outhole wakes: powerball_death is set, and the handler   *)
(* goes on with the timer test.  in_live_game is not tested again.        *)
Wake ==
  /\ sleepers > 0
  /\ sleepers' = sleepers - 1
  /\ powerball_death' = TRUE
  /\ Multidrain
  /\ UNCHANGED <<live, multi, powerball, ballsave, drains>>

(* CALLSET_ENTRY (outhole, valid_playfield).                              *)
ValidPlayfield ==
  /\ powerball_death' = FALSE
  /\ UNCHANGED <<multidrain_count, multidrain_awarded, timer_running, live,
                 multi, powerball, ballsave, sleepers, drains, window,
                 award_due>>

(* CALLSET_ENTRY (outhole, ball_serve).                                   *)
BallServe ==
  /\ powerball_death' = FALSE
  /\ multidrain_count' = 0
  /\ multidrain_awarded' = FALSE
  /\ timer_running' = FALSE
  /\ window' = 0 /\ award_due' = FALSE
  /\ UNCHANGED <<live, multi, powerball, ballsave, sleepers, drains>>

(* The 8 second GID_MULTIDRAIN timer runs out.                            *)
TimerExpire ==
  /\ timer_running
  /\ timer_running' = FALSE
  /\ UNCHANGED <<multidrain_count, multidrain_awarded, powerball_death,
                 live, multi, powerball, ballsave, sleepers, drains, window,
                 award_due>>

(* The rest of the game changes what the handlers test.                   *)
Env ==
  /\ \E l, m, p, b \in BOOLEAN :
       /\ live' = l /\ multi' = m /\ powerball' = p /\ ballsave' = b
  /\ UNCHANGED <<multidrain_count, multidrain_awarded, powerball_death,
                 timer_running, sleepers, drains, window, award_due>>

Next == Drain \/ Wake \/ ValidPlayfield \/ BallServe \/ TimerExpire \/ Env

Spec == Init /\ [][Next]_vars

-----------------------------------------------------------------------------
(* The multiball drain award is given exactly when, since the ball was     *)
(* served, three drains were seen while one GID_MULTIDRAIN timer ran:      *)
(* sw_outhole's count must be cleared when its timer starts and on        *)
(* ball_serve, count every drain in the window, and meet 3 on the way.     *)
(* Drains that slept through task_sleep count as well, whenever they wake. *)
AwardIffThreeInWindow == multidrain_awarded <=> award_due

=============================================================================
