---------------------------- MODULE SchedRuntime ----------------------------
(***************************************************************************)
(* The program write_tick_driver (src/tools/sched/sched.c) emits, run on   *)
(* the table SchedGen builds.  After the generator stops with the whole    *)
(* input read, the emitted <prefix>_init sets <prefix>_function to         *)
(* handler 0 and <prefix>_divider to 0; then every hardware tick jumps     *)
(* through <prefix>_driver to the installed handler.  Handler n calls, for *)
(* div = 1, 2, 4, ..., max_divider, its slots of divider div, those with   *)
(* div > 1 under if (!(<prefix>_divider & (div-1))); the last handler      *)
(* increments the 8-bit divider when max_divider > 1; and every handler    *)
(* installs handler (n+1) % n_ticks when n_ticks > 1.                      *)
(*                                                                         *)
(* The text of the output (indentation, comments, prototypes, the          *)
(* stderr advisories) is left out: only what the emitted code does is      *)
(* kept.  For a power of two div, x & (div-1) = 0 is x % div = 0.          *)
(***************************************************************************)
EXTENDS SchedGen

CONSTANT AgeCap     \* ages are counted up to AgeCap interrupts

VARIABLES
  phase,         \* "gen" while generating, "run" once the handlers run,
                 \* "nolink" when the output names a handler it never defines
  rt_function,   \* <prefix>_function: the index of the installed handler
  rt_divider,    \* unsigned char <prefix>_divider
  called,        \* history: the <<task, variant>> calls of the last interrupt
  age,           \* history: interrupts since each task's last call (or init)
  last_variant,  \* history: the variant of each task's last call
  seen           \* history: the tasks called since init

rtvars == <<phase, rt_function, rt_divider, called, age, last_variant, seen>>
allvars == <<vars, rtvars>>

NoSuffix == -1

(* The suffix write_tick_driver appends to a pre-unrolled task's call in   *)
(* handler n: (n % (already_unrolled_count * period)) / period.            *)
Variant(j, n) ==
  IF tasks[j].unrolled # 0
  THEN (n % (tasks[j].unrolled * tasks[j].period)) \div tasks[j].period
  ELSE NoSuffix

(* The div values of write_tick_driver's loop: 1, 2, 4, ... <= max_divider. *)
EmittedDiv(d) == d \in {2^k : k \in 0..7} /\ d <= max_divider

(* Slot s of handler n runs when its div block was emitted and its guard  *)
(* holds for the divider value dv.                                        *)
SlotRuns(n, s, dv) ==
  LET d == ticks[n].slots[s].divider
  IN  EmittedDiv(d) /\ (d = 1 \/ dv % d = 0)

HandlerCalls(n, dv) ==
  {<<ticks[n].slots[s].task, Variant(ticks[n].slots[s].task, n)>> :
     s \in {s \in DOMAIN ticks[n].slots : SlotRuns(n, s, dv)}}

(* The divider after handler n: '<prefix>_divider++;' is emitted in the    *)
(* last handler only, and only when max_divider > 1.                       *)
\* Fault: the increment emitted in every handler.
NextDividerEveryTick(n, dv) ==
  IF max_divider > 1 THEN (dv + 1) % 256 ELSE dv
NextDivider(n, dv) ==
  IF n = n_ticks - 1 /\ max_divider > 1 THEN (dv + 1) % 256 ELSE dv

(* The successor handler n installs.                                       *)
NextFunction(n) == IF n_ticks > 1 THEN (n + 1) % n_ticks ELSE n

Init_rt ==
  /\ Init
  /\ phase = "gen" /\ rt_function = 0 /\ rt_divider = 0
  /\ called = {} /\ age = <<>> /\ last_variant = <<>> /\ seen = {}

(* A step of the generator, up to the end of its input.                    *)
Generate == (ReadLine \/ EndOfFile) /\ UNCHANGED rtvars

(* write_tick_driver prints the handlers tick_0 .. tick_(n_ticks-1) and    *)
(* an init that installs tick_0; the machine boots and calls it.  With no  *)
(* tick the init names a handler that was never defined.                   *)
Boot ==
  /\ status = "done" /\ phase = "gen"
  /\ IF n_ticks = 0
     THEN /\ phase' = "nolink"
          /\ UNCHANGED <<rt_function, rt_divider, called, age, last_variant,
                         seen>>
     ELSE /\ phase' = "run"
          /\ rt_function' = 0 /\ rt_divider' = 0 /\ called' = {}
          /\ age' = [j \in 1..Len(tasks) |-> 0]
          /\ last_variant' = [j \in 1..Len(tasks) |-> NoSuffix]
          /\ UNCHANGED seen
  /\ UNCHANGED vars

(* One hardware tick: <prefix>_driver jumps to the installed handler.      *)
Interrupt ==
  /\ phase = "run"
  /\ LET n     == rt_function
         calls == HandlerCalls(n, rt_divider)
         Calls(j) == {c[2] : c \in {c \in calls : c[1] = j}}
     IN  /\ rt_divider' = NextDivider(n, rt_divider)
         /\ rt_function' = NextFunction(n)
         /\ called' = calls
         /\ age' = [j \in 1..Len(tasks) |->
                      IF Calls(j) # {} THEN 0
                      ELSE IF age[j] < AgeCap THEN age[j] + 1 ELSE AgeCap]
         /\ last_variant' = [j \in 1..Len(tasks) |->
                               IF Calls(j) # {} THEN CHOOSE v \in Calls(j) : TRUE
                               ELSE last_variant[j]]
         /\ seen' = seen \cup {c[1] : c \in calls}
  /\ UNCHANGED <<vars, phase>>

(* The generator exited with an error, or the output does not link.        *)
Stopped ==
  /\ status \notin {"parsing", "done"} \/ phase = "nolink"
  /\ UNCHANGED allvars

RuntimeNext == Generate \/ Boot \/ Interrupt \/ Stopped

(* The hardware tick keeps coming once the handlers are installed.         *)
RuntimeSpec == Init_rt /\ [][RuntimeNext]_allvars /\ WF_allvars(Interrupt)

-----------------------------------------------------------------------------
(* Strict periods (spec, sections 1 and 8): from <prefix>_init on, every   *)
(* task is called in the interrupt that ends exactly period interrupts     *)
(* after its previous call, at no other, and first within its first        *)
(* period interrupts.  It rests on the placement stride, on the divider   *)
(* guard and its increment in the last handler only, on the rotation of   *)
(* <prefix>_function, and on 256 being a multiple of every divider when   *)
(* the 8-bit counter wraps.                                                *)
CalledTasks(c) == {x[1] : x \in c}
StrictPeriod ==
  [][ phase = "run" /\ phase' = "run" =>
        \A j \in 1..Len(tasks) :
          IF j \in CalledTasks(called')
          THEN j \in seen => age[j] = tasks[j].period - 1
          ELSE age[j] + 1 < tasks[j].period ]_allvars


(* Pre-unrolled variants (spec, section 3 and glossary): the calls of a   *)
(* task given as <name>/k run its variants _0, _1, ..., _(k-1) in turn,   *)
(* from _0, and round again.  The suffix write_tick_driver computes from  *)
(* the handler number must line up with the rotation of the handlers.     *)
VariantsRotate ==
  [][ phase = "run" /\ phase' = "run" =>
        \A j \in 1..Len(tasks) :
          tasks[j].unrolled # 0 /\ j \in CalledTasks(called') =>
            last_variant'[j] = IF j \in seen
                               THEN (last_variant[j] + 1) % tasks[j].unrolled
                               ELSE 0 ]_allvars

=============================================================================
