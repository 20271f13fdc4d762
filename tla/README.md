# TLA+ models of FreeWPC's scheduler generator, the handlers it emits, free timers, outhole handlers and memory primitives

This directory holds TLA+ models of parts of the FreeWPC sources under `src/`.
It also holds the TLC configurations that check them and the TLAPS proofs about them.
The main subject is `src/tools/sched/sched.c`. It is the build-time tool that reads a
schedule file of periodic tasks, unrolls the periodic interrupt handler into
up to 8 "ticks", places each task in ticks, and prints the C of the
unrolled handler (`write_tick_driver`).

## The system and its parts

| part | source | what it does | model |
|---|---|---|---|
| schedule parser | sched.c `parse_schedule`, `parse_time` (631-691) | reads lines with `fgets`/`strtok`, converts times, rejects bad periods and lengths | `SchedGen` (`ReadLine`, `EndOfFile`, `parse_time`) |
| slot placer | sched.c `add_task`, `expand_ticks`, `find_best_tick`, `alloc_slot` (396-625) | decides how many slots a task gets and where, with which divider, and keeps each tick's load | `SchedGen` (`add_task` and its operators) |
| emitter | sched.c `write_tick_driver` (230-383) | prints the unrolled handler, the divider counter and the task calls | `SchedRuntime` (what the printed program does) |
| command line | sched.c `main` (694-747) | options `-o -i -M -p -D` and input files, in argument order | constants of `SchedGen` only |
| free timers | `src/kernel/freetimer.c` | 32 byte counters decremented at IRQ level, started and tested from tasks | `FreeTimer`, refining `FreeTimerAtomic` |
| outhole handlers | `src/machine/tz/outhole.c` | multiball drain counting across `sw_outhole`, `ball_serve`, `valid_playfield` | `Outhole` |
| 6809 memory primitives | `src/include/asm-6809.h` | `memset`, `memcpy`, `memmove`, block copy and clear, `strlen` | `Memory` (register wrappers not modelled) |
| curses UI | `src/platform/native/ui_curses.c` | terminal drawing for the native simulator | not modelled: pure I/O |

The parts interact as follows. `main` sets `max_ticks` and the conditionals
from the options and passes each file to `parse_schedule`. The parser hands
each well-formed line to `add_task`. `add_task` may call `expand_ticks`, then
calls `find_best_tick` and `alloc_slot`. At the end, `write_tick_driver`
prints whatever table the placements left.

## SchedGen: the parser and the placer

`SchedGen.tla` models one run of the generator over one input file. It runs
from `init_schedule` until the input ends or the program exits.

**State.** The variables correspond to the code as follows:

| variable | in the code |
|---|---|
| `input` | the lines `fgets` has not yet returned |
| `eol` | whether the file's last line ends in a newline |
| `n_ticks` | `n_ticks` |
| `ticks` | `ticks[]`, with each tick's slots as a sequence and `len` as its load |
| `tasks` | `tasks[0..n_tasks-1]` |
| `max_divider` | `max_divider` |
| `status` | how the run ended: `exit(1)` with which message, a fault, or the end of the loop |

**Actions.**
- `ReadLine` is one turn of `parse_schedule`'s loop, with `add_task` and
  everything it calls folded in. A line goes through `fgets`, the `feof`
  test, `strtok`, the period and length checks, and `add_task`.
- `EndOfFile` is `fgets` at the end of a file that ends in a newline.
- `Finished` is a stutter after the program has stopped. The generator really
  does stop, so this is not a deadlock.

**Data abstraction.**
- A line is kept only through what the code reads of it: its kind, its
  period and length tokens, its `?cond` suffix and its `/d` digit.
- A length is a natural number of 1/`Scale` ticks (`Scale` = 4 in the
  models). A cycle token is a multiple of 488 cycles, so that `parse_time` is
  exact.
- A tick's load is kept in 1/(`Scale`·128) ticks. The divider is at most 128,
  so `len / divider` is exact.
- `find_best_tick`'s 99999.0 is `Sentinel`.

**Division by zero.** The code divides by `n_ticks` and by `count`. A
division by zero is modelled as the status `crash`, because the hosts the
tool builds on trap on integer division by zero.

**Properties checked by the run `sched_gen`** (`MCSchedGen.cfg`):
- `TypeOK`, the type invariant.
- `PlacementCorrect`. Every task is called from exactly max(1, n_ticks/period)
  ticks, at most once in each, forming one residue class of stride `period`,
  and every one of its slots carries the divider max(1, period/n_ticks). It is
  broken by a wrong stride or a wrong count. An expansion after slots were
  placed would also break it, but none happens: `expand_ticks` runs only for
  a period above `n_ticks`, and once the table is 8 wide such a period gives
  `count = 0` and a crash.
- `LoadAccounting`. Each tick's `len` is the sum of len/divider over its
  slots. It is broken by an unamortised add. A missing reset in
  `expand_ticks` would go unseen: the only expansion that does not crash
  starts from the all-zero initial table.
- `DividersEmitted`. Every divider is a power of two below 256 and at most
  `max_divider`. The emitted code counts dividers in 8 bits.
- `DividedGoLast`, an action property. A task placed with a divider goes to
  the last tick whenever that tick has room.
- `NoAvoidableOverload`, an action property. `find_best_tick` never picks a
  start whose ticks would overflow 1.0 while another start fits.

The model enumerates every file of up to 4 lines, each drawn from 13 kinds of
line (`MCSchedGen.tla`). The kinds cover:
- periods 1, 2, 4, 8, 16 and 2048;
- a period given in cycles;
- a bad period and a length that is too long;
- a defined and an undefined `?cond`;
- a comment and a line with a missing token;
- a last line with and without a newline.

The run uses a table of 3 slots per tick (so `alloc_slot`'s limit is met
within 4 lines) and `-M 8`. It reaches about 119,000 distinct states in about
20 seconds.

**Violation runs.** Each of these checks one thing the spec says and finds the
code disagreeing (see `findings` in `PROJECT.json`):

| run | property | what TLC finds |
|---|---|---|
| `scenario_c` | `NoCrash` | a first task with period > `max_ticks` divides by `n_ticks = 0` (sched.c:577) |
| `max_ticks` | `NTicksWithinMax` | `-M 4` still unrolls 8 ticks (sched.c:408) |
| `last_line` | `AllLinesRead` | a last line with no newline is dropped by the `feof` test (sched.c:660) |
| `slot_cap` | `SlotErrorOnlyWhenFull` | `alloc_slot` refuses the last array slot (sched.c:488) |

Two more faults are listed as hazards in `PROJECT.json`, with no run of their
own:
- `-M 16` with a period-16 task gives `count = 8/16 = 0`, and `find_best_tick`
  divides by it (sched.c:437). `NoCrash` would report it under
  `max_ticks = 16`.
- `tasks[n_tasks++]` is not checked against `MAX_TASKS` (sched.c:542). It
  needs more input lines than the runs read. The model, like the code,
  appends to `tasks` with no bound.

**Mutants.** Every property of `sched_gen` is killed by a plausible fault in
the definition it is about: a task pointer one entry back, a stride of
`count`, an unamortised load, a stale `max_divider`, the last-tick affinity
off by one, and the overflow test dropped.

There is no invariant bounding the length of a slot array. `alloc_slot`'s
test already keeps every tick below `MAX_SLOTS_PER_TICK`, one short of full,
so such an invariant would only restate that guard. The off-by-one itself is
the `slot_cap` finding.

## Proofs

`SchedGenProofs.tla` proves the following for every value of the constants.
It uses only the assumptions `SchedGen` declares: `Scale > 0`,
`MAX_TICKS >= 8`, `MAX_SLOTS_PER_TICK > 0`, and every file is a `File`.

- **`TypeCorrect`** proves `Spec => []TypeOK`. `TypeOK` is inductive by
  itself. The step for `ReadLine` rests on these lemmas:
  - `ParseTimeType`: `parse_time` yields a natural number;
  - `ExpandedTicksType`: `expand_ticks` keeps the table typed;
  - `PlacedTicksType`: appending slots keeps each tick typed;
  - `AddTaskType`: `add_task` keeps the state typed;
  - `VisitsCard`: the number of loop iterations landing on a tick is a
    natural number.
- **`DividersCorrect`** proves `Spec => []DividersEmitted`: every slot's
  divider, and `max_divider`, is one of 1, 2, 4, ..., 128, and no slot's
  divider exceeds `max_divider`. These are the guards `div = 1, 2, ...,
  max_divider` under which `write_tick_driver` emits a slot.
  - The invariant alone is not inductive. A divided task's divider is
    `period / n_ticks`, which is a power of two only when the table width is.
    So the inductive invariant `DivInv` adds `n_ticks \in {0, 8}`.
    `expand_ticks` only ever widens the table to 8. TLC checked `DivInv` on
    the `sched_gen` instance (119,447 states) before the proof was written.
  - `PowerDivider` carries the argument. The parser's `PeriodBitsClear`
    test makes a period a power of two. For a power of two p > 8 with
    p / 8 < 256, p / 8 is an emitted guard. `Pow2List` and `EmittedList`
    write the sets of powers out, because the SMT backend does not evaluate
    `2^k` for a symbolic k.
  - `AppendedSlot` is a lemma about sequences: an entry of a sequence
    extended by m copies of x is an old entry or x. `AddTaskDividers` uses
    it to show that placing a task keeps the old slots and gives the new
    ones the new divider. `NewMaxDivider` keeps `max_divider` at least that
    divider.

`FreeTimerProofs.tla` proves for every `NTimers` and every set of tick
values below 256:
- **`AlwaysIInv`**: `Spec => []IInv`. `IInv` is `TypeOK`, plus
  `StartLoadStillValid` (a start that loaded 0 still finds 0 at its store: the
  IRQ only moves timers towards 0, and no other task runs in between), plus
  `LoadedArgs` (the pending ticks are a caller's value).
- **`Refinement`**: `Spec => AtomicSpec`. `InitRefines` maps the initial state.
  `StepRefines` maps each step under `IInv`:
  - `Rtt` is `ARtt`;
  - restart and stop are their abstract actions;
  - a load of a running timer is `AStart` doing nothing;
  - a load of a stopped timer is a stutter, and so is the store after a
    nonzero load;
  - the store after a zero load is `AStart`.
  `StartLoadStillValid` is what makes that last store an abstract start.

`OutholeProofs.tla` proves **`AwardCorrect`**: `Spec => []AwardIffThreeInWindow`
for every `MaxDrains`. The property is not inductive alone. The
strengthening `IInv` adds:
- `CountTracksWindow`: `multidrain_count` is `window` capped at 6;
- `WindowAward`: a window of 3 or more has made the award due;
- `SleepersBound`.

The key step is `MultidrainIInv`: the count is 3 right after an increment
exactly when the window reaches 3 for the first time. TLC checked `IInv` as an
invariant of the `outhole_award` instance before the proof was written.

`SchedGenPlacement.tla` extends `SchedGenProofs` and proves, for every value
of the constants, where `add_task` places a task:
- **`PlacementCorrectness`**: `Spec => []PlacementCorrect`. The inductive
  invariant is `PlaceInv` = `TypeOK /\ DivInv /\ PlaceCore`. `PlaceCore` adds
  four conjuncts to `PlacementCorrect`, each needed by the step:
  - `SlotTasksKnown`: every slot names a task already added. Without it the
    slots of the new task could not be told apart from older ones.
  - `LoadsNat`: every tick's load is a natural number. `find_best_tick`
    compares loads, and the proof that its answer lies in 0..7 needs them to
    be numbers.
  - `n_ticks = 0 => tasks = <<>>`: a first expansion finds no slots to move.
    `expand_ticks` only copies tick 0, so a later expansion would break
    the slot counts.
  - `DivInv`, from `DividersCorrect`: the table is 0 or 8 wide.
  TLC checked `PlaceInv` as an invariant of the `sched_gen` instance (119,447
  states), and also at `MAX_TICKS` 16 with `-M 16`, before the proof was
  written.
- The step rests on these lemmas:
  - `BaseRange`: `find_best_tick` returns a start in 0..7;
  - `StrideNoRevisit` and `InjectiveImageCard`: for a period of 1, 2, 4 or 8,
    the `count` turns of `add_task`'s loop land on `count` distinct ticks,
    one residue class of stride `period`;
  - `VisitsCount`: each of those ticks gets exactly one slot;
  - `AppendedSlotsOf`: appending slots to a tick keeps its old slots.
- For a period above 8 the loop runs `count = 8/period = 0` times and
  `find_best_tick` divides by zero, so the model crashes. So no hypothesis on
  `max_ticks` is needed.
- **`DividedGoLastHolds`**: `Spec => DividedGoLast`, the action property.
  `BestIsLast` shows that when `count` is 1 and the last tick has room,
  `find_best_tick` returns 7. `TotalLenOne` unfolds the recursive function
  `TotalLen` for a single turn.

`find_best_tick` is written in `SchedGen` as its eight outer turns unrolled
(`BestTurn`). The table is never wider than 8 under `DivInv`. Only the inner
sum `TotalLen` is a recursive function, over 0..count.

Four kinds of result stay with TLC:
- The liveness and `ENABLED` properties, `CountsDown` among them. The provers do not reason about fairness or `ENABLED`.
- `NoAvoidableOverload`. It compares the sums `TotalLen` for every start.
  Proving it needs `TotalLen` for counts 2, 4 and 8 and the minimum over the
  starts. The proof would have to unfold the recursive function once per
  count, and that was not attempted.
- `LoadAccounting`. It sums slot lengths with the fold `SumFunction`. What
  appending a slot does to that sum needs induction over a finite set. The
  library states that induction with an operator parameter, which the
  installed provers cannot instantiate.
- The properties of `SchedRuntime`, `StrictPeriod` among them. A proof would
  have to carry the placement results above into the composition with the
  emitted handlers and the 8-bit divider counter. That was not attempted.

## Memory: the asm-6809.h primitives

`Memory.tla` makes one call of `memset`, `memcpy`, `memmove`,
`__blockclear16`, `__blockcopy16` or `strlen`, one loop turn per step.
- **Memory.** It is `Size` bytes. Before the call they hold distinct nonzero
  values, except a single 0 at `z` (for `strlen`).
- **Faults.** An access outside memory ends the call in `fault`.
- **Word stores** are big-endian.
- **`memset`'s three loops:** 8 bytes, 2 bytes or 1 byte per turn, chosen by
  `n % 8` and `n % 2`. Each is an action.
- **Block operations.** The `do ... while (n > 0)` of the 16-byte operations
  subtracts 16 from an unsigned long, modulo `ULong`. The code's modulus is
  2^32. TLC's integers stop below 2^31, so the runs use 2^30. Any modulus
  above 16·`Size` gives the same behaviours, because a wrapped count always
  outlasts memory.

The run `memory` (`MCMemory.cfg`, 40 bytes) checks the C library's result for
each function:
- `MemsetFills`: every length 0 to 17, at two addresses, with two byte values;
- `MemcpyCopies`: every pair of disjoint regions of up to 5 bytes;
- `BlockOpsExact`: 16 and 32 bytes;
- `StrlenCounts`: strings of 0 to 4 bytes.

The mutants are: the count not divided, the source not advanced, words stepped
by one byte, and the terminator counted. Each breaks its property.

Two violation runs are findings:
- `memset_wide_fill`: `memset (p, 0x100, 2)` stores `01 00`.
- `memmove_overlap`: `memmove` is a forward `memcpy`, as its TODO says.

`MemoryProofs.tla` proves **`MemcpyCorrect`**: `Spec => []MemcpyCopies` for
every memory size and every call. The loop invariant `CopyLoop` says that
after k = `call.n - n` turns:
- both pointers have moved k bytes;
- memory is `Partial(call, k)`: the first k bytes copied, the rest as before.

The step lemma `CopyStep` is where the regions being disjoint is used: the
byte read at `p2` has not been overwritten yet.

It proves the other three results the same way, each with its own loop
invariant:
- **`StrlenCorrect`**: `Spec => []StrlenCounts`. In `StrLoop`, p1 stays in
  `s..z`, `len` is `p1 - s`, and memory is untouched. `Mem0Zero` says the
  only 0 byte is at z, so the loop stops exactly there.
- **`MemsetCorrect`**: `Spec => []MemsetFills`, under the hypothesis that
  every memset call's fill value is below 256.
  - `SetLoop` says that after `MemsetCount - n` turns of the chosen loop,
    the first `Stride * (MemsetCount - n)` bytes are c. `StrideCount`
    relates the stride to the loop `n % 8` and `n % 2` select.
  - The fill-value hypothesis is needed. For c >= 256, the word loops store
    the high byte of c, and the run `memset_wide_fill` shows this.
  - `OrZero` proves that the high byte `c | 0` of the word `(c << 8) | c`
    is c. `OrByte` adds eight bits spelled out one by one, so that the
    provers can unfold it.
- **`BlockOpsCorrect`**: `Spec => []BlockOpsExact`.
  - `BlockLoop` keeps n a multiple of 16, nonzero while the loop runs.
    Memory is the copied or zeroed prefix of `call.n - n` bytes.
  - `ULongSub` shows that `n -= 16` on a count of at least 16 does not wrap.
  - `CopyTurn` chains the eight `WordStep`s of a turn. `WordCopies` is
    eight named `WordCopy` steps instead of a recursive function, so that
    the provers can unfold it.

`CallFixed` (the call never changes) lets the proof of `MemsetCorrect` use
its hypothesis about `Calls` in every state.

## FreeTimer: free-running timers

`FreeTimerAtomic.tla` says what `freetimer.c` promises its callers. There is an
array of byte counters. The realtime interrupt (`ARtt`) decrements every
nonzero counter. Restart, start and stop each take effect at one instant, and
start sets a counter only if it is 0. The history variable `last_call` records
the last task-level call.

`FreeTimer.tla` is the code as the machine runs it. `free_timer_rtt` runs at
IRQ level and runs to its end (`Rtt`). Tasks are cooperative, so no two tasks
interleave inside these functions. The IRQ, however, may come between any two
instructions of a task. Only `free_timer_start` accesses the array twice: it
loads `free_timers[tid]`, tests it and stores. So it is split into `StartLoad`,
which records the loaded value in `seen`, and `StartStore`. `pc`, `arg_tid`
and `arg_ticks` hold the call in progress.

The refinement mapping is `LinearizedCall`. A start that loaded a running
timer takes effect at its load: it does nothing, whatever the IRQ does next.
A start that loaded a stopped timer takes effect at its store. The mapping has
to tell these apart. Without `last_call`, a store that ignored the test would
look like an abstract restart, and the refinement would not catch it.

| run | cfg | property | shows |
|---|---|---|---|
| `free_timer` | `MCFreeTimer.cfg` | `AtomicSpec` | with the IRQ between load and store, the split start implements the atomic interface |
| `free_timer` | `MCFreeTimer.cfg` | `CountsDown` | every running timer eventually changes value |

The run uses 3 timers and tick values {0, 1, 3}. Three timers let a task,
the IRQ and the loop bound of `free_timer_rtt` all meet. Tick value 3 lets a
timer pass through several nonzero values, so the IRQ can come between load
and store while the timer is still running.

`Spec` assumes weak fairness of `Rtt` and of `StartStore`. The realtime
interrupt is a hardware interrupt and keeps firing whatever tasks do. A task
interrupted inside `free_timer_start` resumes when the handler returns. No
fairness is assumed for restart or stop, because nothing makes a task call
them. The mutants are a start whose store ignores its test (`StartStoreNoTest`),
which breaks `AtomicSpec`, and an `Rtt` loop that stops one timer short
(`RttEndOneShort`), which breaks `CountsDown`.

## Outhole: the multiball drain award

`Outhole.tla` models the three callset handlers of `src/machine/tz/outhole.c`.
Every drain runs `sw_outhole` in a task of its own. The handler runs in one
step, unless it sleeps in `task_sleep (TIME_500MS)`: a lost powerball outside
multiball and ball save. In that case it is two steps. `Drain` is the part
before the sleep, or the whole handler. `Wake` is the rest: it sets
`powerball_death` and goes on to the timer test without testing
`in_live_game` again. `sleepers` counts the tasks asleep. `Multidrain` is the
shared part from `timer_find_gid` to the award. `ValidPlayfield` and
`BallServe` are the other two handlers. `TimerExpire` is the 8-second
`GID_MULTIDRAIN` timer running out. `Env` changes the predicates the handler
tests.

Two history variables state what the award should mean. `window` counts the
drains seen while the current timer runs, without bound. `award_due` records
that a window reached three drains since the last `ball_serve`.

The run `outhole_award` (`MCOuthole.cfg`, up to 5 drains, 3,072 distinct
states) checks `AwardIffThreeInWindow`: the award is given exactly when it is
due. Five drains are enough for a window to pass 3 and for a sleeper to wake
after a `ball_serve` or a timer expiry. The mutant `StartsWindowNoReset`, a
count not cleared when the timer starts, breaks the property.

The property does not cover a sleeper that wakes after `ball_serve`. That
wake sets `powerball_death` and counts a drain from the previous ball.
`window` starts and resets under the code's own conditions, so the history
counts that drain as the code does, and nothing says which ball it belongs
to.

## What is not modelled, and why

- The text `write_tick_driver` prints: formatting, prototypes, time comments
  and the stderr advisories. `SchedRuntime` keeps what the printed code does.
- The register wrappers of `asm-6809.h` (`__lda`, `__sta`, `__bytecopy`, the
  stack and direct page accessors). They act on CPU registers.
- `main`'s option order: `-M` or `-D` given after a file does not apply to
  that file.
- Floating-point rounding of lengths near 1.0. The model's lengths are exact.
- The bytes of task names: only `?cond` and `/d` are kept. Reading one
  character before a one-character name (sched.c:534) has no modelled
  outcome.
- `free_timer_test` only reads, so it is no action. Timer ids out of range
  cannot be expressed: every caller passes a constant id.
- In `outhole.c`, the lamp, sound and display calls are left out. So is how
  `in_live_game`, multiball, the powerball flag and ball save get their values;
  `Env` sets them freely.
- `ui_curses.c` is pure terminal I/O.
