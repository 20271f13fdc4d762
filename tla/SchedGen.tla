------------------------------ MODULE SchedGen ------------------------------
(***************************************************************************)
(* The static scheduler generator of src/tools/sched/sched.c: the input    *)
(* loop of parse_schedule together with add_task and the helpers it calls  *)
(* (parse_time, expand_ticks, find_best_tick, alloc_slot), from            *)
(* init_schedule to the end of the input file.                             *)
(*                                                                         *)
(* Data abstraction.  A length is a natural number of 1/Scale ticks; the   *)
(* load of a tick, which adds len / divider, is kept in 1/OneTick ticks    *)
(* where OneTick = Scale * DivScale and DivScale = 128 is the largest      *)
(* divider add_task lets through.  Both are exact for the lengths the      *)
(* models enumerate (multiples of 1/Scale, exact in float and double).     *)
(* A task name is kept only through what the code reads of it: its        *)
(* '?cond' suffix and its '/d' already-unrolled digit.                     *)
(***************************************************************************)
EXTENDS Integers, Sequences, FiniteSets, Functions

CONSTANTS
  max_ticks,          \* the -M option (default 8)
  conditionals,       \* the set of names given with -D
  Conds,              \* every conditional name an input line may carry
  NoCond,             \* a line without a '?cond' suffix
  Scale,              \* length units per tick in the model
  Files,              \* the input files the model reads
  MAX_TICKS, MAX_SLOTS_PER_TICK, MAX_TASKS

ASSUME MaxTicksAssumption == max_ticks \in Nat
ASSUME ScaleAssumption == Scale \in Nat \ {0}
ASSUME TableAssumption == MAX_TICKS \in Nat /\ MAX_TICKS >= 8
                          /\ MAX_SLOTS_PER_TICK \in Nat \ {0}
                          /\ MAX_TASKS \in Nat
ASSUME CondAssumption == conditionals \subseteq Conds /\ NoCond \notin Conds

CYCLES_PER_TICK == 1952
DivScale == 128
OneTick == Scale * DivScale
\* The 99999.0 of find_best_tick, in load units.
Sentinel == 99999 * OneTick

(* A number token as strtod reads it: num is its value in 1/Scale ticks,  *)
(* or in CPU cycles when the token ends in 'c' or 'C'.                    *)
Token == [num : Nat, cyc : BOOLEAN]
(* An input line: "task" is "<name> <period> <length>"; "ignored" is a    *)
(* blank or '#' line; "short" is a name with no period token after it.    *)
Line == [kind : {"task", "ignored", "short"}, per : Token, len : Token,
         cond : Conds \cup {NoCond}, unrolled : 0..9]
(* A file is its lines and whether its last line ends in a newline.       *)
File == [lines : Seq(Line), eol : BOOLEAN]
ASSUME FilesAssumption == Files \subseteq File

Task == [period : Nat, len : Nat, unrolled : 0..9, n_slots : Nat]
Slot == [divider : Nat, task : Nat \ {0}]
Tick == [slots : Seq(Slot), len : Int]
Status == {"parsing", "done", "period_error", "length_error",
           "slots_error", "divider_error", "crash"}

VARIABLES
  input,        \* the lines fgets has not yet returned
  eol,          \* whether the file's last line ends in a newline
  n_ticks, ticks, tasks, max_divider,
  status        \* "parsing" until EOF, exit(1) or a fault ends the run

vars == <<input, eol, n_ticks, ticks, tasks, max_divider, status>>

(* parse_time: strtod of the token, divided by cycles_per_interrupt for a *)
(* cycle count; the result is in 1/Scale ticks.                           *)
parse_time(tok) ==
  IF tok.cyc THEN (tok.num * Scale) \div CYCLES_PER_TICK ELSE tok.num

(* The test 'period & (period - 1)' is zero exactly for 0 and the powers  *)
(* of two (of the unsigned periods below 2^31 the models use).            *)
Pow2 == {2^k : k \in 0..30}
PeriodBitsClear(p) == p = 0 \/ p \in Pow2

(* expand_ticks: whatever the requested width, the table becomes 8 ticks  *)
(* wide and every one of them is emptied.                                 *)
ExpandedTicks ==
  [i \in 0..MAX_TICKS-1 |-> IF i < 8 THEN [slots |-> <<>>, len |-> 0]
                                      ELSE ticks[i]]

(* find_best_tick over a table tk of width nt.  CandidateLen is the cost  *)
(* of one bucket, TotalLen the inner loop, BestTurn one turn of the outer *)
(* loop; the strict '<' keeps the smallest index on ties.  The table is   *)
(* never wider than the 8 ticks expand_ticks makes, so nt / count <= 8    *)
(* and eight turns, each a no-op past nt / count, are the whole loop.     *)
\* Fault: the overflow test dropped, every bucket costs its load.
CandidateLenNoOverflowTest(tk, nt, period, count, len, tickno, index) ==
  LET cl == tk[tickno + (nt \div count) * index].len
  IN  IF period > nt /\ tickno = nt \div count - 1 THEN -OneTick ELSE cl
\* Fault: the last-tick affinity tested against nt / count (one too far).
CandidateLenAffinityOffByOne(tk, nt, period, count, len, tickno, index) ==
  LET cl == tk[tickno + (nt \div count) * index].len
  IN  IF cl + len * DivScale >= OneTick THEN Sentinel
      ELSE IF period > nt /\ tickno = nt \div count THEN -OneTick
      ELSE cl

CandidateLen(tk, nt, period, count, len, tickno, index) ==
  LET cl == tk[tickno + (nt \div count) * index].len
  IN  IF cl + len * DivScale >= OneTick THEN Sentinel
      ELSE IF period > nt /\ tickno = nt \div count - 1 THEN -OneTick
      ELSE cl

TotalLen(tk, nt, period, count, len, tickno) ==
  LET tot[k \in 0..count] ==
        IF k = 0 THEN 0
        ELSE tot[k-1] + CandidateLen(tk, nt, period, count, len, tickno, k-1)
  IN  tot[count]

BestTurn(tk, nt, period, count, len, p, t) ==
  IF t < nt \div count /\ TotalLen(tk, nt, period, count, len, t) < p.best_len
  THEN [best |-> t, best_len |-> TotalLen(tk, nt, period, count, len, t)]
  ELSE p

find_best_tick(tk, nt, period, count, len) ==
  LET B(p, t) == BestTurn(tk, nt, period, count, len, p, t)
      s0 == [best |-> 0, best_len |-> Sentinel]
  IN  B(B(B(B(B(B(B(B(s0, 0), 1), 2), 3), 4), 5), 6), 7).best

(* The iterations k of add_task's placement loop that land on tick i:     *)
(* base advances by period modulo n_ticks.                                *)
\* Fault: base advanced by count instead of period.
VisitsStrideCount(nt, base, count, period, i) ==
  {k \in 0..count-1 : (base + k * count) % nt = i}

Visits(nt, base, count, period, i) ==
  {k \in 0..count-1 : (base + k * period) % nt = i}

(* alloc_slot exits when a tick about to be given its next slot already   *)
(* holds MAX_SLOTS_PER_TICK - 1.                                          *)
SlotsExhausted(tk, nt, base, count, period) ==
  \E i \in 0..MAX_TICKS-1 :
    \E j \in 0..Cardinality(Visits(nt, base, count, period, i)) - 1 :
      Len(tk[i].slots) + j + 1 = MAX_SLOTS_PER_TICK

(* The slots of the new task (number tno) appended to the table.          *)
\* Fault: the tick is charged the whole length, not len / divider.
PlacedTicksNotAmortized(tk, nt, base, count, period, divider, len, tno) ==
  [i \in 0..MAX_TICKS-1 |->
     LET m == Cardinality(Visits(nt, base, count, period, i))
     IN  [slots |-> tk[i].slots \o
                      [j \in 1..m |-> [divider |-> divider, task |-> tno]],
          len   |-> tk[i].len + m * (len * DivScale)]]

PlacedTicks(tk, nt, base, count, period, divider, len, tno) ==
  [i \in 0..MAX_TICKS-1 |->
     LET m == Cardinality(Visits(nt, base, count, period, i))
     IN  [slots |-> tk[i].slots \o
                      [j \in 1..m |-> [divider |-> divider, task |-> tno]],
          len   |-> tk[i].len + m * ((len * DivScale) \div divider)]]

(* The slot's task pointer: &tasks[n_tasks] taken before n_tasks++.     *)
\* Fault: the pointer taken one entry back.
NewTaskIndexOneBack == Len(tasks)
NewTaskIndex == Len(tasks) + 1

(* max_divider after a task that needs divider: the running maximum.      *)
\* Fault: the running maximum never raised.
NewMaxDividerStale(divided, divider) == max_divider
NewMaxDivider(divided, divider) ==
  IF divided /\ divider > max_divider THEN divider ELSE max_divider

Init ==
  /\ \E f \in Files : input = f.lines /\ eol = f.eol
  /\ n_ticks = 0
  /\ ticks = [i \in 0..MAX_TICKS-1 |-> [slots |-> <<>>, len |-> 0]]
  /\ tasks = <<>>
  /\ max_divider = 1
  /\ status = "parsing"

(* add_task from the line's name on, for a period and length that passed  *)
(* parse_schedule's checks.  A '?cond' that is not defined skips the      *)
(* line.  Division by zero (n_ticks still 0, or a count of 0 after an     *)
(* expansion that could not reach the period) traps on the host.         *)
add_task(line, period, len) ==
  IF line.cond # NoCond /\ line.cond \notin conditionals
  THEN UNCHANGED <<n_ticks, ticks, tasks, max_divider, status>>
  ELSE
    LET expand  == period > n_ticks /\ period <= max_ticks
        nt      == IF expand THEN 8 ELSE n_ticks
        tk      == IF expand THEN ExpandedTicks ELSE ticks
        divided == period > n_ticks /\ ~expand
        divider == IF divided /\ n_ticks # 0 THEN period \div n_ticks ELSE 1
        maxd    == NewMaxDivider(divided, divider)
        count   == IF divided THEN 1
                   ELSE IF period # 0 THEN nt \div period ELSE 0
        tno     == NewTaskIndex
    IN
    IF (divided /\ n_ticks = 0) \/ (~divided /\ period = 0)
       \/ (~divided /\ count = 0)
    THEN /\ status' = "crash"
         /\ UNCHANGED <<n_ticks, ticks, tasks, max_divider>>
    ELSE IF maxd >= 256
    THEN /\ status' = "divider_error"
         /\ UNCHANGED <<n_ticks, ticks, tasks, max_divider>>
    ELSE LET base == find_best_tick(tk, nt, period, count, len) IN
         IF SlotsExhausted(tk, nt, base, count, period)
         THEN /\ status' = "slots_error"
              /\ UNCHANGED <<n_ticks, ticks, tasks, max_divider>>
         ELSE /\ n_ticks' = nt
              /\ ticks' = PlacedTicks(tk, nt, base, count, period,
                                      divider, len, tno)
              /\ tasks' = Append(tasks, [period |-> period, len |-> len,
                                         unrolled |-> line.unrolled,
                                         n_slots |-> count])
              /\ max_divider' = maxd
              /\ UNCHANGED status

(* One turn of parse_schedule's loop: fgets, the feof test, strtok, the   *)
(* period and length checks, and add_task.                                *)
ReadLine ==
  /\ status = "parsing"
  /\ input # <<>>
  /\ UNCHANGED eol
  /\ IF Len(input) = 1 /\ ~eol
     THEN \* fgets hits end-of-file on the last line: the loop ends
          /\ status' = "done"
          /\ UNCHANGED <<input, n_ticks, ticks, tasks, max_divider>>
     ELSE
       LET line   == Head(input)
           period == parse_time(line.per) \div Scale
           len    == parse_time(line.len)
       IN
       /\ input' = Tail(input)
       /\ CASE line.kind = "ignored" ->
                 UNCHANGED <<n_ticks, ticks, tasks, max_divider, status>>
            [] line.kind = "short" ->
                 \* parse_time (NULL): strlen of a null pointer
                 /\ status' = "crash"
                 /\ UNCHANGED <<n_ticks, ticks, tasks, max_divider>>
            [] line.kind = "task" /\ ~PeriodBitsClear(period) ->
                 /\ status' = "period_error"
                 /\ UNCHANGED <<n_ticks, ticks, tasks, max_divider>>
            [] line.kind = "task" /\ PeriodBitsClear(period)
               /\ len >= period * Scale ->
                 /\ status' = "length_error"
                 /\ UNCHANGED <<n_ticks, ticks, tasks, max_divider>>
            [] OTHER -> add_task(line, period, len)

(* fgets returns NULL at the end of a file whose last line ended in a     *)
(* newline; the loop ends.                                                *)
EndOfFile ==
  /\ status = "parsing"
  /\ input = <<>>
  /\ status' = "done"
  /\ UNCHANGED <<input, eol, n_ticks, ticks, tasks, max_divider>>

(* The generator has exited; the run stays where it stopped.              *)
Finished ==
  /\ status # "parsing"
  /\ UNCHANGED vars

Next == ReadLine \/ EndOfFile \/ Finished

Spec == Init /\ [][Next]_vars

-----------------------------------------------------------------------------
(* Type invariant.                                                        *)
TypeOK ==
  /\ input \in Seq(Line)
  /\ eol \in BOOLEAN
  /\ n_ticks \in Nat
  /\ ticks \in [0..MAX_TICKS-1 -> Tick]
  /\ tasks \in Seq(Task)
  /\ max_divider \in Nat
  /\ status \in Status


(* The slots of task j in tick i, and the ticks that call task j.         *)
SlotsIn(tk, j, i) == {s \in 1..Len(tk[i].slots) : tk[i].slots[s].task = j}
TicksIn(tk, j) == {i \in 0..MAX_TICKS-1 : SlotsIn(tk, j, i) # {}}
SlotsOf(j, i) == SlotsIn(ticks, j, i)
TicksOf(j) == TicksIn(ticks, j)

(* What the spec asks of a task of period p in a table of n_ticks.        *)
SlotCount(p) == IF p <= n_ticks THEN n_ticks \div p ELSE 1
SlotDivider(p) == IF p <= n_ticks THEN 1 ELSE p \div n_ticks

(* Placement (add_task with expand_ticks and the slot loop): every task   *)
(* is called from exactly max(1, n_ticks / period) ticks, at most once in *)
(* each, the ticks forming one residue class of stride period, and every  *)
(* one of its slots carries the divider max(1, period / n_ticks).  An     *)
(* expansion after slots were placed, or a wrong stride or count, breaks  *)
(* it.                                                                    *)
PlacementCorrect ==
  \A j \in 1..Len(tasks) :
    LET T == tasks[j] IN
    /\ \A i \in 0..MAX_TICKS-1 : Cardinality(SlotsOf(j, i)) <= 1
    /\ T.n_slots = SlotCount(T.period)
    /\ Cardinality(TicksOf(j)) = T.n_slots
    /\ \E b \in 0..n_ticks-1 :
         TicksOf(j) = {(b + k * T.period) % n_ticks : k \in 0..T.n_slots-1}
    /\ \A i \in 0..MAX_TICKS-1 : \A s \in SlotsOf(j, i) :
         ticks[i].slots[s].divider = SlotDivider(T.period)

(* The load recorded for tick i against the sum over its slots of         *)
(* len / divider (spec, section 8): expand_ticks must reset it and every  *)
(* placement must add to it.                                              *)
Amortized(s) == (tasks[s.task].len * DivScale) \div s.divider
SlotLoad(i) == SumFunction([s \in DOMAIN ticks[i].slots |->
                              Amortized(ticks[i].slots[s])])
LoadAccounting == \A i \in 0..MAX_TICKS-1 : ticks[i].len = SlotLoad(i)

(* write_tick_driver emits a slot only under one of the guards            *)
(* div = 1, 2, 4, ..., max_divider.  Every slot's divider must be one of  *)
(* them, and max_divider must stay below the 256 the 8-bit runtime        *)
(* counter can divide.                                                    *)
EmittedDividers == {2^k : k \in 0..7}
DividersEmitted ==
  /\ max_divider \in EmittedDividers
  /\ \A i \in 0..MAX_TICKS-1 : \A s \in 1..Len(ticks[i].slots) :
       /\ ticks[i].slots[s].divider \in EmittedDividers
       /\ ticks[i].slots[s].divider <= max_divider

(* find_best_tick's affinity: a task run under a divider goes to the last *)
(* tick whenever that tick has room for its length (spec, section 8).     *)
NewTask == tasks'[Len(tasks')]
DividedGoLast ==
  [][ ( /\ Len(tasks') = Len(tasks) + 1
        /\ NewTask.period > n_ticks'
        /\ ticks[n_ticks' - 1].len + NewTask.len * DivScale < OneTick )
      => TicksIn(ticks', Len(tasks')) = {n_ticks' - 1} ]_vars

(* Load balancing (find_best_tick): a task never lands on a tick it      *)
(* overfills, length included, when some start would have kept every one  *)
(* of its ticks below one tick of work.                                   *)
Fits(tk, i, len) == tk[i].len + len * DivScale < OneTick
Buckets(b, p, cnt) == {(b + k * p) % n_ticks : k \in 0..cnt-1}
NoAvoidableOverload ==
  [][ ( /\ Len(tasks') = Len(tasks) + 1
        /\ n_ticks' = n_ticks
        /\ \E b \in 0..n_ticks-1 :
             \A i \in Buckets(b, NewTask.period, NewTask.n_slots) :
               Fits(ticks, i, NewTask.len) )
      => \A i \in TicksIn(ticks', Len(tasks')) : Fits(ticks, i, NewTask.len)
    ]_vars

(* The generator reads every line of its input before it emits code.      *)
AllLinesRead == status = "done" => input = <<>>

(* The generator never dies of a fault (division by zero, null pointer)   *)
(* on an input whose lines are well formed.                               *)
NoCrash == status # "crash"

(* The tick table is never wider than the -M option allows.               *)
NTicksWithinMax == n_ticks <= max_ticks

(* A tick holds up to MAX_SLOTS_PER_TICK slots; the generator refuses a   *)
(* placement only when a tick it would use is already full.               *)
SlotErrorOnlyWhenFull ==
  status = "slots_error" =>
    \E i \in 0..MAX_TICKS-1 : Len(ticks[i].slots) = MAX_SLOTS_PER_TICK

=============================================================================
