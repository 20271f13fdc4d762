--------------------------- MODULE SchedGenProofs ---------------------------
(***************************************************************************)
(* Proofs about SchedGen, for every value of its constants.               *)
(***************************************************************************)
EXTENDS SchedGen, FiniteSetTheorems, SequenceTheorems, TLAPS

(* The number of placement-loop iterations that land on one tick is a     *)
(* natural number, whatever base find_best_tick returned.                 *)
LEMMA VisitsCard ==
  ASSUME NEW nt, NEW base, NEW count \in Int, NEW period, NEW i
  PROVE  Cardinality(Visits(nt, base, count, period, i)) \in Nat
<1>1. IsFiniteSet(0..count-1)
  BY FS_Interval
<1>2. Visits(nt, base, count, period, i) \subseteq 0..count-1
  BY DEF Visits
<1>. QED
  BY <1>1, <1>2, FS_Subset, FS_CardinalityType

(* A run of m copies of one slot is a sequence of slots.                 *)
LEMMA ConstSeqType ==
  ASSUME NEW S, NEW x \in S, NEW m \in Nat
  PROVE  [j \in 1..m |-> x] \in Seq(S)
<1>1. [j \in 1..m |-> x] \in [1..m -> S]
  OBVIOUS
<1>. QED
  BY <1>1

(* The slots appended by add_task keep every tick of the table typed.     *)
LEMMA PlacedTicksType ==
  ASSUME NEW tk \in [0..MAX_TICKS-1 -> Tick], NEW nt, NEW base,
         NEW count \in Int, NEW period, NEW divider \in Nat \ {0},
         NEW len \in Nat, NEW tno \in Nat \ {0}
  PROVE  PlacedTicks(tk, nt, base, count, period, divider, len, tno)
           \in [0..MAX_TICKS-1 -> Tick]
<1> SUFFICES ASSUME NEW i \in 0..MAX_TICKS-1
             PROVE  LET m == Cardinality(Visits(nt, base, count, period, i))
                    IN  [slots |-> tk[i].slots \o
                                     [j \in 1..m |-> [divider |-> divider,
                                                      task |-> tno]],
                         len |-> tk[i].len
                                 + m * ((len * DivScale) \div divider)]
                        \in Tick
  BY DEF PlacedTicks
<1> DEFINE m == Cardinality(Visits(nt, base, count, period, i))
<1>1. m \in Nat
  BY VisitsCard
<1>2. [j \in 1..m |-> [divider |-> divider, task |-> tno]] \in Seq(Slot)
  <2>1. [divider |-> divider, task |-> tno] \in Slot
    BY DEF Slot
  <2>. QED
    BY <1>1, <2>1, ConstSeqType
<1>3. tk[i].slots \in Seq(Slot) /\ tk[i].len \in Int
  BY DEF Tick
<1>4. tk[i].slots \o [j \in 1..m |-> [divider |-> divider, task |-> tno]]
        \in Seq(Slot)
  BY <1>2, <1>3
<1>5. (len * DivScale) \div divider \in Int
  BY DEF DivScale
<1>6. tk[i].len + m * ((len * DivScale) \div divider) \in Int
  BY <1>1, <1>3, <1>5
<1>. QED
  BY <1>4, <1>6 DEF Tick

(* expand_ticks keeps the table typed.                                    *)
LEMMA ExpandedTicksType ==
  ASSUME ticks \in [0..MAX_TICKS-1 -> Tick]
  PROVE  ExpandedTicks \in [0..MAX_TICKS-1 -> Tick]
BY DEF ExpandedTicks, Tick

(* parse_time yields a natural number of 1/Scale ticks.                   *)
LEMMA ParseTimeType ==
  ASSUME NEW tok \in Token
  PROVE  parse_time(tok) \in Nat
BY ScaleAssumption DEF parse_time, Token, CYCLES_PER_TICK

(* add_task, for a line that passed parse_schedule's checks, keeps the     *)
(* state typed.                                                           *)
LEMMA AddTaskType ==
  ASSUME TypeOK, NEW line \in Line, NEW period \in Nat, NEW len \in Nat,
         add_task(line, period, len)
  PROVE  /\ n_ticks' \in Nat
         /\ ticks' \in [0..MAX_TICKS-1 -> Tick]
         /\ tasks' \in Seq(Task)
         /\ max_divider' \in Nat
         /\ status' \in Status
<1> DEFINE expand  == period > n_ticks /\ period <= max_ticks
           nt      == IF expand THEN 8 ELSE n_ticks
           tk      == IF expand THEN ExpandedTicks ELSE ticks
           divided == period > n_ticks /\ ~expand
           divider == IF divided /\ n_ticks # 0 THEN period \div n_ticks ELSE 1
           maxd    == NewMaxDivider(divided, divider)
           count   == IF divided THEN 1
                      ELSE IF period # 0 THEN nt \div period ELSE 0
           tno     == NewTaskIndex
           crash   == (divided /\ n_ticks = 0) \/ (~divided /\ period = 0)
                      \/ (~divided /\ count = 0)
           base    == find_best_tick(tk, nt, period, count, len)
<1>1. CASE line.cond # NoCond /\ line.cond \notin conditionals
  BY <1>1 DEF add_task, TypeOK
<1>2. CASE ~(line.cond # NoCond /\ line.cond \notin conditionals)
  <2>1. nt \in Nat /\ count \in Nat /\ tno \in Nat \ {0}
    BY DEF TypeOK, NewTaskIndex
  <2>2. tk \in [0..MAX_TICKS-1 -> Tick]
    BY ExpandedTicksType DEF TypeOK
  <2>3. ~crash => divider \in Nat \ {0}
    BY DEF TypeOK
  <2>4. maxd \in Nat
    <3>1. divider \in Nat
      BY DEF TypeOK
    <3>. QED
      BY <3>1 DEF NewMaxDivider, TypeOK
  <2>5. CASE crash
    BY <1>2, <2>5 DEF add_task, TypeOK, Status
  <2>6. CASE ~crash /\ maxd >= 256
    BY <1>2, <2>6 DEF add_task, TypeOK, Status
  <2>7. CASE ~crash /\ ~(maxd >= 256)
              /\ SlotsExhausted(tk, nt, base, count, period)
    BY <1>2, <2>7 DEF add_task, TypeOK, Status
  <2>8. CASE ~crash /\ ~(maxd >= 256)
              /\ ~SlotsExhausted(tk, nt, base, count, period)
    <3>1. /\ n_ticks' = nt
          /\ ticks' = PlacedTicks(tk, nt, base, count, period, divider, len, tno)
          /\ tasks' = Append(tasks, [period |-> period, len |-> len,
                                     unrolled |-> line.unrolled,
                                     n_slots |-> count])
          /\ max_divider' = maxd
          /\ status' = status
      BY <1>2, <2>8 DEF add_task
    <3>2. ticks' \in [0..MAX_TICKS-1 -> Tick]
      <4>1. divider \in Nat \ {0}
        BY <2>3, <2>8
      <4>2. PlacedTicks(tk, nt, base, count, period, divider, len, tno)
              \in [0..MAX_TICKS-1 -> Tick]
        <5>1. count \in Int
          BY <2>1
        <5>. HIDE DEF nt, tk, divider, count, tno, base
        <5>. QED
          BY <2>2, <4>1, <5>1, <2>1, PlacedTicksType
      <4>. QED
        BY <3>1, <4>2
    <3>3. [period |-> period, len |-> len, unrolled |-> line.unrolled,
           n_slots |-> count] \in Task
      BY <2>1 DEF Task, Line
    <3>. QED
      BY <2>1, <2>4, <3>1, <3>2, <3>3 DEF TypeOK
  <2>. QED
    BY <2>5, <2>6, <2>7, <2>8
<1>. QED
  BY <1>1, <1>2

(* Type correctness of the generator.                                     *)
THEOREM TypeCorrect == Spec => []TypeOK
<1>1. Init => TypeOK
  <2> SUFFICES ASSUME Init PROVE TypeOK
    OBVIOUS
  <2>1. input \in Seq(Line) /\ eol \in BOOLEAN
    BY FilesAssumption DEF Init, File
  <2>2. [slots |-> <<>>, len |-> 0] \in Tick
    BY DEF Tick
  <2>3. ticks \in [0..MAX_TICKS-1 -> Tick]
    BY <2>2 DEF Init
  <2>. QED
    BY <2>1, <2>3 DEF Init, TypeOK, Status
<1>2. TypeOK /\ [Next]_vars => TypeOK'
  <2> SUFFICES ASSUME TypeOK, [Next]_vars PROVE TypeOK'
    OBVIOUS
  <2>1. CASE ReadLine
    <3>1. CASE Len(input) = 1 /\ ~eol
      BY <2>1, <3>1 DEF ReadLine, TypeOK, Status
    <3>2. CASE ~(Len(input) = 1 /\ ~eol)
      <4> DEFINE line   == Head(input)
                 period == parse_time(line.per) \div Scale
                 len    == parse_time(line.len)
      <4>1. line \in Line /\ input' = Tail(input) /\ eol' = eol
        BY <2>1, <3>1, <3>2 DEF ReadLine, TypeOK
      <4>2. period \in Nat /\ len \in Nat
        BY <4>1, ParseTimeType, ScaleAssumption DEF Line
      <4>3. input' \in Seq(Line)
        BY <2>1, <4>1 DEF ReadLine, TypeOK
      <4>4. CASE line.kind \in {"ignored", "short"}
        BY <2>1, <3>2, <4>1, <4>3, <4>4 DEF ReadLine, TypeOK, Status
      <4>5. CASE line.kind = "task" /\ ~PeriodBitsClear(period)
        BY <2>1, <3>2, <4>1, <4>3, <4>5 DEF ReadLine, TypeOK, Status
      <4>6. CASE line.kind = "task" /\ PeriodBitsClear(period)
                 /\ len >= period * Scale
        BY <2>1, <3>2, <4>1, <4>3, <4>6 DEF ReadLine, TypeOK, Status
      <4>7. CASE line.kind = "task" /\ PeriodBitsClear(period)
                 /\ ~(len >= period * Scale)
        <5>1. add_task(line, period, len)
          BY <2>1, <3>2, <4>1, <4>7 DEF ReadLine
        <5>. QED
          BY <4>1, <4>2, <4>3, <5>1, AddTaskType DEF TypeOK
      <4>. QED
        BY <4>1, <4>4, <4>5, <4>6, <4>7 DEF Line
    <3>. QED
      BY <3>1, <3>2
  <2>2. CASE EndOfFile
    BY <2>2 DEF EndOfFile, TypeOK, Status
  <2>3. CASE Finished \/ UNCHANGED vars
    BY <2>3 DEF Finished, vars, TypeOK
  <2>. QED
    BY <2>1, <2>2, <2>3 DEF Next
<1>. QED
  BY <1>1, <1>2, PTL DEF Spec

-----------------------------------------------------------------------------
(* The dividers write_tick_driver can emit.                               *)

(* The guards div = 1, 2, 4, ..., 128, written out.                       *)
LEMMA EmittedList == EmittedDividers = {1, 2, 4, 8, 16, 32, 64, 128}
<1>1. 2^0 = 1 /\ 2^1 = 2 /\ 2^2 = 4 /\ 2^3 = 8 /\ 2^4 = 16 /\ 2^5 = 32
      /\ 2^6 = 64 /\ 2^7 = 128
  BY SMT
<1>2. \A x : x \in EmittedDividers <=> \E k \in {0, 1, 2, 3, 4, 5, 6, 7} : x = 2^k
  BY DEF EmittedDividers
<1>. QED
  BY <1>1, <1>2

(* The periods that pass the test period & (period - 1), written out.    *)
LEMMA Pow2List ==
  Pow2 = {1, 2, 4, 8, 16, 32, 64, 128, 256, 512, 1024, 2048, 4096,
           8192, 16384, 32768, 65536, 131072, 262144, 524288, 1048576,
           2097152, 4194304, 8388608, 16777216, 33554432, 67108864,
           134217728, 268435456, 536870912, 1073741824}
<1>1. 2^0 = 1 /\ 2^1 = 2 /\ 2^2 = 4 /\ 2^3 = 8 /\ 2^4 = 16 /\ 2^5 = 32
      /\ 2^6 = 64 /\ 2^7 = 128 /\ 2^8 = 256 /\ 2^9 = 512 /\ 2^10 = 1024 /\ 2^11 = 2048
      /\ 2^12 = 4096 /\ 2^13 = 8192 /\ 2^14 = 16384 /\ 2^15 = 32768 /\ 2^16 = 65536 /\ 2^17 = 131072
      /\ 2^18 = 262144 /\ 2^19 = 524288 /\ 2^20 = 1048576 /\ 2^21 = 2097152 /\ 2^22 = 4194304 /\ 2^23 = 8388608
      /\ 2^24 = 16777216 /\ 2^25 = 33554432 /\ 2^26 = 67108864 /\ 2^27 = 134217728 /\ 2^28 = 268435456 /\ 2^29 = 536870912
      /\ 2^30 = 1073741824
  BY SMT
<1>2. 0..30 = {0, 1, 2, 3, 4, 5, 6, 7, 8, 9, 10, 11, 12, 13, 14, 15, 16, 17, 18, 19, 20, 21, 22, 23, 24, 25, 26, 27, 28, 29, 30}
  BY SMT
<1>3. \A x : x \in Pow2 <=> \E k \in {0, 1, 2, 3, 4, 5, 6, 7, 8, 9, 10, 11, 12, 13, 14, 15, 16, 17, 18, 19, 20, 21, 22, 23, 24, 25, 26, 27, 28, 29, 30} : x = 2^k
  BY <1>2 DEF Pow2
<1>. QED
  BY <1>1, <1>3

(* A power-of-two period longer than the 8-tick table, divided by 8, that *)
(* passes add_task's max_divider >= 256 test is one of the emitted guards. *)
LEMMA PowerDivider ==
  ASSUME NEW p \in Pow2, p > 8, p \div 8 < 256
  PROVE  p \div 8 \in EmittedDividers
BY Pow2List, EmittedList

(* Dividers emitted, strengthened: the table is 0 or 8 ticks wide.       *)
DivInv == DividersEmitted /\ n_ticks \in {0, 8}

(* An entry of a sequence extended by m copies of x is an old entry or x.  *)
LEMMA AppendedSlot ==
  ASSUME NEW S, NEW a \in Seq(S), NEW m \in Nat, NEW x \in S,
         NEW s \in 1..Len(a \o [j \in 1..m |-> x])
  PROVE  \/ s \in 1..Len(a) /\ (a \o [j \in 1..m |-> x])[s] = a[s]
         \/ (a \o [j \in 1..m |-> x])[s] = x
<1> DEFINE new == [j \in 1..m |-> x]
<1>1. new \in Seq(S) /\ Len(new) = m
  BY ConstSeqType
<1>. HIDE DEF new
<1>2. /\ Len(a \o new) = Len(a) + m
      /\ \A k \in 1..Len(a) + Len(new) :
           (a \o new)[k] = IF k <= Len(a) THEN a[k] ELSE new[k - Len(a)]
  BY <1>1, ConcatProperties
<1>3. CASE s <= Len(a)
  BY <1>1, <1>2, <1>3
<1>4. CASE ~(s <= Len(a))
  <2>1. s - Len(a) \in 1..m
    BY <1>1, <1>2, <1>4
  <2>2. (a \o new)[s] = new[s - Len(a)]
    BY <1>1, <1>2, <1>4
  <2>3. new[s - Len(a)] = x
    BY <2>1 DEF new
  <2>. QED
    BY <2>2, <2>3
<1>. QED
  BY <1>3, <1>4

(* add_task keeps every slot's divider among the emitted guards and below *)
(* max_divider.                                                           *)
LEMMA AddTaskDividers ==
  ASSUME TypeOK, DivInv, NEW line \in Line, NEW period \in Nat,
         PeriodBitsClear(period), NEW len \in Nat, add_task(line, period, len)
  PROVE  DivInv'
<1> DEFINE expand  == period > n_ticks /\ period <= max_ticks
           nt      == IF expand THEN 8 ELSE n_ticks
           tk      == IF expand THEN ExpandedTicks ELSE ticks
           divided == period > n_ticks /\ ~expand
           divider == IF divided /\ n_ticks # 0 THEN period \div n_ticks ELSE 1
           maxd    == NewMaxDivider(divided, divider)
           count   == IF divided THEN 1
                      ELSE IF period # 0 THEN nt \div period ELSE 0
           tno     == NewTaskIndex
           crash   == (divided /\ n_ticks = 0) \/ (~divided /\ period = 0)
                      \/ (~divided /\ count = 0)
           base    == find_best_tick(tk, nt, period, count, len)
<1>1. CASE line.cond # NoCond /\ line.cond \notin conditionals
  BY <1>1 DEF add_task, DivInv, DividersEmitted
<1>2. CASE ~(line.cond # NoCond /\ line.cond \notin conditionals)
  <2>1. CASE crash \/ maxd >= 256
             \/ SlotsExhausted(tk, nt, base, count, period)
    BY <1>2, <2>1 DEF add_task, DivInv, DividersEmitted
  <2>2. CASE ~crash /\ ~(maxd >= 256)
             /\ ~SlotsExhausted(tk, nt, base, count, period)
    <3>1. /\ n_ticks' = nt
          /\ ticks' = PlacedTicks(tk, nt, base, count, period, divider, len, tno)
          /\ max_divider' = maxd
      BY <1>2, <2>2 DEF add_task
    <3>2. max_divider \in EmittedDividers /\ max_divider \in 1..128
      BY EmittedList DEF DivInv, DividersEmitted
    <3>3. /\ divider \in EmittedDividers /\ divider \in Nat
          /\ divider <= maxd /\ max_divider <= maxd
          /\ maxd \in EmittedDividers
      <4>1. CASE divided
        <5>1. n_ticks = 8 /\ period > 8 /\ period \in Pow2
          BY <2>2, <4>1 DEF DivInv, PeriodBitsClear
        <5>2. divider = period \div 8 /\ divider \in Nat
          BY <4>1, <5>1
        <5>3. maxd = IF divider > max_divider THEN divider ELSE max_divider
          BY <4>1 DEF NewMaxDivider
        <5>4. divider < 256
          BY <2>2, <3>2, <5>2, <5>3
        <5>5. divider \in EmittedDividers
          BY <5>1, <5>2, <5>4, PowerDivider
        <5>. QED
          BY <3>2, <5>2, <5>3, <5>5, EmittedList
      <4>2. CASE ~divided
        <5>1. divider = 1 /\ maxd = max_divider
          BY <4>2 DEF NewMaxDivider
        <5>. QED
          BY <3>2, <5>1, EmittedList
      <4>. QED
        BY <4>1, <4>2
    <3>4. tk \in [0..MAX_TICKS-1 -> Tick]
      BY ExpandedTicksType DEF TypeOK
    <3>5. \A i \in 0..MAX_TICKS-1 : \A s \in 1..Len(tk[i].slots) :
            /\ tk[i].slots[s].divider \in EmittedDividers
            /\ tk[i].slots[s].divider <= maxd
      <4>1. \A i \in 0..MAX_TICKS-1 : tk[i].slots = <<>> \/ tk[i] = ticks[i]
        BY DEF ExpandedTicks
      <4>2. \A i \in 0..MAX_TICKS-1 : ticks[i].slots \in Seq(Slot)
        BY DEF TypeOK, Tick
      <4>3. \A i \in 0..MAX_TICKS-1 : \A s \in 1..Len(ticks[i].slots) :
              /\ ticks[i].slots[s].divider \in EmittedDividers
              /\ ticks[i].slots[s].divider <= max_divider
        BY DEF DivInv, DividersEmitted
      <4> SUFFICES ASSUME NEW i \in 0..MAX_TICKS-1, NEW s \in 1..Len(tk[i].slots)
                   PROVE  /\ tk[i].slots[s].divider \in EmittedDividers
                          /\ tk[i].slots[s].divider <= maxd
        OBVIOUS
      <4>4. tk[i].slots # <<>>
        <5>1. tk[i].slots \in Seq(Slot)
          BY <3>4 DEF Tick
        <5>. QED
          BY <5>1
      <4>5. tk[i] = ticks[i]
        BY <4>1, <4>4
      <4>6. s \in 1..Len(ticks[i].slots)
        BY <4>5
      <4>7. ticks[i].slots[s].divider \in EmittedDividers
            /\ ticks[i].slots[s].divider <= max_divider
        BY <4>3, <4>6
      <4>8. EmittedDividers \subseteq Nat
        BY EmittedList
      <4>9. tk[i].slots[s] = ticks[i].slots[s]
        BY <4>5
      <4>10. ticks[i].slots[s].divider \in EmittedDividers
        BY <4>7
      <4>11. maxd \in EmittedDividers
        BY <3>3
      <4>12. ticks[i].slots[s].divider \in Nat /\ max_divider \in Nat /\ maxd \in Nat
        BY <3>2, <4>8, <4>10, <4>11, Zenon
      <4>13. tk[i].slots[s].divider = ticks[i].slots[s].divider
        BY <4>9
      <4>. HIDE DEF tk, maxd
      <4>. QED
        BY <3>3, <4>7, <4>12, <4>13
    <3>6. \A i \in 0..MAX_TICKS-1 : \A s \in 1..Len(ticks'[i].slots) :
            /\ ticks'[i].slots[s].divider \in EmittedDividers
            /\ ticks'[i].slots[s].divider <= maxd
      <4> SUFFICES ASSUME NEW i \in 0..MAX_TICKS-1,
                          NEW s \in 1..Len(ticks'[i].slots)
                   PROVE  /\ ticks'[i].slots[s].divider \in EmittedDividers
                          /\ ticks'[i].slots[s].divider <= maxd
        OBVIOUS
      <4>1. count \in Int /\ tno \in Nat \ {0}
        BY DEF TypeOK, NewTaskIndex
      <4>2. \/ s \in 1..Len(tk[i].slots) /\ ticks'[i].slots[s] = tk[i].slots[s]
            \/ ticks'[i].slots[s].divider = divider
        <5> DEFINE m == Cardinality(Visits(nt, base, count, period, i))
                   x == [divider |-> divider, task |-> tno]
        <5>1. ticks'[i].slots = tk[i].slots \o [j \in 1..m |-> x]
          BY <3>1 DEF PlacedTicks
        <5>2. /\ m \in Nat /\ x \in Slot /\ tk[i].slots \in Seq(Slot)
              /\ x.divider = divider
          BY <3>3, <3>4, <4>1, VisitsCard DEF Slot, Tick
        <5>. HIDE DEF m, x, tk
        <5>3. s \in 1..Len(tk[i].slots \o [j \in 1..m |-> x])
          BY <5>1
        <5>4. \/ s \in 1..Len(tk[i].slots)
                 /\ (tk[i].slots \o [j \in 1..m |-> x])[s] = tk[i].slots[s]
              \/ (tk[i].slots \o [j \in 1..m |-> x])[s] = x
          BY <5>2, <5>3, AppendedSlot
        <5>. QED
          BY <5>1, <5>2, <5>4
      <4>. QED
        BY <3>3, <3>5, <4>2
    <3>7. nt \in {0, 8}
      BY DEF DivInv
    <3>8. n_ticks' \in {0, 8} /\ max_divider' \in EmittedDividers
      BY <3>1, <3>3, <3>7
    <3>9. \A i \in 0..MAX_TICKS-1 : \A s \in 1..Len(ticks'[i].slots) :
            /\ ticks'[i].slots[s].divider \in EmittedDividers
            /\ ticks'[i].slots[s].divider <= max_divider'
      <4>1. max_divider' = maxd
        BY <3>1
      <4>. HIDE DEF maxd
      <4>. QED
        BY <3>6, <4>1
    <3>. QED
      BY <3>8, <3>9 DEF DivInv, DividersEmitted
  <2>. QED
    BY <2>1, <2>2
<1>. QED
  BY <1>1, <1>2

(* The generator only emits slots the printed driver will run: for every  *)
(* input file and -M value, every slot's divider is a power of two        *)
(* between 1 and max_divider, and max_divider is one of the guards        *)
(* div = 1, 2, 4, ..., 128 that the 8-bit divider can serve.              *)
(* DivInv holds initially and every step of the generator keeps it.      *)
LEMMA DivInvStep == TypeOK /\ DivInv /\ [Next]_vars => DivInv'
<1> SUFFICES ASSUME TypeOK, DivInv, [Next]_vars PROVE DivInv'
  OBVIOUS
<1>1. CASE ReadLine
  <2>1. CASE Len(input) = 1 /\ ~eol
    BY <1>1, <2>1 DEF ReadLine, DivInv, DividersEmitted
  <2>2. CASE ~(Len(input) = 1 /\ ~eol)
    <3> DEFINE line   == Head(input)
               period == parse_time(line.per) \div Scale
               len    == parse_time(line.len)
    <3>1. line \in Line
      BY <1>1 DEF ReadLine, TypeOK
    <3>2. period \in Nat /\ len \in Nat
      BY <3>1, ParseTimeType, ScaleAssumption DEF Line
    <3>3. CASE line.kind = "task" /\ PeriodBitsClear(period)
               /\ ~(len >= period * Scale)
      <4>1. add_task(line, period, len)
        BY <1>1, <2>2, <3>3 DEF ReadLine
      <4>. QED
        BY <3>1, <3>2, <3>3, <4>1, AddTaskDividers
    <3>4. CASE line.kind \in {"ignored", "short"}
      BY <1>1, <2>2, <3>4 DEF ReadLine, DivInv, DividersEmitted
    <3>5. CASE line.kind = "task" /\ ~PeriodBitsClear(period)
      BY <1>1, <2>2, <3>5 DEF ReadLine, DivInv, DividersEmitted
    <3>6. CASE line.kind = "task" /\ PeriodBitsClear(period)
               /\ len >= period * Scale
      BY <1>1, <2>2, <3>6 DEF ReadLine, DivInv, DividersEmitted
    <3>. QED
      BY <3>1, <3>3, <3>4, <3>5, <3>6 DEF Line
  <2>. QED
    BY <2>1, <2>2
<1>2. CASE EndOfFile \/ Finished \/ UNCHANGED vars
  BY <1>2 DEF EndOfFile, Finished, vars, DivInv, DividersEmitted
<1>. QED
  BY <1>1, <1>2 DEF Next
(* DivInv holds in every state of every run of the generator. *)
LEMMA DivAlways == Spec => []DivInv
<1>1. Init => DivInv
  BY EmittedList DEF Init, DivInv, DividersEmitted
<1>. QED
  BY <1>1, DivInvStep, TypeCorrect, PTL DEF Spec

THEOREM DividersCorrect == Spec => []DividersEmitted
<1>1. DivInv => DividersEmitted
  BY DEF DivInv
<1>. QED
  BY <1>1, DivAlways, PTL

=============================================================================
