-------------------------- MODULE SchedGenPlacement -------------------------
(***************************************************************************)
(* The proof that add_task places every task correctly (PlacementCorrect) *)
(* for every value of SchedGen's constants.                                *)
(***************************************************************************)
EXTENDS SchedGenProofs

(* Every slot in the table points at a task already in tasks: the pointer  *)
(* &tasks[n_tasks] a slot gets is the entry its task is about to fill.     *)
SlotTasksKnown ==
  \A i \in 0..MAX_TICKS-1 : \A s \in 1..Len(ticks[i].slots) :
    ticks[i].slots[s].task \in 1..Len(tasks)

(* The inductive invariant: the table is 0 or 8 ticks wide, no task was    *)
(* placed while it was 0 wide, every slot names a placed task, and the     *)
(* placement of every task is correct.                                     *)
(* Every tick's recorded load is a natural number: expand_ticks resets it *)
(* to 0 and a placement only adds len / divider to it.                    *)
LoadsNat == \A i \in 0..MAX_TICKS-1 : ticks[i].len \in Nat

PlaceCore ==
  /\ SlotTasksKnown
  /\ LoadsNat
  /\ n_ticks = 0 => tasks = <<>>
  /\ PlacementCorrect

PlaceInv == TypeOK /\ DivInv /\ PlaceCore


(* PlacementCorrect for one task j, one operator per conjunct.            *)
OneSlotPerTick(j) == \A i \in 0..MAX_TICKS-1 : Cardinality(SlotsOf(j, i)) <= 1
RightSlotCount(j) ==
  /\ tasks[j].n_slots = SlotCount(tasks[j].period)
  /\ Cardinality(TicksOf(j)) = tasks[j].n_slots
OneResidueClass(j) ==
  \E b \in 0..n_ticks-1 :
    TicksOf(j) = {(b + k * tasks[j].period) % n_ticks : k \in 0..tasks[j].n_slots-1}
RightDividers(j) ==
  \A i \in 0..MAX_TICKS-1 : \A s \in SlotsOf(j, i) :
    ticks[i].slots[s].divider = SlotDivider(tasks[j].period)
PlacedOK(j) ==
  OneSlotPerTick(j) /\ RightSlotCount(j) /\ OneResidueClass(j) /\ RightDividers(j)

(* PlacementCorrect says PlacedOK of every task.                          *)
LEMMA PlacementCorrectByTask ==
  PlacementCorrect <=> \A j \in 1..Len(tasks) : PlacedOK(j)
BY DEF PlacementCorrect, PlacedOK, OneSlotPerTick, RightSlotCount,
       OneResidueClass, RightDividers

(***************************************************************************)
(* Lemmas about the operators add_task is built from.                     *)
(***************************************************************************)

(* The ticks base + k * period (mod 8) that add_task's loop visits.        *)
Residues(base, period, count) == {(base + k * period) % 8 : k \in 0..count-1}

(* No tick is visited twice by the loop.                                   *)
NoRevisit(base, period, count) ==
  \A k1, k2 \in 0..count-1 :
    (base + k1 * period) % 8 = (base + k2 * period) % 8 => k1 = k2

(* The loop visits only ticks of the 8-wide table.                       *)
LEMMA ResiduesRange ==
  ASSUME NEW base \in Int, NEW period \in Int, NEW count
  PROVE  Residues(base, period, count) \subseteq 0..7
BY DEF Residues

(* One turn of find_best_tick's outer loop keeps best in 0..7.            *)
LEMMA TurnBest ==
  ASSUME NEW tk, NEW nt, NEW period, NEW count, NEW len, NEW p,
         p.best \in 0..7, NEW t \in 0..7
  PROVE  BestTurn(tk, nt, period, count, len, p, t).best \in 0..7
BY DEF BestTurn

(* find_best_tick returns a tick of the 8-wide table.                     *)
LEMMA BaseRange ==
  ASSUME NEW tk, NEW nt, NEW period, NEW count, NEW len
  PROVE  find_best_tick(tk, nt, period, count, len) \in 0..7
<1> DEFINE B(p, t) == BestTurn(tk, nt, period, count, len, p, t)
           s0 == [best |-> 0, best_len |-> Sentinel]
           s1 == B(s0, 0)
           s2 == B(s1, 1)
           s3 == B(s2, 2)
           s4 == B(s3, 3)
           s5 == B(s4, 4)
           s6 == B(s5, 5)
           s7 == B(s6, 6)
           s8 == B(s7, 7)
<1>0. s0.best \in 0..7
  OBVIOUS
<1>. HIDE DEF s0
<1>1. s1.best \in 0..7
  BY <1>0, TurnBest
<1>. HIDE DEF s1
<1>2. s2.best \in 0..7
  BY <1>1, TurnBest
<1>. HIDE DEF s2
<1>3. s3.best \in 0..7
  BY <1>2, TurnBest
<1>. HIDE DEF s3
<1>4. s4.best \in 0..7
  BY <1>3, TurnBest
<1>. HIDE DEF s4
<1>5. s5.best \in 0..7
  BY <1>4, TurnBest
<1>. HIDE DEF s5
<1>6. s6.best \in 0..7
  BY <1>5, TurnBest
<1>. HIDE DEF s6
<1>7. s7.best \in 0..7
  BY <1>6, TurnBest
<1>. HIDE DEF s7
<1>8. s8.best \in 0..7
  BY <1>7, TurnBest
<1>. QED
  BY <1>8 DEF find_best_tick, B, s0, s1, s2, s3, s4, s5, s6, s7, s8

(* A stride that divides 8 visits 8 / period distinct ticks.              *)
LEMMA StrideNoRevisit ==
  ASSUME NEW base \in Nat, NEW period \in {1, 2, 4, 8}
  PROVE  NoRevisit(base, period, 8 \div period)
<1> SUFFICES ASSUME NEW k1 \in 0..(8 \div period)-1,
                    NEW k2 \in 0..(8 \div period)-1,
                    (base + k1 * period) % 8 = (base + k2 * period) % 8
             PROVE  k1 = k2
  BY DEF NoRevisit
<1>1. CASE period = 1
  BY <1>1
<1>2. CASE period = 2
  BY <1>2
<1>3. CASE period = 4
  BY <1>3
<1>4. CASE period = 8
  BY <1>4
<1>. QED
  BY <1>1, <1>2, <1>3, <1>4

(* The image of 0..c-1 under an injective map has c elements.             *)
LEMMA InjectiveImageCard ==
  ASSUME NEW c \in Nat, NEW g \in [0..c-1 -> Int],
         \A k1, k2 \in 0..c-1 : g[k1] = g[k2] => k1 = k2
  PROVE  Cardinality({g[k] : k \in 0..c-1}) = c
<1> DEFINE R == {g[k] : k \in 0..c-1}
<1>1. IsFiniteSet(0..c-1) /\ Cardinality(0..c-1) = c
  BY FS_Interval
<1>2. g \in Bijection(0..c-1, R)
  BY DEF Bijection, Injection, Surjection, IsInjective
<1>3. ExistsBijection(0..c-1, R)
  BY <1>2 DEF ExistsBijection
<1>. QED
  BY <1>1, <1>3, FS_Bijection

(* Without a revisit, the loop lands once on every tick of Residues and   *)
(* never on any other.                                                     *)
LEMMA VisitsCount ==
  ASSUME NEW base \in Nat, NEW period \in Nat, NEW count \in Nat,
         NoRevisit(base, period, count), NEW i
  PROVE  Cardinality(Visits(8, base, count, period, i)) =
           IF i \in Residues(base, period, count) THEN 1 ELSE 0
<1>1. CASE i \in Residues(base, period, count)
  <2>1. PICK k0 \in 0..count-1 : (base + k0 * period) % 8 = i
    BY <1>1 DEF Residues
  <2>2. Visits(8, base, count, period, i) = {k0}
    BY <2>1 DEF Visits, NoRevisit
  <2>. QED
    BY <1>1, <2>2, FS_Singleton
<1>2. CASE i \notin Residues(base, period, count)
  <2>1. Visits(8, base, count, period, i) = {}
    BY <1>2 DEF Visits, Residues
  <2>. QED
    BY <1>2, <2>1, FS_EmptySet
<1>. QED
  BY <1>1, <1>2

(* find_best_tick's inner loop over a single bucket is that bucket's cost. *)
LEMMA TotalLenOne ==
  ASSUME NEW tk, NEW nt, NEW period, NEW len, NEW tickno,
         CandidateLen(tk, nt, period, 1, len, tickno, 0) \in Int
  PROVE  TotalLen(tk, nt, period, 1, len, tickno)
           = CandidateLen(tk, nt, period, 1, len, tickno, 0)
<1> DEFINE c(k) == CandidateLen(tk, nt, period, 1, len, tickno, k)
           G(f) == [k \in 0..1 |-> IF k = 0 THEN 0 ELSE f[k-1] + c(k-1)]
           F == [k \in 0..1 |-> IF k = 0 THEN 0 ELSE c(0)]
<1>1. F = G(F)
  OBVIOUS
<1>2. \A f : f = G(f) => f[1] = c(0)
  OBVIOUS
<1>3. TotalLen(tk, nt, period, 1, len, tickno) = (CHOOSE f : f = G(f))[1]
  BY DEF TotalLen
<1>. QED
  BY <1>1, <1>2, <1>3

(* One turn of the outer loop keeps the best cost a natural number when    *)
(* the turn's cost is one.                                                 *)
LEMMA TurnNat ==
  ASSUME NEW tk, NEW nt, NEW period, NEW count, NEW len, NEW p,
         p.best_len \in Nat, NEW t,
         TotalLen(tk, nt, period, count, len, t) \in Nat
  PROVE  BestTurn(tk, nt, period, count, len, p, t).best_len \in Nat
BY DEF BestTurn

(* The affinity of find_best_tick: a task run under a divider (period    *)
(* above the 8 ticks, one slot) goes to the last tick when that tick has  *)
(* room for it, since only the last tick's cost is -OneTick.              *)
LEMMA BestIsLast ==
  ASSUME NEW tk, \A i \in 0..7 : tk[i].len \in Nat,
         NEW period \in Nat, period > 8, NEW len \in Nat,
         tk[7].len + len * DivScale < OneTick
  PROVE  find_best_tick(tk, 8, period, 1, len) = 7
<1> DEFINE B(p, t) == BestTurn(tk, 8, period, 1, len, p, t)
           T(t) == TotalLen(tk, 8, period, 1, len, t)
           s0 == [best |-> 0, best_len |-> Sentinel]
           s1 == B(s0, 0)
           s2 == B(s1, 1)
           s3 == B(s2, 2)
           s4 == B(s3, 3)
           s5 == B(s4, 4)
           s6 == B(s5, 5)
           s7 == B(s6, 6)
           s8 == B(s7, 7)
<1>a. OneTick \in Nat \ {0} /\ Sentinel \in Nat
  BY ScaleAssumption DEF OneTick, DivScale, Sentinel
<1>1. \A t \in 0..7 :
        T(t) = IF tk[t].len + len * DivScale >= OneTick THEN Sentinel
               ELSE IF t = 7 THEN -OneTick ELSE tk[t].len
  <2> SUFFICES ASSUME NEW t \in 0..7
               PROVE  T(t) = IF tk[t].len + len * DivScale >= OneTick
                             THEN Sentinel
                             ELSE IF t = 7 THEN -OneTick ELSE tk[t].len
    OBVIOUS
  <2>1. CandidateLen(tk, 8, period, 1, len, t, 0)
          = IF tk[t].len + len * DivScale >= OneTick THEN Sentinel
            ELSE IF t = 7 THEN -OneTick ELSE tk[t].len
    BY <1>a DEF CandidateLen
  <2>2. CandidateLen(tk, 8, period, 1, len, t, 0) \in Int
    BY <1>a, <2>1
  <2>. QED
    BY <2>1, <2>2, TotalLenOne
<1>2. \A t \in 0..6 : T(t) \in Nat
  BY <1>a, <1>1
<1>. HIDE DEF T
<1>3. T(7) = -OneTick
  BY <1>1, <1>a DEF DivScale
<1>4. s0.best_len \in Nat
  BY <1>a
<1>. HIDE DEF s0
<1>5. s1.best_len \in Nat
  BY <1>2, <1>4, TurnNat DEF T
<1>. HIDE DEF s1
<1>6. s2.best_len \in Nat
  BY <1>2, <1>5, TurnNat DEF T
<1>. HIDE DEF s2
<1>7. s3.best_len \in Nat
  BY <1>2, <1>6, TurnNat DEF T
<1>. HIDE DEF s3
<1>8. s4.best_len \in Nat
  BY <1>2, <1>7, TurnNat DEF T
<1>. HIDE DEF s4
<1>9. s5.best_len \in Nat
  BY <1>2, <1>8, TurnNat DEF T
<1>. HIDE DEF s5
<1>10. s6.best_len \in Nat
  BY <1>2, <1>9, TurnNat DEF T
<1>. HIDE DEF s6
<1>11. s7.best_len \in Nat
  BY <1>2, <1>10, TurnNat DEF T
<1>. HIDE DEF s7
<1>12. s8.best = 7
  <2>1. T(7) < s7.best_len
    BY <1>a, <1>3, <1>11
  <2>. QED
    BY <2>1 DEF BestTurn, T
<1>. QED
  BY <1>12 DEF find_best_tick, B, s0, s1, s2, s3, s4, s5, s6, s7, s8

(* Appending m copies of a slot x to a sequence whose slots all name other *)
(* tasks: x's task owns exactly the new positions, every other task keeps  *)
(* the positions it had.                                                   *)
LEMMA AppendedSlotsOf ==
  ASSUME NEW a \in Seq(Slot), NEW m \in Nat, NEW x \in Slot,
         \A s \in 1..Len(a) : a[s].task # x.task
  PROVE  /\ Len(a \o [j \in 1..m |-> x]) = Len(a) + m
         /\ \A s \in 1..Len(a) : (a \o [j \in 1..m |-> x])[s] = a[s]
         /\ \A s \in Len(a)+1..Len(a)+m : (a \o [j \in 1..m |-> x])[s] = x
         /\ {s \in 1..Len(a \o [j \in 1..m |-> x]) :
               (a \o [j \in 1..m |-> x])[s].task = x.task}
              = Len(a)+1..Len(a)+m
         /\ \A t : t # x.task =>
              {s \in 1..Len(a \o [j \in 1..m |-> x]) :
                 (a \o [j \in 1..m |-> x])[s].task = t}
              = {s \in 1..Len(a) : a[s].task = t}
<1> DEFINE new == [j \in 1..m |-> x]
<1>1. new \in Seq(Slot) /\ Len(new) = m
  BY ConstSeqType
<1>. HIDE DEF new
<1>2. /\ Len(a \o new) = Len(a) + m
      /\ \A k \in 1..Len(a) + Len(new) :
           (a \o new)[k] = IF k <= Len(a) THEN a[k] ELSE new[k - Len(a)]
  BY <1>1, ConcatProperties
<1>3. \A s \in 1..Len(a) : (a \o new)[s] = a[s]
  BY <1>1, <1>2
<1>4. \A s \in Len(a)+1..Len(a)+m : (a \o new)[s] = x
  BY <1>1, <1>2 DEF new
<1>5. {s \in 1..Len(a \o new) : (a \o new)[s].task = x.task}
        = Len(a)+1..Len(a)+m
  BY <1>2, <1>3, <1>4
<1>6. \A t : t # x.task =>
        {s \in 1..Len(a \o new) : (a \o new)[s].task = t}
        = {s \in 1..Len(a) : a[s].task = t}
  BY <1>2, <1>3, <1>4
<1>. QED
  BY <1>2, <1>3, <1>4, <1>5, <1>6 DEF new

(* A step that leaves the table and the tasks alone keeps PlaceCore.      *)
LEMMA PlaceCoreUnchanged ==
  ASSUME PlaceCore, UNCHANGED <<n_ticks, ticks, tasks>>
  PROVE  PlaceCore'
<1>1. \A j, i : SlotsOf(j, i)' = SlotsOf(j, i)
  BY DEF SlotsOf, SlotsIn
<1>2. \A j : TicksOf(j)' = TicksOf(j)
  BY <1>1 DEF TicksOf, TicksIn, SlotsOf
<1>3. \A p : SlotCount(p)' = SlotCount(p) /\ SlotDivider(p)' = SlotDivider(p)
  BY DEF SlotCount, SlotDivider
<1>4. SlotTasksKnown'
  BY DEF PlaceCore, SlotTasksKnown
<1>5. PlacementCorrect'
  BY <1>1, <1>2, <1>3 DEF PlaceCore, PlacementCorrect
<1>6. LoadsNat'
  BY DEF PlaceCore, LoadsNat
<1>. QED
  BY <1>4, <1>5, <1>6 DEF PlaceCore

(* The step DividedGoLast constrains.                                     *)
DivLastAct ==
  ( /\ Len(tasks') = Len(tasks) + 1
    /\ NewTask.period > n_ticks'
    /\ ticks[n_ticks' - 1].len + NewTask.len * DivScale < OneTick )
  => TicksIn(ticks', Len(tasks')) = {n_ticks' - 1}

(* A step that adds no task satisfies DivLastAct.                         *)
LEMMA DivLastUnchanged ==
  ASSUME UNCHANGED tasks PROVE DivLastAct
BY DEF DivLastAct

(***************************************************************************)
(* add_task keeps PlaceCore and places a divided task as DividedGoLast    *)
(* asks.                                                                   *)
(***************************************************************************)
LEMMA AddTaskPlace ==
  ASSUME TypeOK, DivInv, PlaceCore, NEW line \in Line, NEW period \in Nat,
         PeriodBitsClear(period), NEW len \in Nat, add_task(line, period, len)
  PROVE  PlaceCore' /\ DivLastAct
<1> DEFINE expand  == period > n_ticks /\ period <= max_ticks
           nt      == IF expand THEN 8 ELSE n_ticks
           tk      == IF expand THEN ExpandedTicks ELSE ticks
           divided == period > n_ticks /\ ~expand
           divider == IF divided /\ n_ticks # 0 THEN period \div n_ticks ELSE 1
           maxd    == NewMaxDivider(divided, divider)
           count   == IF divided THEN 1
                      ELSE IF period # 0 THEN nt \div period ELSE 0
           tno     == NewTaskIndex
           crash   == (divided /\ n_ticks = 0) \/ (~divided /\ period = 0)
                      \/ (~divided /\ count = 0)
           base    == find_best_tick(tk, nt, period, count, len)
           T0      == [period |-> period, len |-> len,
                       unrolled |-> line.unrolled, n_slots |-> count]
           x       == [divider |-> divider, task |-> tno]
           m(i)    == Cardinality(Visits(8, base, count, period, i))
<1>a. /\ n_ticks \in Nat /\ ticks \in [0..MAX_TICKS-1 -> Tick]
      /\ tasks \in Seq(Task) /\ max_ticks \in Nat
  BY MaxTicksAssumption DEF TypeOK
<1> USE <1>a
<1>0. UNCHANGED <<n_ticks, ticks, tasks>> => PlaceCore' /\ DivLastAct
  BY PlaceCoreUnchanged, DivLastUnchanged
<1>1. CASE line.cond # NoCond /\ line.cond \notin conditionals
  <2>1. UNCHANGED <<n_ticks, ticks, tasks>>
    BY <1>1 DEF add_task
  <2>. QED
    BY <1>0, <2>1
<1>2. CASE ~(line.cond # NoCond /\ line.cond \notin conditionals)
  <2>1. CASE crash \/ maxd >= 256
             \/ SlotsExhausted(tk, nt, base, count, period)
    <3>1. UNCHANGED <<n_ticks, ticks, tasks>>
      BY <1>2, <2>1 DEF add_task
    <3>. QED
      BY <1>0, <3>1
  <2>2. CASE ~crash /\ ~(maxd >= 256)
             /\ ~SlotsExhausted(tk, nt, base, count, period)
    <3>1. /\ n_ticks' = nt
          /\ ticks' = PlacedTicks(tk, nt, base, count, period, divider, len, tno)
          /\ tasks' = Append(tasks, T0)
      BY <1>2, <2>2 DEF add_task
    <3>2. n_ticks \in {0, 8}
      BY DEF DivInv
    <3>3. nt = 8 /\ period # 0 /\ (expand => n_ticks = 0)
      BY <2>2, <3>2
    <3>4. divided => /\ n_ticks = 8 /\ period > 8 /\ count = 1
                     /\ divider = period \div 8
      BY <2>2, <3>2
    <3>5. ~divided => /\ period \in {1, 2, 4, 8} /\ count = 8 \div period
                      /\ divider = 1
      <4>1. ~divided => period \in Pow2 /\ period <= 8
        <5>1. ~divided => period <= 8
          BY <2>2, <3>2, <3>3
        <5>2. period \in Pow2
          BY <3>3 DEF PeriodBitsClear
        <5>. QED
          BY <5>1, <5>2
      <4>. QED
        BY <3>3, <4>1, Pow2List
    <3>6. base \in 0..7 /\ count \in Nat
      <4>1. count \in Nat
        <5>1. CASE divided
          BY <5>1
        <5>2. CASE ~divided
          BY <3>3, <5>2
        <5>. QED
          BY <5>1, <5>2
      <4>. HIDE DEF tk, nt, count
      <4>2. find_best_tick(tk, nt, period, count, len) \in 0..7
        BY BaseRange
      <4>. QED
        BY <4>1, <4>2
    <3>. HIDE DEF base
    <3>7. NoRevisit(base, period, count)
      <4>1. CASE divided
        BY <3>4, <4>1 DEF NoRevisit
      <4>2. CASE ~divided
        BY <3>5, <3>6, <4>2, StrideNoRevisit
      <4>. QED
        BY <4>1, <4>2
    <3>8. \A i : m(i) = IF i \in Residues(base, period, count) THEN 1 ELSE 0
      BY <3>3, <3>6, <3>7, VisitsCount
    <3>9. /\ tk \in [0..MAX_TICKS-1 -> Tick]
          /\ \A i \in 0..MAX_TICKS-1 : \A s \in 1..Len(tk[i].slots) :
               tk[i].slots[s].task \in 1..Len(tasks)
          /\ ~expand => tk = ticks
          /\ \A i \in 0..MAX_TICKS-1 : tk[i].len \in Nat
      <4>1. \A i \in 0..MAX_TICKS-1 : tk[i].slots = <<>> \/ tk[i] = ticks[i]
        BY DEF ExpandedTicks
      <4>2. tk \in [0..MAX_TICKS-1 -> Tick]
        BY ExpandedTicksType DEF TypeOK
      <4>3. \A i \in 0..MAX_TICKS-1 : \A s \in 1..Len(tk[i].slots) :
              tk[i].slots[s].task \in 1..Len(tasks)
        BY <4>1 DEF PlaceCore, SlotTasksKnown
      <4>4. \A i \in 0..MAX_TICKS-1 : tk[i].len \in Nat
        BY DEF ExpandedTicks, PlaceCore, LoadsNat
      <4>. QED
        BY <4>2, <4>3, <4>4
    <3>. HIDE DEF tk
    <3>10. /\ x \in Slot /\ tno = Len(tasks) + 1 /\ Len(tasks') = tno
           /\ tasks' \in Seq(Task) /\ \A j \in 1..Len(tasks) : tasks'[j] = tasks[j]
           /\ tasks'[tno] = T0
      <4>1. divider \in Nat
        BY <3>3, <3>4, <3>5
      <4>2. T0 \in Task
        BY <3>6 DEF Line, Task
      <4>. QED
        BY <3>1, <4>1, <4>2 DEF TypeOK, NewTaskIndex, Slot
    <3>11. \A i \in 0..MAX_TICKS-1 :
              ticks'[i].slots = tk[i].slots \o [j \in 1..m(i) |-> x]
      BY <3>1, <3>3 DEF PlacedTicks
    <3>12. \A i \in 0..MAX_TICKS-1 :
             /\ Len(ticks'[i].slots) = Len(tk[i].slots) + m(i)
             /\ \A s \in 1..Len(tk[i].slots) : ticks'[i].slots[s] = tk[i].slots[s]
             /\ \A s \in Len(tk[i].slots)+1..Len(tk[i].slots)+m(i) :
                  ticks'[i].slots[s] = x
             /\ SlotsIn(ticks', tno, i) = Len(tk[i].slots)+1..Len(tk[i].slots)+m(i)
             /\ \A t : t # tno => SlotsIn(ticks', t, i) = SlotsIn(tk, t, i)
      <4> SUFFICES ASSUME NEW i \in 0..MAX_TICKS-1
                   PROVE  /\ Len(ticks'[i].slots) = Len(tk[i].slots) + m(i)
                          /\ \A s \in 1..Len(tk[i].slots) :
                               ticks'[i].slots[s] = tk[i].slots[s]
                          /\ \A s \in Len(tk[i].slots)+1..Len(tk[i].slots)+m(i) :
                               ticks'[i].slots[s] = x
                          /\ SlotsIn(ticks', tno, i)
                               = Len(tk[i].slots)+1..Len(tk[i].slots)+m(i)
                          /\ \A t : t # tno =>
                               SlotsIn(ticks', t, i) = SlotsIn(tk, t, i)
        OBVIOUS
      <4>0. m(i) = IF i \in Residues(base, period, count) THEN 1 ELSE 0
        BY <3>8
      <4>1. tk[i].slots \in Seq(Slot) /\ m(i) \in Nat
        <5>1. tk[i] \in Tick
          BY <3>9
        <5>. QED
          BY <4>0, <5>1 DEF Tick
      <4>2. \A s \in 1..Len(tk[i].slots) : tk[i].slots[s].task # x.task
        BY <3>9, <3>10
      <4> DEFINE a == tk[i].slots
                 mi == m(i)
      <4>. HIDE DEF tk, x, m, a, mi
      <4>h. /\ a \in Seq(Slot) /\ mi \in Nat /\ x \in Slot
            /\ \A s \in 1..Len(a) : a[s].task # x.task
        BY <3>10, <4>1, <4>2 DEF a, mi
      <4>3. /\ Len(a \o [j \in 1..mi |-> x]) = Len(a) + mi
            /\ \A s \in 1..Len(a) : (a \o [j \in 1..mi |-> x])[s] = a[s]
            /\ \A s \in Len(a)+1..Len(a)+mi : (a \o [j \in 1..mi |-> x])[s] = x
            /\ {s \in 1..Len(a \o [j \in 1..mi |-> x]) :
                  (a \o [j \in 1..mi |-> x])[s].task = x.task}
                 = Len(a)+1..Len(a)+mi
            /\ \A t : t # x.task =>
                 {s \in 1..Len(a \o [j \in 1..mi |-> x]) :
                    (a \o [j \in 1..mi |-> x])[s].task = t}
                 = {s \in 1..Len(a) : a[s].task = t}
        BY <4>h, AppendedSlotsOf
      <4>4. ticks'[i].slots = a \o [j \in 1..mi |-> x] /\ x.task = tno
        BY <3>11 DEF a, mi, x
      <4>5. Len(ticks'[i].slots) = Len(tk[i].slots) + m(i)
        BY <4>3, <4>4 DEF a, mi
      <4>6. \A s \in 1..Len(tk[i].slots) : ticks'[i].slots[s] = tk[i].slots[s]
        BY <4>3, <4>4 DEF a, mi
      <4>7. \A s \in Len(tk[i].slots)+1..Len(tk[i].slots)+m(i) :
              ticks'[i].slots[s] = x
        BY <4>3, <4>4 DEF a, mi
      <4>8. SlotsIn(ticks', tno, i) = Len(tk[i].slots)+1..Len(tk[i].slots)+m(i)
        <5>1. SlotsIn(ticks', tno, i) =
                {s \in 1..Len(a \o [j \in 1..mi |-> x]) :
                   (a \o [j \in 1..mi |-> x])[s].task = x.task}
          BY <4>4 DEF SlotsIn, a
        <5>. QED
          BY <4>3, <5>1 DEF a, mi
      <4>9. \A t : t # tno => SlotsIn(ticks', t, i) = SlotsIn(tk, t, i)
        <5> SUFFICES ASSUME NEW t, t # tno
                     PROVE  SlotsIn(ticks', t, i) = SlotsIn(tk, t, i)
          OBVIOUS
        <5>1. SlotsIn(ticks', t, i) =
                {s \in 1..Len(a \o [j \in 1..mi |-> x]) :
                   (a \o [j \in 1..mi |-> x])[s].task = t}
          BY <4>4 DEF SlotsIn, a
        <5>2. SlotsIn(tk, t, i) = {s \in 1..Len(a) : a[s].task = t}
          BY DEF SlotsIn, a
        <5>. QED
          BY <4>3, <4>4, <5>1, <5>2
      <4>. QED
        BY <4>5, <4>6, <4>7, <4>8, <4>9
    <3>13. Residues(base, period, count) \subseteq 0..MAX_TICKS-1
      <4>1. Residues(base, period, count) \subseteq 0..7
        BY <3>6, ResiduesRange
      <4>. QED
        BY <4>1, TableAssumption
    <3>14. SlotCount(period)' = count /\ SlotDivider(period)' = divider
      <4>1. n_ticks' = 8
        BY <3>1, <3>3
      <4>2. CASE divided
        BY <3>4, <4>1, <4>2 DEF SlotCount, SlotDivider
      <4>3. CASE ~divided
        BY <3>5, <4>1, <4>3 DEF SlotCount, SlotDivider
      <4>. QED
        BY <4>2, <4>3
    <3>15. SlotTasksKnown'
      <4> SUFFICES ASSUME NEW i \in 0..MAX_TICKS-1,
                          NEW s \in 1..Len(ticks'[i].slots)
                   PROVE  ticks'[i].slots[s].task \in 1..Len(tasks')
        BY DEF SlotTasksKnown
      <4>1. /\ Len(ticks'[i].slots) = Len(tk[i].slots) + m(i)
            /\ \A u \in 1..Len(tk[i].slots) : ticks'[i].slots[u] = tk[i].slots[u]
            /\ \A u \in Len(tk[i].slots)+1..Len(tk[i].slots)+m(i) :
                 ticks'[i].slots[u] = x
        BY <3>12
      <4>2. Len(tk[i].slots) \in Nat /\ m(i) \in Nat
        <5>1. tk[i] \in Tick
          BY <3>9
        <5>2. m(i) = IF i \in Residues(base, period, count) THEN 1 ELSE 0
          BY <3>8
        <5>. QED
          BY <5>1, <5>2 DEF Tick
      <4>3. CASE s <= Len(tk[i].slots)
        <5>1. ticks'[i].slots[s] = tk[i].slots[s]
          BY <4>1, <4>2, <4>3
        <5>2. tk[i].slots[s].task \in 1..Len(tasks)
          BY <3>9, <4>2, <4>3
        <5>. QED
          BY <3>10, <5>1, <5>2
      <4>4. CASE ~(s <= Len(tk[i].slots))
        <5>1. ticks'[i].slots[s] = x
          BY <4>1, <4>2, <4>4
        <5>. QED
          BY <3>10, <5>1
      <4>. QED
        BY <4>3, <4>4
    <3>16. ASSUME NEW j \in 1..Len(tasks) PROVE PlacedOK(j)'
      <4>1. tk = ticks /\ n_ticks' = n_ticks /\ j # tno
        BY <3>1, <3>3, <3>9, <3>10 DEF PlaceCore
      <4>2. \A i \in 0..MAX_TICKS-1 : SlotsOf(j, i)' = SlotsOf(j, i)
        BY <3>12, <4>1 DEF SlotsOf
      <4>3. TicksOf(j)' = TicksOf(j)
        BY <4>2 DEF TicksOf, TicksIn, SlotsOf
      <4>4. \A i \in 0..MAX_TICKS-1 : \A s \in SlotsOf(j, i) :
              ticks'[i].slots[s] = ticks[i].slots[s]
        BY <3>12, <4>1 DEF SlotsOf, SlotsIn
      <4>5. tasks'[j] = tasks[j]
        BY <3>10
      <4>6. PlacedOK(j)
        BY PlacementCorrectByTask DEF PlaceCore
      <4>7. /\ SlotCount(tasks[j].period)' = SlotCount(tasks[j].period)
            /\ SlotDivider(tasks[j].period)' = SlotDivider(tasks[j].period)
        BY <4>1, <4>5 DEF SlotCount, SlotDivider
      <4>8. OneSlotPerTick(j)'
        BY <4>2, <4>6 DEF PlacedOK, OneSlotPerTick
      <4>9. RightSlotCount(j)'
        BY <4>3, <4>5, <4>6, <4>7 DEF PlacedOK, RightSlotCount
      <4>10. OneResidueClass(j)'
        BY <4>1, <4>3, <4>5, <4>6 DEF PlacedOK, OneResidueClass
      <4>11. RightDividers(j)'
        BY <4>2, <4>4, <4>5, <4>6, <4>7 DEF PlacedOK, RightDividers
      <4>. QED
        BY <4>8, <4>9, <4>10, <4>11 DEF PlacedOK
    <3>16a. TicksIn(ticks', tno) = Residues(base, period, count)
      <4>1. \A i \in 0..MAX_TICKS-1 :
              SlotsIn(ticks', tno, i) # {} <=> i \in Residues(base, period, count)
        <5> SUFFICES ASSUME NEW i \in 0..MAX_TICKS-1
                     PROVE  SlotsIn(ticks', tno, i) # {} <=>
                              i \in Residues(base, period, count)
          OBVIOUS
        <5>1. SlotsIn(ticks', tno, i) = Len(tk[i].slots)+1..Len(tk[i].slots)+m(i)
          BY <3>12
        <5>2. tk[i] \in Tick
          BY <3>9
        <5>3. Len(tk[i].slots) \in Nat
          BY <5>2 DEF Tick
        <5>4. m(i) = IF i \in Residues(base, period, count) THEN 1 ELSE 0
          BY <3>8
        <5> DEFINE L == Len(tk[i].slots)
                   mi == m(i)
        <5>. HIDE DEF L, mi
        <5>7. SlotsIn(ticks', tno, i) = L+1..L+mi /\ L \in Nat
          BY <5>1, <5>3 DEF L, mi
        <5>5. CASE i \in Residues(base, period, count)
          <6>1. mi = 1
            BY <5>4, <5>5 DEF mi
          <6>. QED
            BY <5>7, <5>5, <6>1
        <5>6. CASE i \notin Residues(base, period, count)
          <6>1. mi = 0
            BY <5>4, <5>6 DEF mi
          <6>. QED
            BY <5>7, <5>6, <6>1
        <5>. QED
          BY <5>5, <5>6
      <4>. QED
        BY <3>13, <4>1 DEF TicksIn
    <3>17. ASSUME NEW j, j = tno PROVE PlacedOK(j)'
      <4>1. \A i \in 0..MAX_TICKS-1 : Cardinality(SlotsOf(j, i)') = m(i)
        <5> SUFFICES ASSUME NEW i \in 0..MAX_TICKS-1
                     PROVE  Cardinality(SlotsOf(j, i)') = m(i)
          OBVIOUS
        <5>1. Len(tk[i].slots) \in Nat /\ m(i) \in Nat
          <6>1. tk[i] \in Tick
            BY <3>9
          <6>2. m(i) = IF i \in Residues(base, period, count) THEN 1 ELSE 0
            BY <3>8
          <6>. QED
            BY <6>1, <6>2 DEF Tick
        <5>2. SlotsOf(j, i)' = Len(tk[i].slots)+1..Len(tk[i].slots)+m(i)
          BY <3>12, <3>17 DEF SlotsOf
        <5> DEFINE L == Len(tk[i].slots)
                   mi == m(i)
        <5>. HIDE DEF L, mi
        <5>3. L \in Nat /\ mi \in Nat
          BY <5>1 DEF L, mi
        <5>4. Cardinality(L+1..L+mi) = IF L+1 > L+mi THEN 0 ELSE (L+mi)-(L+1)+1
          BY <5>3, FS_Interval
        <5>5. Cardinality(L+1..L+mi) = mi
          BY <5>3, <5>4
        <5>. QED
          BY <5>2, <5>5 DEF L, mi
      <4>2. TicksOf(j)' = Residues(base, period, count)
        BY <3>16a, <3>17 DEF TicksOf, TicksIn, SlotsIn
      <4>3. Cardinality(Residues(base, period, count)) = count
        <5> DEFINE g == [k \in 0..count-1 |-> (base + k * period) % 8]
        <5>1. g \in [0..count-1 -> Int]
          BY <3>6
        <5>2. \A k1, k2 \in 0..count-1 : g[k1] = g[k2] => k1 = k2
          BY <3>7 DEF NoRevisit
        <5>3. Residues(base, period, count) = {g[k] : k \in 0..count-1}
          BY DEF Residues
        <5>. HIDE DEF g, count
        <5>4. Cardinality({g[k] : k \in 0..count-1}) = count
          BY <3>6, <5>1, <5>2, InjectiveImageCard
        <5>. QED
          BY <5>3, <5>4
      <4>4. \A i \in 0..MAX_TICKS-1 : \A s \in SlotsOf(j, i)' :
              ticks'[i].slots[s].divider = divider
        <5> SUFFICES ASSUME NEW i \in 0..MAX_TICKS-1, NEW s \in SlotsOf(j, i)'
                     PROVE  ticks'[i].slots[s].divider = divider
          OBVIOUS
        <5>1. s \in Len(tk[i].slots)+1..Len(tk[i].slots)+m(i)
          BY <3>12, <3>17 DEF SlotsOf
        <5>2. ticks'[i].slots[s] = x
          BY <3>12, <5>1
        <5>. QED
          BY <5>2
      <4>0. tasks'[j].period = period /\ tasks'[j].n_slots = count
        BY <3>10, <3>17
      <4>5. n_ticks' = 8
        BY <3>1, <3>3
      <4>6. OneSlotPerTick(j)'
        BY <3>8, <4>1 DEF OneSlotPerTick
      <4>7. RightSlotCount(j)'
        BY <4>0, <3>14, <4>2, <4>3 DEF RightSlotCount
      <4>8. OneResidueClass(j)'
        <5>1. TicksOf(j)' = {(base + k * tasks'[j].period) % n_ticks' :
                                 k \in 0..tasks'[j].n_slots-1}
          BY <4>0, <4>2, <4>5 DEF Residues
        <5>2. base \in 0..n_ticks'-1
          BY <3>6, <4>5
        <5>. QED
          BY <5>1, <5>2 DEF OneResidueClass
      <4>9. RightDividers(j)'
        BY <4>0, <3>14, <4>4 DEF RightDividers
      <4>. QED
        BY <4>6, <4>7, <4>8, <4>9 DEF PlacedOK
    <3>18. PlacementCorrect'
      <4>1. PlacementCorrect' <=> \A j \in 1..Len(tasks') : PlacedOK(j)'
        BY DEF PlacementCorrect, PlacedOK, OneSlotPerTick, RightSlotCount,
               OneResidueClass, RightDividers
      <4>2. \A j \in 1..Len(tasks') : PlacedOK(j)'
        BY <3>10, <3>16, <3>17
      <4>. QED
        BY <4>1, <4>2
    <3>19. LoadsNat'
      <4> SUFFICES ASSUME NEW i \in 0..MAX_TICKS-1 PROVE ticks'[i].len \in Nat
        BY DEF LoadsNat
      <4>1. ticks'[i].len = tk[i].len + m(i) * ((len * DivScale) \div divider)
        BY <3>1, <3>3 DEF PlacedTicks
      <4>2. m(i) \in Nat /\ tk[i].len \in Nat
        BY <3>8, <3>9
      <4>3. divider \in Nat \ {0}
        BY <3>3, <3>4, <3>5
      <4> DEFINE l0 == tk[i].len
                 mi == m(i)
                 q  == (len * DivScale) \div divider
      <4>. HIDE DEF l0, mi
      <4>4. q \in Nat
        BY <4>3 DEF DivScale
      <4>5. ticks'[i].len = l0 + mi * q /\ l0 \in Nat /\ mi \in Nat
        BY <4>1, <4>2 DEF l0, mi, q
      <4>. HIDE DEF q
      <4>. QED
        BY <4>4, <4>5
    <3>20. DivLastAct
      <4> SUFFICES ASSUME Len(tasks') = Len(tasks) + 1,
                          NewTask.period > n_ticks',
                          ticks[n_ticks' - 1].len + NewTask.len * DivScale < OneTick
                   PROVE  TicksIn(ticks', Len(tasks')) = {n_ticks' - 1}
        BY DEF DivLastAct
      <4>1. NewTask = T0
        BY <3>10 DEF NewTask
      <4>2. n_ticks' = 8 /\ period > 8
        BY <3>1, <3>3, <4>1
      <4>3. divided
        BY <3>5, <4>2
      <4>4. tk = ticks /\ count = 1
        BY <3>4, <3>9, <4>3
      <4>5. base = 7
        <5>1. base = find_best_tick(ticks, 8, period, 1, len)
          BY <3>3, <4>4 DEF base
        <5>2. \A i \in 0..7 : ticks[i].len \in Nat
          BY TableAssumption DEF PlaceCore, LoadsNat
        <5>3. ticks[7].len + len * DivScale < OneTick
          BY <4>1, <4>2
        <5>. QED
          BY <5>1, <5>2, <5>3, <4>2, BestIsLast
      <4>6. TicksIn(ticks', tno) = Residues(base, period, count)
        BY <3>16a
      <4>7. Residues(base, period, count) = {7}
        BY <4>4, <4>5 DEF Residues
      <4>8. Len(tasks') = tno
        BY <3>10
      <4>9. TicksIn(ticks', Len(tasks')) = TicksIn(ticks', tno)
        BY <4>8
      <4>10. TicksIn(ticks', Len(tasks')) = {7}
        BY <4>6, <4>7, <4>9
      <4>11. {n_ticks' - 1} = {7}
        BY <4>2
      <4>. QED
        BY <4>10, <4>11
    <3>. QED
      BY <3>1, <3>3, <3>15, <3>18, <3>19, <3>20 DEF PlaceCore
  <2>. QED
    BY <2>1, <2>2
<1>. QED
  BY <1>1, <1>2

(* Every step of the generator keeps PlaceCore and satisfies DivLastAct: *)
(* a line that reaches add_task by AddTaskPlace, every other step because *)
(* it leaves the table and the tasks alone.                               *)
LEMMA PlaceCoreStep ==
  TypeOK /\ DivInv /\ PlaceCore /\ [Next]_vars => PlaceCore' /\ DivLastAct
<1> SUFFICES ASSUME TypeOK, DivInv, PlaceCore, [Next]_vars
             PROVE  PlaceCore' /\ DivLastAct
  OBVIOUS
<1>1. CASE ReadLine
  <2>1. CASE Len(input) = 1 /\ ~eol
    <3>1. UNCHANGED <<n_ticks, ticks, tasks>>
      BY <1>1, <2>1 DEF ReadLine
    <3>. QED
      BY <3>1, PlaceCoreUnchanged, DivLastUnchanged
  <2>2. CASE ~(Len(input) = 1 /\ ~eol)
    <3> DEFINE line   == Head(input)
               period == parse_time(line.per) \div Scale
               len    == parse_time(line.len)
    <3>1. line \in Line
      BY <1>1 DEF ReadLine, TypeOK
    <3>2. period \in Nat /\ len \in Nat
      BY <3>1, ParseTimeType, ScaleAssumption DEF Line
    <3>3. CASE line.kind = "task" /\ PeriodBitsClear(period)
               /\ ~(len >= period * Scale)
      <4>1. add_task(line, period, len)
        BY <1>1, <2>2, <3>3 DEF ReadLine
      <4>. QED
        BY <3>1, <3>2, <3>3, <4>1, AddTaskPlace
    <3>4. CASE ~(line.kind = "task" /\ PeriodBitsClear(period)
                 /\ ~(len >= period * Scale))
      <4>1. UNCHANGED <<n_ticks, ticks, tasks>>
        BY <1>1, <2>2, <3>1, <3>4 DEF ReadLine, Line
      <4>. QED
        BY <4>1, PlaceCoreUnchanged, DivLastUnchanged
    <3>. QED
      BY <3>3, <3>4
  <2>. QED
    BY <2>1, <2>2
<1>2. CASE EndOfFile \/ Finished \/ UNCHANGED vars
  <2>1. UNCHANGED <<n_ticks, ticks, tasks>>
    BY <1>2 DEF EndOfFile, Finished, vars
  <2>. QED
    BY <2>1, PlaceCoreUnchanged, DivLastUnchanged
<1>. QED
  BY <1>1, <1>2 DEF Next

(* The generator starts with no tasks and empty ticks.                    *)
LEMMA PlaceCoreInit == Init => PlaceCore
BY DEF Init, PlaceCore, SlotTasksKnown, LoadsNat, PlacementCorrect

(* PlaceCore holds in every state of the generator.                      *)
LEMMA PlaceCoreAlways == Spec => []PlaceCore
BY PlaceCoreInit, PlaceCoreStep, TypeCorrect, DivAlways, PTL DEF Spec

(* add_task places every task correctly, whatever the constants: every    *)
(* task is called from max(1, n_ticks / period) ticks forming one residue *)
(* class of stride period, at most once in each, and each of its slots    *)
(* carries the divider max(1, period / n_ticks).                          *)
THEOREM PlacementCorrectness == Spec => []PlacementCorrect
<1>1. PlaceCore => PlacementCorrect
  BY DEF PlaceCore
<1>. QED
  BY <1>1, PlaceCoreAlways, PTL

(* The affinity of find_best_tick, for every value of the constants: a   *)
(* task placed under a divider (its period above the table's width) goes *)
(* to the last tick alone whenever that tick has room for its length.    *)
THEOREM DividedGoLastHolds == Spec => DividedGoLast
<1>1. TypeOK /\ DivInv /\ PlaceCore /\ [Next]_vars => [DivLastAct]_vars
  BY PlaceCoreStep
<1>2. Spec => [][Next]_vars
  BY DEF Spec
<1>3. DividedGoLast <=> [][DivLastAct]_vars
  BY DEF DividedGoLast, DivLastAct
<1>. QED
  BY <1>1, <1>2, <1>3, PlaceCoreAlways, TypeCorrect, DivAlways, PTL

=============================================================================
