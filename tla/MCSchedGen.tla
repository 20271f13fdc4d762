----------------------------- MODULE MCSchedGen -----------------------------
(***************************************************************************)
(* Small input files for SchedGen.  Lengths are in quarter ticks           *)
(* (Scale = 4); a cycle token is a multiple of 488 cycles, a quarter tick, *)
(* so that parse_time is exact.  Each line stands for one way the parser   *)
(* and add_task can treat a line; files are every sequence of up to        *)
(* NLines of them, ending in a newline or not.                             *)
(***************************************************************************)
EXTENDS SchedGen

CONSTANT NLines, LineChoices

\* A token of q quarter ticks, and one of c CPU cycles.
Q(q) == [num |-> q, cyc |-> FALSE]
C(c) == [num |-> c, cyc |-> TRUE]

TaskLine(per, len, cond) ==
  [kind |-> "task", per |-> per, len |-> len, cond |-> cond, unrolled |-> 0]
OtherLine(kind) == [kind |-> kind, per |-> Q(0), len |-> Q(0),
                    cond |-> NoCond, unrolled |-> 0]

\* Named lines; the comment gives the line as the input file would say it.
LFast     == TaskLine(Q(4),  Q(1),   NoCond)    \* a 1 0.25
LTwoCyc   == TaskLine(Q(8),  C(976), NoCond)    \* b 2 976c
LFour     == TaskLine(Q(16), Q(3),   NoCond)    \* c 4 0.75
LEight    == TaskLine(Q(32), Q(2),   NoCond)    \* d 8 0.5
LSixteen  == TaskLine(Q(64), Q(2),   NoCond)    \* e 16 0.5
LCondOn   == TaskLine(Q(128), Q(1),  "X")       \* f?X 32 0.25
LCondOff  == TaskLine(Q(8),  Q(1),   "Y")       \* g?Y 2 0.25
LBadPer   == TaskLine(Q(12), Q(1),   NoCond)    \* h 3 0.25
LCycPer   == TaskLine(C(2928), Q(1), NoCond)    \* i 2928c 0.25 (1.5 -> 1)
LTooLong  == TaskLine(Q(4),  Q(4),   NoCond)    \* j 1 1.0
LHuge     == TaskLine(Q(8192), Q(1), NoCond)    \* k 2048 0.25
LComment  == OtherLine("ignored")               \* # ...
LShort    == OtherLine("short")                 \* l

MCLines ==
  {LFast, LTwoCyc, LFour, LEight, LSixteen, LCondOn, LCondOff,
   LBadPer, LCycPer, LTooLong, LHuge, LComment, LShort}

\* Line sets of the runs that look at one behaviour each.
MCWellFormed == {LFast, LTwoCyc, LEight, LSixteen}
MCPeriod16 == {LSixteen}
MCPeriod1 == {LFast}
MCPeriod8 == {LEight}

MCFiles ==
  {[lines |-> l, eol |-> e] :
     l \in UNION {[1..n -> LineChoices] : n \in 0..NLines}, e \in BOOLEAN}

ASSUME ExactTokens ==
  \A l \in LineChoices : \A tok \in {l.per, l.len} :
    tok.cyc => (tok.num * Scale) % CYCLES_PER_TICK = 0

=============================================================================
