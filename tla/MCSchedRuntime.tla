--------------------------- MODULE MCSchedRuntime ---------------------------
(***************************************************************************)
(* Input files for SchedRuntime: the well-formed lines of MCSchedGen, with *)
(* periods up to 32 so that dividers 2 and 4 are needed, and a task        *)
(* pre-unrolled into three variants.                                       *)
(***************************************************************************)
EXTENDS MCSchedGen, SchedRuntime

LThirtyTwo == TaskLine(Q(128), Q(1), NoCond)   \* m 32 0.25
LUnrolled3 == [TaskLine(Q(8), Q(1), NoCond) EXCEPT !.unrolled = 3]
                                                \* u/3 2 0.25

MCRuntimeLines == {LFast, LTwoCyc, LFour, LEight, LSixteen, LThirtyTwo}
MCUnrolledLines == {LEight, LUnrolled3}

=============================================================================
