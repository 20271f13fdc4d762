------------------------------ MODULE MCMemory ------------------------------
(***************************************************************************)
(* Calls for Memory over 40 bytes.  memset takes every length 0..17, so   *)
(* that each of its three loops runs, at two destinations and two fill     *)
(* values; the copies take every pair of nearby regions of up to 5 bytes, *)
(* overlapping or not; the block operations take 16 and 32 bytes; strlen  *)
(* takes strings of 0 to 4 bytes and one with no terminator in memory.    *)
(***************************************************************************)
EXTENDS Memory

CONSTANT FillValues

Mk(op, d, s, k, c, z) == [op |-> op, d |-> d, s |-> s, n |-> k, c |-> c, z |-> z]
NoNul == 999

MemsetCalls == {Mk("memset", d, 0, k, c, NoNul) : d \in {0, 3}, k \in 0..17,
                                                   c \in FillValues}
CopyCalls(op) == {Mk(op, d, s, k, 0, NoNul) : d \in 0..6, s \in 0..6, k \in 0..5}
BlockCalls ==
  {Mk("blockclear16", d, 0, k, 0, NoNul) : d \in {0, 1}, k \in {16, 32}}
  \cup {Mk("blockcopy16", d, s, k, 0, NoNul) :
          <<d, s>> \in {<<0, 16>>, <<16, 0>>, <<2, 0>>, <<0, 2>>, <<1, 20>>},
          k \in {16}}
StrlenCalls == {Mk("strlen", 0, s, 0, 0, z) : s \in {0, 2}, z \in 2..6}
               \cup {Mk("strlen", 0, 36, 0, 0, NoNul)}

MCCalls == MemsetCalls \cup CopyCalls("memcpy") \cup BlockCalls \cup StrlenCalls
MCMoveCalls == CopyCalls("memmove")

=============================================================================
