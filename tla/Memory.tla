------------------------------- MODULE Memory -------------------------------
(***************************************************************************)
(* The memory primitives of src/include/asm-6809.h: memset, memcpy,        *)
(* memmove, __blockclear16, __blockcopy16 and strlen, one call at a time.  *)
(* A call starts with its arguments and the memory as the caller left it;  *)
(* each step is one turn of the function's loop.  Memory is the bytes      *)
(* 0..Size-1; an access outside them ends the call in "fault".  The 6809  *)
(* is big-endian: a U16 store puts its high byte at the lower address.    *)
(* 'long unsigned int' is 32 bits and 'int' 16 bits under gcc6809.         *)
(***************************************************************************)
EXTENDS Naturals

CONSTANTS
  Size,      \* bytes of memory
  Calls,     \* the calls the model makes: op, destination d, source s,
             \* length n, fill value c, and z, the address of the one 0 byte
  ULong      \* 2^32, the modulus of long unsigned int arithmetic

Ops == {"memset", "memcpy", "memmove", "blockclear16", "blockcopy16", "strlen"}
Call == [op : Ops, d : Nat, s : Nat, n : Nat, c : Nat, z : Nat]

ASSUME CallsAssumption == Size \in Nat /\ Calls \subseteq Call
(* TLC's integers stop below 2^31.  A smaller modulus gives the same runs *)
(* as long as a wrapped count still outlasts memory: more than 16 * Size. *)
ASSUME ULongAssumption == ULong \in Nat /\ ULong > 16 * Size + 16

VARIABLES
  call,    \* the call being made
  mem,     \* the bytes of memory
  p1, p2,  \* the destination and source pointers (s1, _s1, _s2, s)
  n,       \* the count register of the loop
  len,     \* strlen's result
  pc       \* which loop runs, or "done" or "fault"

vars == <<call, mem, p1, p2, n, len, pc>>

Addr == 0..Size-1

(* The memory as the caller left it: distinct nonzero bytes, and one 0.   *)
Mem0(c) == [a \in Addr |-> IF a = c.z THEN 0 ELSE (a % 255) + 1]

(* Bit k of a | b, at its weight 2^k.                                     *)
OrBit(a, b, k) ==
  IF (a \div 2^k) % 2 = 1 \/ (b \div 2^k) % 2 = 1 THEN 2^k ELSE 0

(* a | b on two bytes, bit by bit.                                        *)
OrByte(a, b) ==
  OrBit(a, b, 0) + OrBit(a, b, 1) + OrBit(a, b, 2) + OrBit(a, b, 3)
  + OrBit(a, b, 4) + OrBit(a, b, 5) + OrBit(a, b, 6) + OrBit(a, b, 7)

(* The bytes of ((U16)c << 8) | c, for the 16-bit int c.                  *)
WordHi(c) == OrByte(c % 256, (c % 2^16) \div 256)
WordLo(c) == c % 256

\* Fault: the length not divided by 8 before the 8-byte loop.
MemsetCountUndivided(c) == c.n
(* memset's first test picks the loop and its count.                      *)
MemsetCount(c) ==
  IF c.n % 8 = 0 THEN c.n \div 8 ELSE IF c.n % 2 = 0 THEN c.n \div 2 ELSE c.n
MemsetLoop(c) ==
  IF c.n % 8 = 0 THEN "set8" ELSE IF c.n % 2 = 0 THEN "set2" ELSE "set1"

(* The entry of each function, up to its loop.                            *)
Init ==
  \E c \in Calls :
    /\ call = c
    /\ mem = Mem0(c)
    /\ len = 0
    /\ CASE c.op = "memset" ->
              p1 = c.d /\ p2 = 0 /\ n = MemsetCount(c) /\ pc = MemsetLoop(c)
         [] c.op = "blockclear16" -> p1 = c.d /\ p2 = 0 /\ n = c.n /\ pc = "clear16"
         [] c.op \in {"memcpy", "memmove"} ->
              \* memmove is 'return memcpy (s1, s2, n)'
              p1 = c.d /\ p2 = c.s /\ n = c.n /\ pc = "copy"
         [] c.op = "blockcopy16" -> p1 = c.d /\ p2 = c.s /\ n = c.n /\ pc = "copy16"
         [] c.op = "strlen" -> p1 = c.s /\ p2 = 0 /\ n = 0 /\ pc = "strlen"

Fits(p, k) == p + k <= Size
Fault == pc' = "fault" /\ UNCHANGED <<call, mem, p1, p2, n, len>>

(* One turn of memset's 8-byte loop (four U16 stores) or of its 2-byte    *)
(* loop (one U16 store), from s1 on; the loop ends when n reaches 0.      *)
SetWords(k) ==
  /\ n > 0
  /\ IF ~Fits(p1, k) THEN Fault
     ELSE /\ mem' = [a \in Addr |->
                      IF p1 <= a /\ a < p1 + k
                      THEN IF (a - p1) % 2 = 0 THEN WordHi(call.c) ELSE WordLo(call.c)
                      ELSE mem[a]]
          /\ p1' = p1 + k
          /\ n' = n - 1
          /\ pc' = IF n - 1 > 0 THEN pc ELSE "done"
          /\ UNCHANGED <<call, p2, len>>
Set8 == pc = "set8" /\ SetWords(8)
Set2 == pc = "set2" /\ SetWords(2)

(* One turn of memset's byte loop: *s1++ = c & 0xFF.                      *)
Set1 ==
  /\ pc = "set1" /\ n > 0
  /\ IF ~Fits(p1, 1) THEN Fault
     ELSE /\ mem' = [mem EXCEPT ![p1] = call.c % 256]
          /\ p1' = p1 + 1 /\ n' = n - 1
          /\ pc' = IF n - 1 > 0 THEN pc ELSE "done"
          /\ UNCHANGED <<call, p2, len>>

(* The end of a while loop entered with n = 0.                            *)
LoopExit ==
  /\ pc \in {"set8", "set2", "set1", "copy"} /\ n = 0
  /\ pc' = "done"
  /\ UNCHANGED <<call, mem, p1, p2, n, len>>

(* One turn of __blockclear16's do-while: eight U16 stores of 0, then     *)
(* n -= 16 in unsigned long, and the test n > 0.                          *)
Clear16 ==
  /\ pc = "clear16"
  /\ IF ~Fits(p1, 16) THEN Fault
     ELSE /\ mem' = [a \in Addr |-> IF p1 <= a /\ a < p1 + 16 THEN 0 ELSE mem[a]]
          /\ p1' = p1 + 16
          /\ n' = (n + ULong - 16) % ULong
          /\ pc' = IF (n + ULong - 16) % ULong > 0 THEN pc ELSE "done"
          /\ UNCHANGED <<call, p2, len>>

(* One turn of memcpy's loop: *_s1++ = *_s2++.                            *)
\* Fault: the source pointer not advanced.
CopyNoSrcAdvance ==
  /\ pc = "copy" /\ n > 0
  /\ IF ~Fits(p1, 1) \/ ~Fits(p2, 1) THEN Fault
     ELSE /\ mem' = [mem EXCEPT ![p1] = mem[p2]]
          /\ p1' = p1 + 1 /\ n' = n - 1
          /\ pc' = IF n - 1 > 0 THEN pc ELSE "done"
          /\ UNCHANGED <<call, p2, len>>
Copy ==
  /\ pc = "copy" /\ n > 0
  /\ IF ~Fits(p1, 1) \/ ~Fits(p2, 1) THEN Fault
     ELSE /\ mem' = [mem EXCEPT ![p1] = mem[p2]]
          /\ p1' = p1 + 1 /\ p2' = p2 + 1 /\ n' = n - 1
          /\ pc' = IF n - 1 > 0 THEN pc ELSE "done"
          /\ UNCHANGED <<call, len>>

(* One '*_s1++ = *_s2++' of __blockcopy16, the i-th of a turn: a U16 is *)
(* loaded from _s2 and stored at _s1.                                     *)
\* Fault: the words stepped by one byte instead of two.
WordCopyByteStride(m, d, s, i) ==
  [m EXCEPT ![d + i] = m[s + i], ![d + i + 1] = m[s + i + 1]]
WordCopy(m, d, s, i) ==
  [m EXCEPT ![d + 2*i] = m[s + 2*i], ![d + 2*i + 1] = m[s + 2*i + 1]]

(* Memory after the eight copies of one turn, in order.                   *)
WordCopies(m, d, s) ==
  LET m1 == WordCopy(m, d, s, 0)
      m2 == WordCopy(m1, d, s, 1)
      m3 == WordCopy(m2, d, s, 2)
      m4 == WordCopy(m3, d, s, 3)
      m5 == WordCopy(m4, d, s, 4)
      m6 == WordCopy(m5, d, s, 5)
      m7 == WordCopy(m6, d, s, 6)
  IN  WordCopy(m7, d, s, 7)

Copy16 ==
  /\ pc = "copy16"
  /\ IF ~Fits(p1, 16) \/ ~Fits(p2, 16) THEN Fault
     ELSE /\ mem' = WordCopies(mem, p1, p2)
          /\ p1' = p1 + 16 /\ p2' = p2 + 16
          /\ n' = (n + ULong - 16) % ULong
          /\ pc' = IF (n + ULong - 16) % ULong > 0 THEN pc ELSE "done"
          /\ UNCHANGED <<call, len>>

(* One turn of strlen's loop: the test *s != '\0', then len++ and s++.    *)
\* Fault: the terminating 0 counted.
StrlenCountsNul ==
  /\ pc = "strlen"
  /\ IF ~Fits(p1, 1) THEN Fault
     ELSE IF mem[p1] = 0
     THEN pc' = "done" /\ len' = len + 1 /\ UNCHANGED <<call, mem, p1, p2, n>>
     ELSE /\ len' = len + 1 /\ p1' = p1 + 1
          /\ UNCHANGED <<call, mem, p2, n, pc>>
Strlen ==
  /\ pc = "strlen"
  /\ IF ~Fits(p1, 1) THEN Fault
     ELSE IF mem[p1] = 0
     THEN pc' = "done" /\ UNCHANGED <<call, mem, p1, p2, n, len>>
     ELSE /\ len' = len + 1 /\ p1' = p1 + 1
          /\ UNCHANGED <<call, mem, p2, n, pc>>

(* The call has returned, or faulted.                                     *)
Returned ==
  /\ pc \in {"done", "fault"}
  /\ UNCHANGED vars

Next == Set8 \/ Set2 \/ Set1 \/ LoopExit \/ Clear16 \/ Copy \/ Copy16
        \/ Strlen \/ Returned

Spec == Init /\ [][Next]_vars

-----------------------------------------------------------------------------
(* What each function must leave in memory, from the C library's          *)
(* definitions: the reference results.                                    *)
InRange(c) == c.d + c.n <= Size /\ c.s + c.n <= Size
Disjoint(c) == c.d + c.n <= c.s \/ c.s + c.n <= c.d
SetRef(c) ==
  [a \in Addr |-> IF c.d <= a /\ a < c.d + c.n THEN c.c % 256 ELSE Mem0(c)[a]]
CopyRef(c) ==
  [a \in Addr |-> IF c.d <= a /\ a < c.d + c.n THEN Mem0(c)[c.s + (a - c.d)]
                  ELSE Mem0(c)[a]]
ClearRef(c) ==
  [a \in Addr |-> IF c.d <= a /\ a < c.d + c.n THEN 0 ELSE Mem0(c)[a]]

(* memset (s, c, n) on bytes inside memory returns with the n bytes from  *)
(* s set to (unsigned char) c and every other byte untouched, whichever   *)
(* of its three loops (8-byte, 2-byte, 1-byte) n selects.                 *)
MemsetFills ==
  call.op = "memset" /\ InRange(call) =>
    /\ pc # "fault"
    /\ pc = "done" => mem = SetRef(call)

(* memcpy of n bytes between regions that do not overlap copies them and  *)
(* touches nothing else.                                                  *)
MemcpyCopies ==
  call.op = "memcpy" /\ InRange(call) /\ Disjoint(call) =>
    /\ pc # "fault"
    /\ pc = "done" => mem = CopyRef(call)

(* memmove copies n bytes as if through a temporary buffer, so overlapping *)
(* regions come out right too.                                            *)
MemmoveCopies ==
  call.op = "memmove" /\ InRange(call) =>
    /\ pc # "fault"
    /\ pc = "done" => mem = CopyRef(call)

(* __blockclear16 and __blockcopy16, given a nonzero multiple of 16 bytes *)
(* (copies between regions that do not overlap), clear or copy exactly    *)
(* those bytes: the do-while and its n -= 16 must stop on the last block. *)
BlockOpsExact ==
  call.op \in {"blockclear16", "blockcopy16"} /\ InRange(call)
  /\ call.n > 0 /\ call.n % 16 = 0
  /\ (call.op = "blockcopy16" => Disjoint(call)) =>
    /\ pc # "fault"
    /\ pc = "done" =>
         mem = IF call.op = "blockcopy16" THEN CopyRef(call)
               ELSE ClearRef(call)

(* strlen of a string that ends inside memory returns the number of bytes *)
(* before its terminating 0.                                              *)
StrlenCounts ==
  call.op = "strlen" /\ call.s <= call.z /\ call.z < Size =>
    /\ pc # "fault"
    /\ pc = "done" => len = call.z - call.s

=============================================================================
