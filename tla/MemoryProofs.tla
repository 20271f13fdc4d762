---------------------------- MODULE MemoryProofs ----------------------------
(***************************************************************************)
(* memcpy of asm-6809.h is right for every memory size and every call     *)
(* between regions that do not overlap.                                   *)
(***************************************************************************)
EXTENDS Memory, TLAPS

(* A memcpy call the C library defines.                                   *)
CopyCall(c) == c.op = "memcpy" /\ InRange(c) /\ Disjoint(c)

(* The memory after k turns of memcpy's loop: the first k bytes copied.   *)
Partial(c, k) ==
  [a \in Addr |-> IF c.d <= a /\ a < c.d + k THEN Mem0(c)[c.s + (a - c.d)]
                  ELSE Mem0(c)[a]]

(* The loop invariant: k = call.n - n bytes are copied and both pointers  *)
(* have moved k bytes on.                                                 *)
CopyLoop ==
  /\ call \in Call
  /\ CopyCall(call) =>
       /\ pc \in {"copy", "done"}
       /\ n \in 0..call.n
       /\ p1 = call.d + (call.n - n)
       /\ p2 = call.s + (call.n - n)
       /\ pc = "done" => n = 0
       /\ mem = Partial(call, call.n - n)

LEMMA InitCopyLoop == Init => CopyLoop
<1> SUFFICES ASSUME NEW c \in Calls, call = c, mem = Mem0(c), len = 0,
                    c.op \in {"memcpy", "memmove"} =>
                      p1 = c.d /\ p2 = c.s /\ n = c.n /\ pc = "copy"
             PROVE  CopyLoop
  BY DEF Init
<1>1. c \in Call
  BY CallsAssumption
<1>2. c.d \in Nat
  BY <1>1 DEF Call
<1>3. Partial(c, 0) = Mem0(c)
  <2>1. \A a \in Addr : Partial(c, 0)[a] = Mem0(c)[a]
    BY <1>2 DEF Partial, Addr
  <2>. QED
    BY <2>1, Zenon DEF Partial, Mem0
<1>4. CopyCall(c) => mem = Partial(c, 0)
  BY <1>3
<1>. QED
  BY <1>1, <1>4 DEF CopyLoop, CopyCall, Call

(* One turn of the loop extends the copied prefix by the byte at p2,      *)
(* which the copy has not overwritten because the regions are disjoint.   *)
LEMMA CopyStep ==
  ASSUME NEW c \in Call, InRange(c), Disjoint(c), Size \in Nat,
         NEW k \in Nat, k < c.n
  PROVE  [Partial(c, k) EXCEPT ![c.d + k] = Partial(c, k)[c.s + k]]
           = Partial(c, k + 1)
<1>1. c.d \in Nat /\ c.s \in Nat /\ c.n \in Nat
  BY DEF Call
<1>2. /\ c.d + c.n <= Size /\ c.s + c.n <= Size
      /\ c.d + c.n <= c.s \/ c.s + c.n <= c.d
  BY DEF InRange, Disjoint
<1>3. c.d + k \in Addr /\ c.s + k \in Addr
  BY <1>1, <1>2 DEF Addr
<1>4. Partial(c, k)[c.s + k] = Mem0(c)[c.s + k]
  BY <1>1, <1>2, <1>3 DEF Partial
<1>5. \A a \in Addr :
        [Partial(c, k) EXCEPT ![c.d + k] = Partial(c, k)[c.s + k]][a]
          = Partial(c, k + 1)[a]
  <2> SUFFICES ASSUME NEW a \in Addr
               PROVE  [Partial(c, k) EXCEPT ![c.d + k] = Partial(c, k)[c.s + k]][a]
                        = Partial(c, k + 1)[a]
    OBVIOUS
  <2>1. DOMAIN Partial(c, k) = Addr
    BY DEF Partial
  <2>2. CASE a = c.d + k
    <3>0. c.d <= a /\ a < c.d + (k + 1) /\ c.s + a - c.d = c.s + k
      BY <1>1, <2>2
    <3>1. Partial(c, k + 1)[a] = Mem0(c)[c.s + k]
      BY <3>0 DEF Partial
    <3>. QED
      BY <1>4, <2>1, <2>2, <3>1
  <2>3. CASE a # c.d + k
    <3>1. Partial(c, k + 1)[a] = Partial(c, k)[a]
      BY <1>1, <2>3 DEF Partial, Addr
    <3>. QED
      BY <2>1, <2>3, <3>1
  <2>. QED
    BY <2>2, <2>3
<1>. QED
  BY <1>3, <1>5, Zenon DEF Partial

LEMMA NextCopyLoop == CopyLoop /\ [Next]_vars => CopyLoop'
<1> SUFFICES ASSUME CopyLoop, [Next]_vars PROVE CopyLoop'
  OBVIOUS
<1>1. call' = call
  BY DEF Next, Set8, Set2, SetWords, Set1, LoopExit, Clear16, Copy, Copy16,
         Strlen, Returned, Fault, vars
<1>2. CASE ~CopyCall(call)
  BY <1>1, <1>2 DEF CopyLoop
<1>3. CASE CopyCall(call)
  <2> USE <1>3
  <2>0. call \in Call /\ Size \in Nat
    BY CallsAssumption DEF CopyLoop
  <2>1. CASE Copy
    <3> DEFINE k == call.n - n
    <3>1. pc = "copy" /\ n > 0 /\ n \in 0..call.n /\ k \in Nat /\ k < call.n
      BY <2>0, <2>1 DEF Copy, CopyLoop, Call
    <3>2. p1 = call.d + k /\ p2 = call.s + k
      BY <3>1 DEF CopyLoop
    <3>3. Fits(p1, 1) /\ Fits(p2, 1)
      BY <2>0, <3>1, <3>2 DEF Fits, CopyCall, InRange, Call
    <3>4. /\ mem' = [mem EXCEPT ![p1] = mem[p2]]
          /\ p1' = p1 + 1 /\ p2' = p2 + 1 /\ n' = n - 1
          /\ pc' = IF n - 1 > 0 THEN "copy" ELSE "done"
      BY <2>1, <3>1, <3>3 DEF Copy
    <3>5. mem = Partial(call, k)
      BY <3>1 DEF CopyLoop
    <3>6. mem' = Partial(call, k + 1)
      <4>1. InRange(call) /\ Disjoint(call)
        BY DEF CopyCall
      <4>. QED
        BY <2>0, <3>1, <3>2, <3>4, <3>5, <4>1, CopyStep
    <3>. QED
      BY <1>1, <2>0, <3>1, <3>2, <3>4, <3>6 DEF CopyLoop, Call
  <2>2. CASE LoopExit
    BY <1>1, <2>2 DEF LoopExit, CopyLoop
  <2>3. CASE Returned \/ UNCHANGED vars
    BY <1>1, <2>3 DEF Returned, CopyLoop, vars
  <2>4. CASE Set8 \/ Set2 \/ Set1 \/ Clear16 \/ Copy16 \/ Strlen
    BY <2>4 DEF Set8, Set2, Set1, Clear16, Copy16, Strlen, CopyLoop
  <2>. QED
    BY <2>1, <2>2, <2>3, <2>4 DEF Next
<1>. QED
  BY <1>2, <1>3

(* memcpy between disjoint regions inside memory never faults, and on     *)
(* return the destination holds the source and nothing else has changed.  *)
THEOREM MemcpyCorrect == Spec => []MemcpyCopies
<1>1. CopyLoop => MemcpyCopies
  BY DEF CopyLoop, MemcpyCopies, CopyCall, Partial, CopyRef, Call
<1>. QED
  BY <1>1, InitCopyLoop, NextCopyLoop, PTL DEF Spec


-----------------------------------------------------------------------------
(* strlen.                                                                 *)

(* A strlen call whose string ends inside memory.                         *)
StrCall(c) == c.op = "strlen" /\ c.s <= c.z /\ c.z < Size

(* The loop invariant: s has moved len bytes on and has not passed the    *)
(* terminator; strlen writes nothing.                                     *)
StrLoop ==
  /\ call \in Call
  /\ StrCall(call) =>
       /\ pc \in {"strlen", "done"}
       /\ p1 \in call.s..call.z
       /\ len = p1 - call.s
       /\ mem = Mem0(call)
       /\ pc = "done" => p1 = call.z

(* The only 0 byte the caller left in memory is at z.                     *)
LEMMA Mem0Zero ==
  ASSUME NEW c \in Call, NEW a \in Addr, Size \in Nat
  PROVE  Mem0(c)[a] = 0 <=> a = c.z
BY DEF Mem0, Addr

LEMMA InitStrLoop == Init => StrLoop
<1> SUFFICES ASSUME NEW c \in Calls, call = c, mem = Mem0(c), len = 0,
                    c.op = "strlen" => p1 = c.s /\ pc = "strlen"
             PROVE  StrLoop
  BY DEF Init
<1>1. c \in Call
  BY CallsAssumption
<1>. QED
  BY <1>1 DEF StrLoop, StrCall, Call

LEMMA NextStrLoop == StrLoop /\ [Next]_vars => StrLoop'
<1> SUFFICES ASSUME StrLoop, [Next]_vars PROVE StrLoop'
  OBVIOUS
<1>1. call' = call
  BY DEF Next, Set8, Set2, SetWords, Set1, LoopExit, Clear16, Copy, Copy16,
         Strlen, Returned, Fault, vars
<1>2. CASE ~StrCall(call)
  BY <1>1, <1>2 DEF StrLoop
<1>3. CASE StrCall(call)
  <2> USE <1>3
  <2>0. call \in Call /\ Size \in Nat
    BY CallsAssumption DEF StrLoop
  <2>1. CASE Strlen
    <3>1. pc = "strlen" /\ p1 \in call.s..call.z /\ len = p1 - call.s
          /\ mem = Mem0(call)
      BY <2>1 DEF Strlen, StrLoop
    <3>2. p1 \in Addr /\ Fits(p1, 1)
      BY <2>0, <3>1 DEF StrCall, Addr, Fits, Call
    <3>3. mem[p1] = 0 <=> p1 = call.z
      BY <2>0, <3>1, <3>2, Mem0Zero
    <3>4. CASE mem[p1] = 0
      BY <1>1, <2>1, <3>1, <3>2, <3>3, <3>4 DEF Strlen, StrLoop
    <3>5. CASE mem[p1] # 0
      <4>1. len' = len + 1 /\ p1' = p1 + 1 /\ UNCHANGED <<mem, pc>>
        BY <2>1, <3>2, <3>5 DEF Strlen
      <4>2. p1 + 1 \in call.s..call.z
        BY <2>0, <3>1, <3>3, <3>5 DEF Call
      <4>. QED
        BY <1>1, <2>0, <3>1, <4>1, <4>2 DEF StrLoop, Call
    <3>. QED
      BY <3>4, <3>5
  <2>2. CASE Returned \/ UNCHANGED vars
    BY <1>1, <2>2 DEF Returned, StrLoop, vars
  <2>3. CASE Set8 \/ Set2 \/ Set1 \/ LoopExit \/ Clear16 \/ Copy \/ Copy16
    BY <2>3 DEF Set8, Set2, Set1, LoopExit, Clear16, Copy, Copy16, StrLoop
  <2>. QED
    BY <2>1, <2>2, <2>3 DEF Next
<1>. QED
  BY <1>2, <1>3

(* strlen of a string that ends inside memory never faults, and returns   *)
(* the number of bytes before the terminating 0.                          *)
THEOREM StrlenCorrect == Spec => []StrlenCounts
<1>1. StrLoop => StrlenCounts
  BY DEF StrLoop, StrCall, StrlenCounts, Call
<1>. QED
  BY <1>1, InitStrLoop, NextStrLoop, PTL DEF Spec


-----------------------------------------------------------------------------
(* memset.                                                                 *)

(* For a fill value below 256, the high byte ((U16)c << 8 | c) >> 8 of   *)
(* the word loops' store is c | 0, and a | 0 is a on a byte.              *)
LEMMA OrZero ==
  ASSUME NEW a \in 0..255
  PROVE  OrByte(a, 0) = a
<1>1. 2^0 = 1 /\ 2^1 = 2 /\ 2^2 = 4 /\ 2^3 = 8 /\ 2^4 = 16 /\ 2^5 = 32
      /\ 2^6 = 64 /\ 2^7 = 128
  BY SMT
<1>2. \A k \in 0..7 : OrBit(a, 0, k) = 2^k * ((a \div 2^k) % 2)
  BY DEF OrBit
<1>3. /\ (a % 2) + 2 * ((a \div 2) % 2) = a % 4
      /\ (a % 4) + 4 * ((a \div 4) % 2) = a % 8
      /\ (a % 8) + 8 * ((a \div 8) % 2) = a % 16
      /\ (a % 16) + 16 * ((a \div 16) % 2) = a % 32
      /\ (a % 32) + 32 * ((a \div 32) % 2) = a % 64
      /\ (a % 64) + 64 * ((a \div 64) % 2) = a % 128
      /\ (a % 128) + 128 * ((a \div 128) % 2) = a
  BY SMT
<1>. QED
  BY <1>1, <1>2, <1>3 DEF OrByte

LEMMA WordBytes ==
  ASSUME NEW c \in 0..255
  PROVE  WordHi(c) = c /\ WordLo(c) = c
<1>1. c % 256 = c /\ (c % 2^16) \div 256 = 0
  BY SMT
<1>. QED
  BY <1>1, OrZero DEF WordHi, WordLo

(* A memset call the C library defines, with a byte as its fill value.   *)
SetCall(c) == c.op = "memset" /\ InRange(c) /\ c.c < 256

(* The bytes memset's loop writes per turn.                               *)
Stride(c) == IF c.n % 8 = 0 THEN 8 ELSE IF c.n % 2 = 0 THEN 2 ELSE 1

(* The memory once the k bytes from d hold v.                             *)
Fill(c, k, v) ==
  [a \in Addr |-> IF c.d <= a /\ a < c.d + k THEN v ELSE Mem0(c)[a]]

(* The loop invariant: the loop memset chose runs, and n turns are left,  *)
(* the bytes before p1 filled.                                            *)
SetLoop ==
  /\ call \in Call
  /\ SetCall(call) =>
       /\ pc \in {MemsetLoop(call), "done"}
       /\ n \in 0..MemsetCount(call)
       /\ p1 = call.d + Stride(call) * (MemsetCount(call) - n)
       /\ pc = "done" => n = 0
       /\ mem = Fill(call, Stride(call) * (MemsetCount(call) - n), call.c)

(* The stride times the count memset computes is the length, and the     *)
(* stride is the one of the loop it picks.                                *)
LEMMA StrideCount ==
  ASSUME NEW c \in Call
  PROVE  /\ Stride(c) * MemsetCount(c) = c.n
         /\ MemsetLoop(c) = "set8" <=> Stride(c) = 8
         /\ MemsetLoop(c) = "set2" <=> Stride(c) = 2
         /\ MemsetLoop(c) = "set1" <=> Stride(c) = 1
         /\ MemsetLoop(c) \in {"set8", "set2", "set1"}
         /\ MemsetCount(c) \in Nat
BY DEF Stride, MemsetCount, MemsetLoop, Call

LEMMA InitSetLoop == Init => SetLoop
<1> SUFFICES ASSUME NEW c \in Calls, call = c, mem = Mem0(c), len = 0,
                    c.op = "memset" =>
                      p1 = c.d /\ n = MemsetCount(c) /\ pc = MemsetLoop(c)
             PROVE  SetLoop
  BY DEF Init
<1>1. c \in Call
  BY CallsAssumption
<1>2. CASE SetCall(c)
  <2>1. MemsetCount(c) \in Nat /\ c.d \in Nat
    BY <1>1, StrideCount DEF Call
  <2>2. \A a \in Addr : Fill(c, 0, c.c)[a] = Mem0(c)[a]
    BY <2>1 DEF Fill, Addr
  <2>3. Fill(c, 0, c.c) = Mem0(c)
    BY <2>2, Zenon DEF Fill, Mem0
  <2>4. Stride(c) * (MemsetCount(c) - MemsetCount(c)) = 0
    BY <2>1 DEF Stride
  <2>5. p1 = c.d /\ n = MemsetCount(c) /\ pc = MemsetLoop(c)
    BY <1>2 DEF SetCall
  <2>6. p1 = c.d + Stride(c) * (MemsetCount(c) - n)
    BY <2>1, <2>4, <2>5
  <2>7. mem = Fill(c, Stride(c) * (MemsetCount(c) - n), c.c)
    BY <2>3, <2>4, <2>5
  <2>8. n \in 0..MemsetCount(c) /\ pc # "done"
    BY <1>1, <2>1, <2>5, StrideCount
  <2>. QED
    BY <1>1, <2>5, <2>6, <2>7, <2>8 DEF SetLoop
<1>. QED
  BY <1>1, <1>2 DEF SetLoop

(* A turn of a word loop, j bytes from d + k, extends the filled prefix: *)
(* both bytes of each word are the fill byte.                             *)
LEMMA FillWords ==
  ASSUME NEW c \in Call, SetCall(c), NEW k \in Nat, NEW j \in Nat
  PROVE  [a \in Addr |->
            IF c.d + k <= a /\ a < c.d + k + j
            THEN IF (a - (c.d + k)) % 2 = 0 THEN WordHi(c.c) ELSE WordLo(c.c)
            ELSE Fill(c, k, c.c)[a]]
         = Fill(c, k + j, c.c)
<1>1. c.c \in 0..255 /\ c.d \in Nat
  BY DEF SetCall, Call
<1>2. WordHi(c.c) = c.c /\ WordLo(c.c) = c.c
  BY <1>1, WordBytes
<1>3. \A a \in Addr :
        (IF c.d + k <= a /\ a < c.d + k + j
         THEN IF (a - (c.d + k)) % 2 = 0 THEN WordHi(c.c) ELSE WordLo(c.c)
         ELSE Fill(c, k, c.c)[a])
        = Fill(c, k + j, c.c)[a]
  BY <1>1, <1>2 DEF Fill, Addr
<1>. QED
  BY <1>3, Zenon DEF Fill

(* A turn of the byte loop stores c & 0xFF at d + k.                      *)
LEMMA FillByte ==
  ASSUME NEW c \in Call, SetCall(c), NEW k \in Nat, Size \in Nat,
         c.d + k < Size
  PROVE  [Fill(c, k, c.c) EXCEPT ![c.d + k] = c.c % 256] = Fill(c, k + 1, c.c)
<1>1. c.c \in 0..255 /\ c.d \in Nat /\ c.c % 256 = c.c
  BY DEF SetCall, Call
<1>2. c.d + k \in Addr
  BY <1>1 DEF Addr
<1>3. \A a \in Addr :
        [Fill(c, k, c.c) EXCEPT ![c.d + k] = c.c % 256][a] = Fill(c, k + 1, c.c)[a]
  BY <1>1, <1>2 DEF Fill, Addr
<1>. QED
  BY <1>2, <1>3, Zenon DEF Fill

LEMMA NextSetLoop == SetLoop /\ [Next]_vars => SetLoop'
<1> SUFFICES ASSUME SetLoop, [Next]_vars PROVE SetLoop'
  OBVIOUS
<1>1. call' = call
  BY DEF Next, Set8, Set2, SetWords, Set1, LoopExit, Clear16, Copy, Copy16,
         Strlen, Returned, Fault, vars
<1>2. CASE ~SetCall(call)
  BY <1>1, <1>2 DEF SetLoop
<1>3. CASE SetCall(call)
  <2> USE <1>3
  <2> DEFINE M == MemsetCount(call)
             K == Stride(call)
             k == K * (M - n)
  <2>0. /\ call \in Call /\ Size \in Nat
        /\ call.d \in Nat /\ call.n \in Nat
        /\ call.d + call.n <= Size
        /\ K * M = call.n /\ M \in Nat /\ K \in {8, 2, 1}
    BY CallsAssumption, StrideCount DEF SetLoop, SetCall, InRange, Call, Stride
  <2>1. CASE Set8 \/ Set2 \/ Set1
    <3>1. pc = MemsetLoop(call) /\ n > 0 /\ n \in 1..M /\ k \in Nat
          /\ k + K <= call.n
          /\ p1 = call.d + k /\ mem = Fill(call, k, call.c)
      <4>1. pc = MemsetLoop(call) /\ n > 0 /\ n \in 0..M
            /\ p1 = call.d + k /\ mem = Fill(call, k, call.c)
        BY <2>1 DEF Set8, Set2, Set1, SetWords, SetLoop
      <4>2. k \in Nat /\ k + K <= call.n
        BY <2>0, <4>1
      <4>. QED
        BY <4>1, <4>2
    <3>2. K * (M - (n - 1)) = k + K
      <4>1. CASE K = 8
        BY <2>0, <3>1, <4>1
      <4>2. CASE K = 2
        BY <2>0, <3>1, <4>2
      <4>3. CASE K = 1
        BY <2>0, <3>1, <4>3
      <4>. QED
        BY <2>0, <4>1, <4>2, <4>3
    <3>3. Fits(p1, K)
      BY <2>0, <3>1 DEF Fits
    <3>4. CASE Set8 \/ Set2
      <4>1. SetWords(K)
        BY <3>1, <3>4, StrideCount, <2>0 DEF Set8, Set2
      <4>2. /\ mem' = [a \in Addr |->
                        IF p1 <= a /\ a < p1 + K
                        THEN IF (a - p1) % 2 = 0 THEN WordHi(call.c)
                             ELSE WordLo(call.c)
                        ELSE mem[a]]
            /\ p1' = p1 + K /\ n' = n - 1
            /\ pc' = IF n - 1 > 0 THEN pc ELSE "done"
        BY <3>3, <4>1 DEF SetWords
      <4>3. mem' = [a \in Addr |->
                      IF call.d + k <= a /\ a < call.d + k + K
                      THEN IF (a - (call.d + k)) % 2 = 0 THEN WordHi(call.c)
                           ELSE WordLo(call.c)
                      ELSE Fill(call, k, call.c)[a]]
        BY <3>1, <4>2
      <4>4. mem' = Fill(call, k + K, call.c)
        <5>1. K \in Nat /\ k \in Nat /\ call \in Call /\ SetCall(call)
          BY <2>0, <3>1
        <5>. QED
          BY <5>1, <4>3, FillWords, Zenon
      <4>. QED
        BY <1>1, <2>0, <3>1, <3>2, <4>2, <4>4 DEF SetLoop
    <3>5. CASE Set1
      <4>1. K = 1
        BY <3>1, <3>5, StrideCount, <2>0 DEF Set1
      <4>2. /\ mem' = [mem EXCEPT ![p1] = call.c % 256]
            /\ p1' = p1 + 1 /\ n' = n - 1
            /\ pc' = IF n - 1 > 0 THEN pc ELSE "done"
        BY <3>3, <3>5, <4>1 DEF Set1
      <4>3. mem' = [Fill(call, k, call.c) EXCEPT ![call.d + k] = call.c % 256]
            /\ call.d + k < Size
        BY <2>0, <3>1, <4>1, <4>2
      <4>4. mem' = Fill(call, k + 1, call.c)
        BY <2>0, <3>1, <4>3, FillByte
      <4>. QED
        BY <1>1, <2>0, <3>1, <3>2, <4>1, <4>2, <4>4 DEF SetLoop
    <3>. QED
      BY <2>1, <3>4, <3>5
  <2>2. CASE LoopExit
    BY <1>1, <2>2 DEF LoopExit, SetLoop
  <2>3. CASE Returned \/ UNCHANGED vars
    BY <1>1, <2>3 DEF Returned, SetLoop, vars
  <2>4. CASE Clear16 \/ Copy \/ Copy16 \/ Strlen
    <3>1. pc \in {"set8", "set2", "set1", "done"}
      BY <2>0, StrideCount DEF SetLoop
    <3>. QED
      BY <2>4, <3>1 DEF Clear16, Copy, Copy16, Strlen
  <2>. QED
    BY <2>1, <2>2, <2>3, <2>4 DEF Next
<1>. QED
  BY <1>2, <1>3

(* memset of bytes inside memory, with a fill value below 256, never      *)
(* faults, and on return the n bytes from s hold the value and nothing    *)
(* else has changed, whichever of its three loops n selects.  A fill      *)
(* value of 256 or more breaks it (run memset_wide_fill).                 *)
(* The call a behaviour makes is one of Calls, throughout.               *)
CallOfCalls == call \in Calls

LEMMA CallFixed == Spec => []CallOfCalls
<1>1. Init => CallOfCalls
  BY DEF Init, CallOfCalls
<1>2. CallOfCalls /\ [Next]_vars => CallOfCalls'
  BY DEF CallOfCalls, Next, Set8, Set2, SetWords, Set1, LoopExit, Clear16,
         Copy, Copy16, Strlen, Returned, Fault, vars
<1>. QED
  BY <1>1, <1>2, PTL DEF Spec

(* A filled prefix as long as the call is memset's reference result.      *)
LEMMA FillIsSetRef ==
  ASSUME NEW c \in Call, SetCall(c)
  PROVE  Fill(c, c.n, c.c) = SetRef(c)
<1>1. c.c % 256 = c.c
  BY DEF SetCall, Call
<1>2. \A a \in Addr : Fill(c, c.n, c.c)[a] = SetRef(c)[a]
  BY <1>1 DEF Fill, SetRef
<1>. QED
  BY <1>2, Zenon DEF Fill, SetRef

(* memset of bytes inside memory, with a fill value below 256, never      *)
(* faults, and on return the n bytes from s hold the value and nothing    *)
(* else has changed, whichever of its three loops n selects.  A fill      *)
(* value of 256 or more breaks it (run memset_wide_fill).                 *)
THEOREM MemsetCorrect ==
  ASSUME \A c \in Calls : c.op = "memset" => c.c < 256
  PROVE  Spec => []MemsetFills
<1>1. CallOfCalls /\ SetLoop => MemsetFills
  <2> SUFFICES ASSUME call \in Calls, SetLoop, call.op = "memset",
                      InRange(call)
               PROVE  pc # "fault" /\ (pc = "done" => mem = SetRef(call))
    BY DEF MemsetFills, CallOfCalls
  <2>1. SetCall(call) /\ call \in Call
    BY DEF SetCall, SetLoop
  <2>2. pc \in {MemsetLoop(call), "done"} /\ MemsetLoop(call) # "fault"
    BY <2>1, StrideCount DEF SetLoop
  <2>3. ASSUME pc = "done" PROVE mem = SetRef(call)
    <3>1. n = 0 /\ mem = Fill(call, Stride(call) * MemsetCount(call), call.c)
      BY <2>1, <2>3, StrideCount DEF SetLoop
    <3>2. mem = Fill(call, call.n, call.c)
      BY <2>1, <3>1, StrideCount
    <3>. QED
      BY <2>1, <3>2, FillIsSetRef
  <2>. QED
    BY <2>2, <2>3
<1>2. Spec => [](CallOfCalls /\ SetLoop)
  BY CallFixed, InitSetLoop, NextSetLoop, PTL DEF Spec
<1>. QED
  BY <1>1, <1>2, PTL

-----------------------------------------------------------------------------
(* __blockclear16 and __blockcopy16.                                       *)

(* A run of j bytes from d + k set to v extends a prefix filled with v.  *)
LEMMA FillRun ==
  ASSUME NEW c \in Call, NEW k \in Nat, NEW j \in Nat, NEW v
  PROVE  [a \in Addr |-> IF c.d + k <= a /\ a < c.d + k + j THEN v
                         ELSE Fill(c, k, v)[a]]
         = Fill(c, k + j, v)
<1>1. c.d \in Nat
  BY DEF Call
<1>2. \A a \in Addr :
        (IF c.d + k <= a /\ a < c.d + k + j THEN v ELSE Fill(c, k, v)[a])
        = Fill(c, k + j, v)[a]
  BY <1>1 DEF Fill, Addr
<1>. QED
  BY <1>2, Zenon DEF Fill

(* The i-th word copy of a turn that starts K bytes in extends the copied *)
(* prefix by two bytes; the source word has not been overwritten yet,    *)
(* because the regions are disjoint.                                      *)
LEMMA WordStep ==
  ASSUME NEW c \in Call, InRange(c), Disjoint(c), Size \in Nat,
         NEW K \in Nat, NEW i \in Nat, K + 2 * i + 2 <= c.n
  PROVE  WordCopy(Partial(c, K + 2 * i), c.d + K, c.s + K, i)
           = Partial(c, K + 2 * i + 2)
<1>1. c.d \in Nat /\ c.s \in Nat /\ c.n \in Nat
  BY DEF Call
<1>2. /\ c.d + c.n <= Size /\ c.s + c.n <= Size
      /\ c.d + c.n <= c.s \/ c.s + c.n <= c.d
  BY DEF InRange, Disjoint
<1>3. /\ c.d + K + 2 * i \in Addr /\ c.d + K + 2 * i + 1 \in Addr
      /\ c.s + K + 2 * i \in Addr /\ c.s + K + 2 * i + 1 \in Addr
  BY <1>1, <1>2 DEF Addr
<1> DEFINE j == K + 2 * i
           m == Partial(c, j)
<1>5. m[c.s + j] = Mem0(c)[c.s + j] /\ m[c.s + j + 1] = Mem0(c)[c.s + j + 1]
  BY <1>1, <1>2, <1>3 DEF Partial
<1>6. WordCopy(m, c.d + K, c.s + K, i)
        = [m EXCEPT ![c.d + j] = Mem0(c)[c.s + j],
                    ![c.d + j + 1] = Mem0(c)[c.s + j + 1]]
  BY <1>1, <1>5 DEF WordCopy
<1>4. \A a \in Addr :
        WordCopy(m, c.d + K, c.s + K, i)[a] = Partial(c, j + 2)[a]
  <2> SUFFICES ASSUME NEW a \in Addr
               PROVE  WordCopy(m, c.d + K, c.s + K, i)[a] = Partial(c, j + 2)[a]
    OBVIOUS
  <2>0. DOMAIN m = Addr
    BY DEF Partial
  <2>1. CASE a = c.d + j
    <3>1. WordCopy(m, c.d + K, c.s + K, i)[a] = Mem0(c)[c.s + j]
      BY <1>1, <1>3, <1>6, <2>0, <2>1
    <3>2. Partial(c, j + 2)[a] = Mem0(c)[c.s + j]
      BY <1>1, <2>1 DEF Partial
    <3>. QED
      BY <3>1, <3>2
  <2>2. CASE a = c.d + j + 1
    <3>1. WordCopy(m, c.d + K, c.s + K, i)[a] = Mem0(c)[c.s + j + 1]
      BY <1>1, <1>3, <1>6, <2>0, <2>2
    <3>2. Partial(c, j + 2)[a] = Mem0(c)[c.s + j + 1]
      BY <1>1, <2>2 DEF Partial
    <3>. QED
      BY <3>1, <3>2
  <2>3. CASE a # c.d + j /\ a # c.d + j + 1
    <3>1. WordCopy(m, c.d + K, c.s + K, i)[a] = m[a]
      BY <1>6, <2>0, <2>3
    <3>2. m[a] = Partial(c, j + 2)[a]
      BY <1>1, <2>3 DEF Partial, Addr
    <3>. QED
      BY <3>1, <3>2
  <2>. QED
    BY <2>1, <2>2, <2>3
<1>. QED
  BY <1>3, <1>4, Zenon DEF WordCopy, Partial

(* A whole turn of __blockcopy16 copies the next 16 bytes.                *)
LEMMA CopyTurn ==
  ASSUME NEW c \in Call, InRange(c), Disjoint(c), Size \in Nat,
         NEW K \in Nat, K + 16 <= c.n
  PROVE  WordCopies(Partial(c, K), c.d + K, c.s + K) = Partial(c, K + 16)
<1> DEFINE Q(i) == Partial(c, K + 2 * i)
<1>1. \A i \in 0..7 : WordCopy(Q(i), c.d + K, c.s + K, i) = Q(i + 1)
  <2> SUFFICES ASSUME NEW i \in 0..7
               PROVE  WordCopy(Q(i), c.d + K, c.s + K, i) = Q(i + 1)
    OBVIOUS
  <2>1. K + 2 * i + 2 <= c.n /\ i \in Nat /\ K + 2 * (i + 1) = K + 2 * i + 2
    BY DEF Call
  <2>. QED
    BY <2>1, WordStep
<1>2. Q(0) = Partial(c, K) /\ Q(8) = Partial(c, K + 16)
  OBVIOUS
<1>. QED
  BY <1>1, <1>2 DEF WordCopies

(* The unsigned long n -= 16 of a count of at least 16.                  *)
LEMMA ULongSub ==
  ASSUME NEW x \in Nat, x >= 16, x < ULong
  PROVE  (x + ULong - 16) % ULong = x - 16
BY ULongAssumption

(* A block call the code defines: a nonzero multiple of 16 bytes inside   *)
(* memory, and for a copy regions that do not overlap.                   *)
BlockCall(c) ==
  /\ c.op \in {"blockclear16", "blockcopy16"} /\ InRange(c)
  /\ c.n > 0 /\ c.n % 16 = 0
  /\ c.op = "blockcopy16" => Disjoint(c)

BlockPc(c) == IF c.op = "blockclear16" THEN "clear16" ELSE "copy16"

(* The loop invariant: call.n - n bytes, a multiple of 16, are cleared or *)
(* copied, and the do-while runs while n is not 0.                       *)
BlockLoop ==
  /\ call \in Call
  /\ BlockCall(call) =>
       /\ pc \in {BlockPc(call), "done"}
       /\ n \in 0..call.n /\ n % 16 = 0
       /\ pc = BlockPc(call) => n > 0
       /\ pc = "done" => n = 0
       /\ p1 = call.d + (call.n - n)
       /\ call.op = "blockcopy16" => p2 = call.s + (call.n - n)
       /\ mem = IF call.op = "blockcopy16" THEN Partial(call, call.n - n)
                ELSE Fill(call, call.n - n, 0)

LEMMA InitBlockLoop == Init => BlockLoop
<1> SUFFICES ASSUME NEW c \in Calls, call = c, mem = Mem0(c), len = 0,
                    c.op = "blockclear16" => p1 = c.d /\ n = c.n /\ pc = "clear16",
                    c.op = "blockcopy16" =>
                      p1 = c.d /\ p2 = c.s /\ n = c.n /\ pc = "copy16"
             PROVE  BlockLoop
  BY DEF Init
<1>1. c \in Call /\ c.d \in Nat /\ c.n \in Nat
  BY CallsAssumption DEF Call
<1>2. Partial(c, 0) = Mem0(c) /\ Fill(c, 0, 0) = Mem0(c)
  <2>1. \A a \in Addr : Partial(c, 0)[a] = Mem0(c)[a] /\ Fill(c, 0, 0)[a] = Mem0(c)[a]
    BY <1>1 DEF Partial, Fill, Addr
  <2>. QED
    BY <2>1, Zenon DEF Partial, Fill, Mem0
<1>3. CASE BlockCall(c)
  <2>1. c.n - c.n = 0 /\ c.n \in 0..c.n /\ c.n > 0 /\ c.n % 16 = 0
    BY <1>1, <1>3 DEF BlockCall
  <2>2. pc = BlockPc(c) /\ p1 = c.d /\ n = c.n
        /\ (c.op = "blockcopy16" => p2 = c.s)
    BY <1>3 DEF BlockCall, BlockPc
  <2>3. mem = IF c.op = "blockcopy16" THEN Partial(c, c.n - n) ELSE Fill(c, c.n - n, 0)
    BY <1>2, <2>1, <2>2
  <2>4. /\ BlockPc(c) # "done" /\ p1 = c.d + (c.n - n)
        /\ (c.op = "blockcopy16" => p2 = c.s + (c.n - n))
    BY <1>1, <2>1, <2>2 DEF BlockPc, Call
  <2>. QED
    BY <1>1, <1>3, <2>1, <2>2, <2>3, <2>4 DEF BlockLoop
<1>. QED
  BY <1>1, <1>3 DEF BlockLoop

LEMMA NextBlockLoop == BlockLoop /\ [Next]_vars => BlockLoop'
<1> SUFFICES ASSUME BlockLoop, [Next]_vars PROVE BlockLoop'
  OBVIOUS
<1>1. call' = call
  BY DEF Next, Set8, Set2, SetWords, Set1, LoopExit, Clear16, Copy, Copy16,
         Strlen, Returned, Fault, vars
<1>2. CASE ~BlockCall(call)
  BY <1>1, <1>2 DEF BlockLoop
<1>3. CASE BlockCall(call)
  <2> USE <1>3
  <2> DEFINE k == call.n - n
  <2>0. /\ call \in Call /\ Size \in Nat /\ ULong \in Nat /\ Size < ULong
        /\ call.d \in Nat /\ call.s \in Nat /\ call.n \in Nat
        /\ call.d + call.n <= Size /\ call.s + call.n <= Size
    BY CallsAssumption, ULongAssumption DEF BlockLoop, BlockCall, InRange, Call
  <2>1. CASE Clear16 \/ Copy16
    <3>1. /\ pc = BlockPc(call) /\ n \in 16..call.n /\ n % 16 = 0
          /\ k \in Nat /\ k + 16 <= call.n /\ p1 = call.d + k
      BY <2>0, <2>1 DEF Clear16, Copy16, BlockLoop
    <3>2. (n + ULong - 16) % ULong = n - 16 /\ (n - 16) % 16 = 0
          /\ call.n - (n - 16) = k + 16
      <4>1. n \in Nat /\ n >= 16 /\ n < ULong
        BY <2>0, <3>1
      <4>2. (n + ULong - 16) % ULong = n - 16
        BY <4>1, ULongSub
      <4>. QED
        BY <2>0, <3>1, <4>2
    <3>3. Fits(p1, 16)
      BY <2>0, <3>1 DEF Fits
    <3>4. CASE Clear16
      <4>1. call.op = "blockclear16"
        BY <3>1, <3>4 DEF Clear16, BlockPc
      <4>2. /\ mem' = [a \in Addr |-> IF p1 <= a /\ a < p1 + 16 THEN 0 ELSE mem[a]]
            /\ p1' = p1 + 16 /\ n' = n - 16 /\ p2' = p2
            /\ pc' = IF n - 16 > 0 THEN pc ELSE "done"
        BY <3>2, <3>3, <3>4 DEF Clear16
      <4>3. mem = Fill(call, k, 0)
        BY <4>1 DEF BlockLoop
      <4>4. mem' = [a \in Addr |-> IF call.d + k <= a /\ a < call.d + k + 16 THEN 0
                                   ELSE Fill(call, k, 0)[a]]
        BY <3>1, <4>2, <4>3
      <4>5. mem' = Fill(call, k + 16, 0)
        <5>1. call \in Call /\ k \in Nat
          BY <2>0, <3>1
        <5>. HIDE DEF k
        <5>2. [a \in Addr |-> IF call.d + k <= a /\ a < call.d + k + 16 THEN 0
                             ELSE Fill(call, k, 0)[a]]
              = Fill(call, k + 16, 0)
          BY <5>1, FillRun
        <5>. QED
          BY <4>4, <5>2
      <4>6. /\ pc' \in {BlockPc(call'), "done"}
            /\ n' \in 0..call'.n /\ n' % 16 = 0
            /\ pc' = BlockPc(call') => n' > 0
            /\ pc' = "done" => n' = 0
            /\ p1' = call'.d + (call'.n - n')
        BY <1>1, <2>0, <3>1, <3>2, <4>2 DEF BlockPc
      <4>7. mem' = Fill(call', call'.n - n', 0)
        BY <1>1, <3>2, <4>2, <4>5
      <4>. QED
        BY <1>1, <2>0, <4>1, <4>6, <4>7 DEF BlockLoop
    <3>5. CASE Copy16
      <4>1. call.op = "blockcopy16" /\ Disjoint(call) /\ InRange(call)
        BY <3>1, <3>5 DEF Copy16, BlockPc, BlockCall
      <4>2. p2 = call.s + k /\ mem = Partial(call, k)
        BY <4>1 DEF BlockLoop
      <4>3. Fits(p2, 16)
        BY <2>0, <3>1, <4>2 DEF Fits
      <4>4. /\ mem' = WordCopies(mem, p1, p2)
            /\ p1' = p1 + 16 /\ p2' = p2 + 16 /\ n' = n - 16
            /\ pc' = IF n - 16 > 0 THEN pc ELSE "done"
        BY <3>2, <3>3, <3>5, <4>3 DEF Copy16
      <4>5. mem' = Partial(call, k + 16)
        BY <2>0, <3>1, <4>1, <4>2, <4>4, CopyTurn
      <4>6. /\ pc' \in {BlockPc(call'), "done"}
            /\ n' \in 0..call'.n /\ n' % 16 = 0
            /\ pc' = BlockPc(call') => n' > 0
            /\ pc' = "done" => n' = 0
            /\ p1' = call'.d + (call'.n - n')
            /\ p2' = call'.s + (call'.n - n')
        BY <1>1, <2>0, <3>1, <3>2, <4>2, <4>4 DEF BlockPc
      <4>7. mem' = Partial(call', call'.n - n')
        BY <1>1, <3>2, <4>4, <4>5
      <4>. QED
        BY <1>1, <2>0, <4>1, <4>6, <4>7 DEF BlockLoop
    <3>. QED
      BY <2>1, <3>4, <3>5
  <2>2. CASE Returned \/ UNCHANGED vars
    BY <1>1, <2>2 DEF Returned, BlockLoop, vars
  <2>3. CASE Set8 \/ Set2 \/ Set1 \/ LoopExit \/ Copy \/ Strlen
    <3>1. pc \in {"clear16", "copy16", "done"}
      BY DEF BlockLoop, BlockPc
    <3>. QED
      BY <2>3, <3>1 DEF Set8, Set2, Set1, LoopExit, Copy, Strlen
  <2>. QED
    BY <2>1, <2>2, <2>3 DEF Next
<1>. QED
  BY <1>2, <1>3

(* __blockclear16 and __blockcopy16 given a nonzero multiple of 16 bytes  *)
(* inside memory (for a copy, regions that do not overlap) never fault,   *)
(* and on return exactly those bytes are cleared or copied: the           *)
(* do-while's unsigned n -= 16 reaches 0 on the last block.              *)
THEOREM BlockOpsCorrect == Spec => []BlockOpsExact
<1>1. BlockLoop => BlockOpsExact
  <2> SUFFICES ASSUME BlockLoop, BlockCall(call)
               PROVE  pc # "fault" /\
                      (pc = "done" =>
                         mem = IF call.op = "blockcopy16" THEN CopyRef(call)
                               ELSE ClearRef(call))
    BY DEF BlockOpsExact, BlockCall
  <2>1. call \in Call /\ pc \in {BlockPc(call), "done"} /\ BlockPc(call) # "fault"
    BY DEF BlockLoop, BlockPc
  <2>2. Partial(call, call.n) = CopyRef(call) /\ Fill(call, call.n, 0) = ClearRef(call)
    <3>1. \A a \in Addr : /\ Partial(call, call.n)[a] = CopyRef(call)[a]
                          /\ Fill(call, call.n, 0)[a] = ClearRef(call)[a]
      BY DEF Partial, CopyRef, Fill, ClearRef
    <3>. QED
      BY <3>1, Zenon DEF Partial, CopyRef, Fill, ClearRef
  <2>3. ASSUME pc = "done"
        PROVE  mem = IF call.op = "blockcopy16" THEN CopyRef(call) ELSE ClearRef(call)
    <3>1. n = 0 /\ call.n - 0 = call.n
      BY <2>1, <2>3 DEF BlockLoop, Call
    <3>. QED
      BY <2>2, <3>1 DEF BlockLoop
  <2>. QED
    BY <2>1, <2>3
<1>. QED
  BY <1>1, InitBlockLoop, NextBlockLoop, PTL DEF Spec

=============================================================================
