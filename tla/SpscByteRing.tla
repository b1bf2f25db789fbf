---------------------------- MODULE SpscByteRing ----------------------------
(***************************************************************************)
(* SPSCByteRing<N> (src/include/spsc_byte_ring.h): the byte ring between   *)
(* the matching thread (producer) and the Send thread (consumer).          *)
(*                                                                         *)
(* push reads head, copies the bytes in one or two chunks and then         *)
(* publishes tail; the consumer takes a contiguous span, uses it in place  *)
(* (a zero-copy send reads it from the kernel) and then releases it.  Each *)
(* load, chunk and store is a step.  pop is an acquire, a copy and a       *)
(* release, at most twice.                                                 *)
(*                                                                         *)
(* The ring never looks at the bytes, so the k-th byte ever pushed is      *)
(* represented by its number k.  Counters are naturals: 2^64 bytes are     *)
(* never sent in the life of a process.                                    *)
(***************************************************************************)
EXTENDS Integers

CONSTANTS
  N,         \* the capacity, a power of two: pos = tail & (N - 1) = tail % N
  Lens,      \* the lengths that push and read_acquire are called with
  MaxBytes   \* bound on the bytes ever pushed

ASSUME RingAssumption ==
  /\ N \in Nat \ {0}
  /\ Lens \subseteq Nat
  /\ MaxBytes \in Nat

VARIABLES
  head,   \* head_: bytes released by the consumer
  tail,   \* tail_: bytes published by the producer
  buf,    \* buf_
  prod,   \* the producer inside push: program counter and `actual`
  cons    \* the span the consumer holds: its length, 0 when it holds none

ring_vars == <<head, tail, buf, prod, cons>>

LeastOf(a, b) == IF a < b THEN a ELSE b

\* counter & mask
Pos(counter) == counter % N

\* Fault: off by one.
FreeSpace_plusOne == N - (tail - head) + 1

\* What free_space() returns.
FreeSpace == N - (tail - head)

-----------------------------------------------------------------------------
(* Producer.                                                               *)

\* push(data, len) up to its computation of `actual`.  With no room or
\* nothing to write it returns 0 at once.
pushBegin(len) ==
  /\ prod.pc = "idle"
  /\ tail + len <= MaxBytes
  /\ prod' = IF FreeSpace = 0 \/ len = 0 THEN prod
             ELSE [pc |-> "chunk1", actual |-> LeastOf(len, FreeSpace)]
  /\ UNCHANGED <<head, tail, buf, cons>>

\* Fault: no wrap-around.
FirstChunk_whole == prod.actual

FirstChunk == LeastOf(N - Pos(tail), prod.actual)

\* memcpy(buf_ + pos, data, n1)
pushChunk1 ==
  /\ prod.pc = "chunk1"
  /\ buf' = [p \in 0 .. N - 1 |->
               IF p >= Pos(tail) /\ p < Pos(tail) + FirstChunk
               THEN tail + (p - Pos(tail)) ELSE buf[p]]
  /\ prod' = [prod EXCEPT !.pc = "chunk2"]
  /\ UNCHANGED <<head, tail, cons>>

\* memcpy(buf_, data + n1, n2)
pushChunk2 ==
  /\ prod.pc = "chunk2"
  /\ buf' = [p \in 0 .. N - 1 |->
               IF p < prod.actual - FirstChunk
               THEN tail + FirstChunk + p ELSE buf[p]]
  /\ prod' = [prod EXCEPT !.pc = "publish"]
  /\ UNCHANGED <<head, tail, cons>>

\* tail_.store(tail + actual, release)
pushPublish ==
  /\ prod.pc = "publish"
  /\ tail' = tail + prod.actual
  /\ prod' = [pc |-> "idle", actual |-> 0]
  /\ UNCHANGED <<head, buf, cons>>

-----------------------------------------------------------------------------
(* Consumer.                                                               *)

\* Takes what is there up to the end of the buffer; 0 when there is nothing.
read_acquire(request) ==
  /\ cons = 0
  /\ cons' = LeastOf(LeastOf(request, tail - head), N - Pos(head))
  /\ UNCHANGED <<head, tail, buf, prod>>

\* Fault: head is not stored.
read_release_lost(bytes) ==
  /\ cons # 0
  /\ cons' = 0
  /\ UNCHANGED <<head, tail, buf, prod>>

\* The caller releases what it used of its span: all of it, or the part that
\* a short send accepted.
read_release(bytes) ==
  /\ cons # 0
  /\ head' = head + bytes
  /\ cons' = 0
  /\ UNCHANGED <<tail, buf, prod>>

-----------------------------------------------------------------------------
RingInit ==
  /\ head = 0 /\ tail = 0
  /\ buf = [p \in 0 .. N - 1 |-> 0]
  /\ prod = [pc |-> "idle", actual |-> 0]
  /\ cons = 0

Producer == (\E len \in Lens : pushBegin(len))
              \/ pushChunk1 \/ pushChunk2 \/ pushPublish

Consumer == (\E request \in Lens : read_acquire(request))
              \/ (\E bytes \in 1 .. cons : read_release(bytes))

RingNext == Producer \/ Consumer

RingSpec == RingInit /\ [][RingNext]_ring_vars

\* The Send thread polls the ring for ever.
RingFairSpec == RingSpec /\ WF_ring_vars(Consumer)

-----------------------------------------------------------------------------
(* Properties.                                                             *)

\* The counters are naturals, and the producer is in a known step of push.
RingTypeOK ==
  /\ head \in Nat /\ tail \in Nat /\ cons \in Nat
  /\ buf \in [0 .. N - 1 -> Nat]
  /\ prod \in [pc : {"idle", "chunk1", "chunk2", "publish"}, actual : Nat]

\* The bytes of the span that the consumer holds are the next bytes of the
\* stream in order, for as long as it holds them, whatever the producer writes
\* meanwhile: nothing is overwritten, skipped, repeated or read too early.
SpanIsNextBytes ==
  \A i \in 0 .. cons - 1 : Pos(head) + i < N /\ buf[Pos(head) + i] = head + i

\* The ring never holds more than N bytes, and a push in progress has room for
\* all of them although it uses the head it read at its start.
NeverOverfull ==
  /\ 0 <= tail - head /\ cons <= tail - head
  /\ tail + prod.actual - head <= N

\* Every published byte is released, if the Send thread keeps running.
EveryByteConsumed ==
  \A k \in 1 .. MaxBytes : tail >= k ~> head >= k

=============================================================================
