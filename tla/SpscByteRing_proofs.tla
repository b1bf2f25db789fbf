------------------------ MODULE SpscByteRing_proofs -------------------------
(***************************************************************************)
(* The ring is correct for every capacity, every sequence of lengths and   *)
(* every interleaving of producer and consumer.                            *)
(***************************************************************************)
EXTENDS SpscByteRing, TLAPS

-----------------------------------------------------------------------------
(* Arithmetic of positions.                                                *)

\* A counter masked with N - 1 is a position of the buffer.
LEMMA PosRange ==
  ASSUME NEW a \in Nat
  PROVE  Pos(a) \in 0 .. N - 1
BY RingAssumption DEF Pos

\* Division with remainder.
LEMMA QuotientExists ==
  ASSUME NEW n \in Nat \ {0}, NEW a \in Nat
  PROVE  /\ a \div n \in Int /\ a % n \in 0 .. n - 1
         /\ a = n * (a \div n) + (a % n)
OBVIOUS

\* Two remainders of one number are equal.
LEMMA RemainderUnique ==
  ASSUME NEW n \in Nat \ {0}, NEW q \in Int, NEW p \in Int,
         NEW r \in 0 .. n - 1, NEW s \in 0 .. n - 1,
         n * q + r = n * p + s
  PROVE  r = s
<1>1. n * (q - p) = s - r
  OBVIOUS
<1>2. q - p \in Int
  OBVIOUS
<1>3. ASSUME q - p >= 1 PROVE FALSE
  <2>1. n * (q - p) >= n
    BY <1>3, <1>2
  <2> QED BY <2>1, <1>1
<1>4. ASSUME q - p <= -1 PROVE FALSE
  <2>1. n * (q - p) <= -n
    BY <1>4, <1>2
  <2> QED BY <2>1, <1>1
<1>5. q - p = 0
  BY <1>2, <1>3, <1>4
<1> QED BY <1>1, <1>5

\* A number n * q + r with 0 <= r < n leaves remainder r.
LEMMA RemainderIs ==
  ASSUME NEW n \in Nat \ {0}, NEW a \in Nat, NEW q \in Int, NEW r \in 0 .. n - 1,
         a = n * q + r
  PROVE  a % n = r
BY QuotientExists, RemainderUnique

\* Positions advance with the counter until the end of the buffer.
LEMMA PosShift ==
  ASSUME NEW a \in Nat, NEW i \in Nat, Pos(a) + i < N
  PROVE  Pos(a + i) = Pos(a) + i
<1>1. a = N * (a \div N) + Pos(a) /\ a \div N \in Int /\ Pos(a) \in 0 .. N - 1
  BY RingAssumption, QuotientExists DEF Pos
<1>2. a + i = N * (a \div N) + (Pos(a) + i) /\ Pos(a) + i \in 0 .. N - 1
  BY <1>1, RingAssumption
<1> QED
  BY <1>1, <1>2, RingAssumption, RemainderIs DEF Pos

\* Past the end of the buffer they continue from its start.
LEMMA PosWrap ==
  ASSUME NEW a \in Nat, NEW i \in Nat, N <= Pos(a) + i, i <= N
  PROVE  Pos(a + i) = Pos(a) + i - N
<1>1. a = N * (a \div N) + Pos(a) /\ a \div N \in Int /\ Pos(a) \in 0 .. N - 1
  BY RingAssumption, QuotientExists DEF Pos
<1>2. Pos(a) + i - N \in 0 .. N - 1
  BY <1>1, RingAssumption
<1>3. a + i = N * ((a \div N) + 1) + (Pos(a) + i - N)
  BY <1>1, RingAssumption
<1>4. (a \div N) + 1 \in Int /\ a + i \in Nat
  BY <1>1
<1>5. (a + i) % N = Pos(a) + i - N
  BY Zenon, <1>2, <1>3, <1>4, RingAssumption, RemainderIs
<1> QED
  BY <1>5 DEF Pos

\* Counters less than N apart have different positions.
LEMMA PosDistinct ==
  ASSUME NEW a \in Nat, NEW b \in Nat, a < b, b < a + N
  PROVE  Pos(a) # Pos(b)
<1>1. b - a \in Nat /\ a + (b - a) = b /\ b - a <= N
  BY RingAssumption
<1>2. CASE Pos(a) + (b - a) < N
  BY <1>1, <1>2, PosShift, PosRange
<1>3. CASE N <= Pos(a) + (b - a)
  BY <1>1, <1>3, PosWrap, PosRange, RingAssumption
<1> QED
  BY <1>1, <1>2, <1>3, PosRange, RingAssumption

-----------------------------------------------------------------------------
(* The inductive invariant.                                                *)

\* The buffer holds byte k at its position.
Holds(k) == buf[Pos(k)] = k

\* Every byte that is published and not released is in the buffer, and so are
\* the bytes that the push in progress has copied; the consumer's span does
\* not reach past the end of the buffer.
RingInv ==
  /\ RingTypeOK
  /\ NeverOverfull
  /\ cons <= N - Pos(head)
  /\ \A k \in Nat : head <= k /\ k < tail => Holds(k)
  /\ prod.pc = "idle" => prod.actual = 0
  /\ prod.pc = "chunk2" =>
       \A k \in Nat : tail <= k /\ k < tail + FirstChunk => Holds(k)
  /\ prod.pc = "publish" =>
       \A k \in Nat : tail <= k /\ k < tail + prod.actual => Holds(k)

\* The invariant holds when both counters are 0.
LEMMA InitRingInv == RingInit => RingInv
BY RingAssumption, PosRange DEF RingInit, RingInv, RingTypeOK, NeverOverfull, Holds

\* The step of push that computes `actual` leaves room for all of it.
LEMMA PushBeginRingInv ==
  ASSUME RingInv, NEW len \in Lens, pushBegin(len)
  PROVE  RingInv'
BY RingAssumption
DEF RingInv, RingTypeOK, NeverOverfull, Holds, pushBegin, FreeSpace, LeastOf,
    FirstChunk, Pos

\* The consumer's two steps change neither the buffer nor the tail.
LEMMA ConsumerRingInv ==
  ASSUME RingInv, Consumer
  PROVE  RingInv'
<1>1. ASSUME NEW request \in Lens, read_acquire(request)
      PROVE  RingInv'
  <2>1. head \in Nat /\ Pos(head) \in 0 .. N - 1
    BY PosRange DEF RingInv, RingTypeOK
  <2>2. /\ tail \in Nat /\ head <= tail /\ request \in Nat
    BY <1>1, RingAssumption DEF RingInv, RingTypeOK, NeverOverfull
  <2>3. /\ cons' \in Nat /\ cons' <= tail - head /\ cons' <= N - Pos(head)
        /\ UNCHANGED <<head, tail, buf, prod>>
    BY <1>1, <2>1, <2>2, RingAssumption DEF read_acquire, LeastOf
  <2>4. RingTypeOK' /\ NeverOverfull'
    BY <2>3 DEF RingInv, RingTypeOK, NeverOverfull
  <2> QED
    BY <2>3, <2>4 DEF RingInv, Holds, FirstChunk, Pos, LeastOf
<1>2. ASSUME NEW bytes \in 1 .. cons, read_release(bytes)
      PROVE  RingInv'
  <2>1. head' \in Nat /\ head' = head + bytes
    BY <1>2 DEF RingInv, RingTypeOK, read_release
  <2>2. head' % N \in 0 .. N - 1
    BY <2>1, PosRange DEF Pos
  <2>3. /\ UNCHANGED <<tail, buf, prod>> /\ cons' = 0 /\ bytes \in Nat
        /\ tail \in Nat /\ head \in Nat /\ head' <= tail /\ head <= head'
        /\ prod.actual \in Nat /\ tail + prod.actual - head <= N
    BY <1>2, <2>1 DEF RingInv, RingTypeOK, NeverOverfull, read_release
  <2>4. RingTypeOK' /\ NeverOverfull' /\ cons' <= N - (head' % N)
    <3>1. RingTypeOK'
      BY <2>1, <2>3 DEF RingInv, RingTypeOK
    <3>2. NeverOverfull'
      BY <2>1, <2>3, RingAssumption DEF NeverOverfull
    <3>3. cons' <= N - (head' % N)
      BY <2>2, <2>3, RingAssumption
    <3> QED BY <3>1, <3>2, <3>3
  <2>5. \A k \in Nat : head' <= k /\ k < tail' => buf'[k % N] = k
    BY <2>1, <2>3 DEF RingInv, Holds, Pos
  <2> QED
    BY <2>3, <2>4, <2>5 DEF RingInv, Holds, LeastOf, FirstChunk, Pos
<1> QED BY <1>1, <1>2 DEF Consumer

\* The first memcpy puts bytes tail, tail + 1, ... at their positions and
\* touches no position of an unread byte.
LEMMA Chunk1RingInv ==
  ASSUME RingInv, pushChunk1
  PROVE  RingInv'
<1> USE RingAssumption
<1>t. tail \in Nat /\ head \in Nat /\ prod.actual \in Nat
  BY DEF RingInv, RingTypeOK
<1>p. Pos(tail) \in 0 .. N - 1
  BY <1>t, PosRange
<1>1. /\ tail \in Nat /\ head \in Nat /\ prod.actual \in Nat
      /\ Pos(tail) \in 0 .. N - 1 /\ FirstChunk \in Nat
      /\ FirstChunk <= prod.actual /\ Pos(tail) + FirstChunk <= N
  BY <1>t, <1>p DEF FirstChunk, LeastOf
<1>2. /\ UNCHANGED <<head, tail, cons>> /\ prod'.actual = prod.actual
      /\ prod'.pc = "chunk2" /\ FirstChunk' = FirstChunk
  BY DEF pushChunk1, RingInv, RingTypeOK, FirstChunk, LeastOf, Pos
<1>3. RingTypeOK'
  <2>1. buf' \in [0 .. N - 1 -> Nat]
    BY <1>1 DEF RingInv, RingTypeOK, pushChunk1
  <2> QED
    BY <2>1 DEF RingInv, RingTypeOK, pushChunk1
<1>4. ASSUME NEW k \in Nat, tail <= k, k < tail + FirstChunk
      PROVE  buf'[Pos(k)] = k
  <2>1. k - tail \in Nat /\ tail + (k - tail) = k /\ Pos(tail) + (k - tail) < N
    BY <1>1, <1>4
  <2>2. Pos(k) = Pos(tail) + (k - tail)
    BY <1>1, <2>1, PosShift
  <2>3. /\ Pos(k) \in 0 .. N - 1 /\ Pos(k) >= Pos(tail)
        /\ Pos(k) < Pos(tail) + FirstChunk /\ tail + (Pos(k) - Pos(tail)) = k
    BY <1>1, <1>4, <2>1, <2>2
  <2> QED
    BY <2>3 DEF pushChunk1
<1>5. ASSUME NEW k \in Nat, head <= k, k < tail
      PROVE  buf'[Pos(k)] = k
  <2>1. Pos(k) \in 0 .. N - 1 /\ buf[Pos(k)] = k
    BY <1>5, PosRange DEF RingInv, Holds
  <2>2. ASSUME Pos(k) >= Pos(tail), Pos(k) < Pos(tail) + FirstChunk
        PROVE  FALSE
    <3> DEFINE i == Pos(k) - Pos(tail)
    <3>1. i \in Nat /\ Pos(k) = Pos(tail) + i /\ i < FirstChunk
      BY <1>1, <2>1, <2>2
    <3> HIDE DEF i
    <3>2. Pos(tail + i) = Pos(k)
      BY <1>1, <2>1, <3>1, PosShift
    <3>3. k < tail + i /\ tail + i < k + N
      BY <1>1, <1>5, <3>1 DEF RingInv, NeverOverfull
    <3> QED
      BY <1>1, <3>1, <3>2, <3>3, PosDistinct
  <2> QED
    BY <2>1, <2>2 DEF pushChunk1
<1> QED
  BY <1>1, <1>2, <1>3, <1>4, <1>5 DEF RingInv, NeverOverfull, Holds, Pos

\* The second memcpy does the same from the start of the buffer.
LEMMA Chunk2RingInv ==
  ASSUME RingInv, pushChunk2
  PROVE  RingInv'
<1> USE RingAssumption
<1> DEFINE n2 == prod.actual - FirstChunk
<1>1. /\ tail \in Nat /\ head \in Nat /\ prod.actual \in Nat
      /\ Pos(tail) \in 0 .. N - 1 /\ FirstChunk \in Nat /\ n2 \in Nat
      /\ n2 # 0 => Pos(tail) + FirstChunk = N
      /\ prod.actual <= N /\ tail + prod.actual - head <= N
  <2>1. /\ tail \in Nat /\ head \in Nat /\ prod.actual \in Nat
        /\ head <= tail /\ tail + prod.actual - head <= N
    BY DEF RingInv, RingTypeOK, NeverOverfull
  <2>2. Pos(tail) \in 0 .. N - 1
    BY <2>1, PosRange
  <2> QED
    BY <2>1, <2>2 DEF FirstChunk, LeastOf
<1>2. /\ UNCHANGED <<head, tail, cons>> /\ prod'.actual = prod.actual
      /\ prod'.pc = "publish"
  BY DEF pushChunk2, RingInv, RingTypeOK
<1>3. RingTypeOK'
  <2>1. buf' \in [0 .. N - 1 -> Nat]
    <3>1. ASSUME NEW p \in 0 .. N - 1, p < n2
          PROVE  tail + FirstChunk + p \in Nat
      BY <1>1
    <3>2. buf \in [0 .. N - 1 -> Nat]
      BY DEF RingInv, RingTypeOK
    <3> HIDE DEF n2
    <3>3. buf' = [p \in 0 .. N - 1 |-> IF p < n2 THEN tail + FirstChunk + p ELSE buf[p]]
      BY DEF pushChunk2, n2
    <3> QED
      BY <3>1, <3>2, <3>3
  <2> QED
    BY <2>1 DEF RingInv, RingTypeOK, pushChunk2
<1>a. ASSUME NEW p \in 0 .. N - 1, p < n2
      PROVE  Pos(tail + (FirstChunk + p)) = p /\ FirstChunk + p < prod.actual
  <2>1. /\ FirstChunk + p \in Nat /\ N <= Pos(tail) + (FirstChunk + p)
        /\ FirstChunk + p <= N /\ Pos(tail) + FirstChunk = N
        /\ FirstChunk + p < prod.actual
    BY <1>1, <1>a
  <2>2. Pos(tail + (FirstChunk + p)) = Pos(tail) + (FirstChunk + p) - N
    BY <1>1, <2>1, PosWrap
  <2> QED
    BY <1>1, <2>1, <2>2
<1>4. ASSUME NEW k \in Nat, tail <= k, k < tail + prod.actual
      PROVE  buf'[Pos(k)] = k
  <2>1. CASE k < tail + FirstChunk
    <3>1. Pos(k) \in 0 .. N - 1 /\ buf[Pos(k)] = k
      BY <1>4, <2>1, PosRange DEF RingInv, Holds, pushChunk2
    <3>2. ~(Pos(k) < n2)
      <4>1. SUFFICES ASSUME Pos(k) < n2 PROVE FALSE
        OBVIOUS
      <4>2. Pos(tail + (FirstChunk + Pos(k))) = Pos(k)
        BY <1>a, <3>1, <4>1
      <4>3. /\ k < tail + (FirstChunk + Pos(k))
            /\ tail + (FirstChunk + Pos(k)) < k + N
            /\ tail + (FirstChunk + Pos(k)) \in Nat
        BY <1>1, <1>4, <2>1, <3>1, <4>1
      <4> QED
        BY <4>2, <4>3, PosDistinct
    <3> QED
      BY <3>1, <3>2 DEF pushChunk2
  <2>2. CASE k >= tail + FirstChunk
    <3>1. PICK p \in Nat : k = tail + (FirstChunk + p) /\ p < n2 /\ p < N
      BY <1>1, <1>4, <2>2
    <3>2. Pos(k) = p /\ p \in 0 .. N - 1
      BY <1>a, <3>1
    <3> QED
      BY <1>1, <3>1, <3>2 DEF pushChunk2
  <2> QED
    BY <1>1, <2>1, <2>2
<1>5. ASSUME NEW k \in Nat, head <= k, k < tail
      PROVE  buf'[Pos(k)] = k
  <2>1. Pos(k) \in 0 .. N - 1 /\ buf[Pos(k)] = k
    BY <1>5, PosRange DEF RingInv, Holds
  <2>2. ASSUME Pos(k) < n2
        PROVE  FALSE
    <3>1. /\ Pos(tail + (FirstChunk + Pos(k))) = Pos(k)
          /\ FirstChunk + Pos(k) < prod.actual
      BY <1>a, <2>1, <2>2
    <3>2. /\ k < tail + (FirstChunk + Pos(k))
          /\ tail + (FirstChunk + Pos(k)) < k + N
          /\ tail + (FirstChunk + Pos(k)) \in Nat
      BY <1>1, <1>5, <2>1, <3>1
    <3> QED
      BY <3>1, <3>2, PosDistinct
  <2> QED
    BY <2>1, <2>2 DEF pushChunk2
<1> QED
  BY <1>1, <1>2, <1>3, <1>4, <1>5 DEF RingInv, NeverOverfull, Holds, Pos

\* Publishing makes the copied bytes unread bytes.
LEMMA PublishRingInv ==
  ASSUME RingInv, pushPublish
  PROVE  RingInv'
<1>1. /\ tail \in Nat /\ head \in Nat /\ prod.actual \in Nat /\ cons \in Nat
      /\ cons <= tail - head /\ tail + prod.actual - head <= N /\ head <= tail
  BY DEF RingInv, RingTypeOK, NeverOverfull
<1>2. /\ tail' = tail + prod.actual /\ prod' = [pc |-> "idle", actual |-> 0]
      /\ UNCHANGED <<head, buf, cons>>
  BY DEF pushPublish
<1>3. RingTypeOK' /\ NeverOverfull'
  <2>1. buf' \in [0 .. N - 1 -> Nat]
    BY <1>2 DEF RingInv, RingTypeOK
  <2>2. /\ tail' \in Nat /\ head' \in Nat /\ cons' \in Nat
        /\ prod'.actual = 0 /\ 0 <= tail' - head' /\ cons' <= tail' - head'
        /\ tail' + 0 - head' <= N
    BY <1>1, <1>2, RingAssumption
  <2>3. prod' \in [pc : {"idle", "chunk1", "chunk2", "publish"}, actual : Nat]
    BY <1>2
  <2> QED
    BY Zenon, <1>2, <2>1, <2>2, <2>3 DEF RingTypeOK, NeverOverfull
<1>4. \A k \in Nat : head <= k /\ k < tail + prod.actual => buf[k % N] = k
  BY <1>1 DEF RingInv, pushPublish, Holds, Pos
<1> QED
  BY <1>1, <1>2, <1>3, <1>4 DEF RingInv, Holds, Pos

\* RingInv is inductive and implies what the runs check.
THEOREM RingCorrect == RingSpec => [](RingTypeOK /\ NeverOverfull /\ SpanIsNextBytes)
<1>1. RingInv /\ [RingNext]_ring_vars => RingInv'
  <2> SUFFICES ASSUME RingInv, [RingNext]_ring_vars PROVE RingInv'
    OBVIOUS
  <2>1. ASSUME NEW len \in Lens, pushBegin(len) PROVE RingInv'
    BY <2>1, PushBeginRingInv
  <2>2. CASE pushChunk1
    BY <2>2, Chunk1RingInv
  <2>3. CASE pushChunk2
    BY <2>3, Chunk2RingInv
  <2>4. CASE pushPublish
    BY <2>4, PublishRingInv
  <2>5. CASE Consumer
    BY <2>5, ConsumerRingInv
  <2>6. CASE UNCHANGED ring_vars
    BY <2>6 DEF ring_vars, RingInv, RingTypeOK, NeverOverfull, Holds, FirstChunk, LeastOf, Pos
  <2> QED
    BY <2>1, <2>2, <2>3, <2>4, <2>5, <2>6 DEF RingNext, Producer
<1>2. RingInv => SpanIsNextBytes
  <2> SUFFICES ASSUME RingInv, NEW i \in 0 .. cons - 1
               PROVE  Pos(head) + i < N /\ buf[Pos(head) + i] = head + i
    BY DEF SpanIsNextBytes
  <2>a. /\ head \in Nat /\ tail \in Nat /\ cons \in Nat
        /\ cons <= tail - head /\ cons <= N - Pos(head)
    BY DEF RingInv, RingTypeOK, NeverOverfull
  <2>b. Pos(head) \in 0 .. N - 1
    BY <2>a, PosRange
  <2>1. /\ head \in Nat /\ i \in Nat /\ Pos(head) \in 0 .. N - 1
        /\ Pos(head) + i < N /\ head + i < tail
    BY <2>a, <2>b, RingAssumption
  <2>2. Pos(head + i) = Pos(head) + i
    BY <2>1, PosShift
  <2> QED
    BY <2>1, <2>2 DEF RingInv, Holds
<1> QED
  BY InitRingInv, <1>1, <1>2, PTL DEF RingSpec, RingInv

\* The producer never writes over bytes that are not yet released, and the
\* consumer never releases more than was published.
THEOREM RingNeverOverfull == RingSpec => []NeverOverfull
BY RingCorrect, PTL

=============================================================================
