-------------------------- MODULE OrderPool_proofs --------------------------
(***************************************************************************)
(* The free list is correct for any number of threads and slots: no slot   *)
(* has two owners, none is lost, and the links form the stack of the free  *)
(* slots.  The tags make it so: a thread whose CAS succeeds has read the   *)
(* present head, and the link it read has not been written since.          *)
(***************************************************************************)
EXTENDS OrderPool, SequenceTheorems, TLAPS

-----------------------------------------------------------------------------
(* The inductive invariant.                                                *)

\* Heads, links and the locals of the calls are indexes of the pool.  (The
\* count size is left out: no step depends on it.)
PoolType ==
  /\ free_head \in Heads
  /\ pool_next_free \in [Slots -> Slots \cup {Nil}]
  /\ th \in [Threads -> [pc : PCs, fh : Heads, next : Slots \cup {Nil},
                         idx : Slots \cup {Nil}]]
  /\ live \subseteq Slots
  /\ stack \in Seq(Slots)

\* A thread inside a loop has read a head.
HasHead(t) == th[t].pc \in {"alloc_next", "alloc_cas", "dealloc_link", "dealloc_cas"}

\* A head that was read is older than the present one, or is the present one.
TagOld(t) ==
  HasHead(t) => /\ th[t].fh.tag <= free_head.tag
                /\ th[t].fh.tag = free_head.tag => th[t].fh = free_head

\* What a thread has read or stored is still so when its CAS succeeds.
LinkRead(t) ==
  /\ th[t].pc \in {"alloc_next", "alloc_cas"} => th[t].fh.idx \in Slots
  /\ Carries(t) => th[t].idx \in Slots
  /\ At(t, "alloc_cas") /\ Unmoved(t) => th[t].next = pool_next_free[free_head.idx]
  /\ At(t, "dealloc_cas") => pool_next_free[th[t].idx] = th[t].fh.idx

PoolInv ==
  /\ PoolType
  /\ \A t \in Threads : TagOld(t) /\ LinkRead(t)
  /\ SlotsExclusive /\ NoSlotLost /\ LinksFormStack

-----------------------------------------------------------------------------
(* Stacks.                                                                 *)

\* Popping drops the first element.
LEMMA Popped ==
  ASSUME NEW S, NEW s \in Seq(S), s # <<>>
  PROVE  /\ SubSeq(s, 2, Len(s)) \in Seq(S)
         /\ Len(SubSeq(s, 2, Len(s))) = Len(s) - 1
         /\ \A i \in 1 .. Len(s) - 1 : SubSeq(s, 2, Len(s))[i] = s[i + 1]
<1>1. SubSeq(s, 2, Len(s)) = Tail(s)
  OBVIOUS
<1>2. /\ Tail(s) \in Seq(S) /\ Len(Tail(s)) = Len(s) - 1
      /\ \A i \in 1 .. Len(s) - 1 : Tail(s)[i] = s[i + 1]
  OBVIOUS
<1> QED BY <1>1, <1>2

\* Pushing puts an element in front.
LEMMA PushedOn ==
  ASSUME NEW S, NEW s \in Seq(S), NEW x \in S
  PROVE  /\ <<x>> \o s \in Seq(S)
         /\ Len(<<x>> \o s) = Len(s) + 1
         /\ (<<x>> \o s)[1] = x
         /\ \A i \in 2 .. Len(s) + 1 : (<<x>> \o s)[i] = s[i - 1]
<1>1. <<x>> \in Seq(S) /\ Len(<<x>>) = 1 /\ <<x>>[1] = x /\ Len(s) \in Nat
  BY LenProperties
<1> QED BY <1>1, ConcatProperties

\* The head is an index of the pool exactly when the stack is not empty, and
\* then it is the first slot of the stack.
LEMMA HeadIsTop ==
  ASSUME PoolType, LinksFormStack, free_head.idx # Nil
  PROVE  /\ stack # <<>> /\ Len(stack) \in Nat \ {0}
         /\ free_head.idx = stack[1] /\ stack[1] \in Free
<1>1. stack # <<>> /\ free_head.idx = stack[1]
  BY DEF LinksFormStack
<1>2. Len(stack) \in Nat \ {0}
  BY <1>1, EmptySeq DEF PoolType
<1> QED BY <1>1, <1>2 DEF Free

-----------------------------------------------------------------------------
(* What a step of one thread leaves of the others.                         *)

ThreadType == [pc : PCs, fh : Heads, next : Slots \cup {Nil}, idx : Slots \cup {Nil}]

\* A thread keeps what it knows while others move the head, under a new tag,
\* and write links of slots that are neither free nor its own.
LEMMA OthersKeep ==
  ASSUME PoolInv, PoolType', NEW u \in Threads, th'[u] = th[u],
         free_head' = free_head \/ free_head'.tag = free_head.tag + 1,
         \A s \in Free : pool_next_free'[s] = pool_next_free[s],
         Carries(u) => pool_next_free'[th[u].idx] = pool_next_free[th[u].idx]
  PROVE  TagOld(u)' /\ LinkRead(u)'
<1>1. /\ TagOld(u) /\ LinkRead(u) /\ LinksFormStack /\ PoolType
      /\ free_head.tag \in Nat /\ th[u].fh.tag \in Nat
  BY DEF PoolInv, PoolType, Heads
<1>2. TagOld(u)'
  BY <1>1 DEF TagOld, HasHead
<1>3. ASSUME At(u, "alloc_cas"), Unmoved(u)'
      PROVE  th[u].next = pool_next_free'[free_head'.idx]
  <2>1. free_head' = free_head /\ free_head.idx \in Slots /\ Unmoved(u)
    BY <1>1, <1>3 DEF Unmoved, TagOld, HasHead, At, LinkRead
  <2>2. free_head.idx \in Free
    BY <1>1, <2>1, PoolAssumption, HeadIsTop
  <2> QED BY <1>1, <1>3, <2>1, <2>2 DEF LinkRead
<1>4. LinkRead(u)'
  BY <1>1, <1>3 DEF LinkRead, Carries, At
<1> QED BY <1>2, <1>4

\* Steps that only read leave the list and the custody of the slots alone.
LEMMA ReadsKeep ==
  ASSUME PoolInv, UNCHANGED <<free_head, pool_next_free, live, stack>>,
         NEW t \in Threads, NEW r \in ThreadType, th' = [th EXCEPT ![t] = r],
         Carries(t)' <=> Carries(t), Carries(t) => th'[t].idx = th[t].idx,
         (TagOld(t) /\ LinkRead(t))'
  PROVE  PoolInv'
<1>1. th'[t] = r /\ \A u \in Threads \ {t} : th'[u] = th[u]
  BY DEF PoolInv, PoolType
<1>2. PoolType'
  BY DEF PoolInv, PoolType, ThreadType
<1>3. \A u \in Threads : TagOld(u)' /\ LinkRead(u)'
  BY <1>1, <1>2, OthersKeep
<1>4. /\ Free' = Free
      /\ \A u \in Threads : Carries(u)' = Carries(u) /\ (Carries(u) => th'[u].idx = th[u].idx)
  BY <1>1 DEF Free, Carries
<1>5. SlotsExclusive'
  BY <1>4 DEF PoolInv, SlotsExclusive
<1>6. NoSlotLost'
  BY <1>4 DEF PoolInv, NoSlotLost
<1>7. LinksFormStack'
  BY DEF PoolInv, LinksFormStack
<1> QED BY <1>2, <1>3, <1>5, <1>6, <1>7 DEF PoolInv

-----------------------------------------------------------------------------
(* One lemma per step.                                                     *)

\* Reading the head, at the start of allocate or again after a failed CAS.
LEMMA LoopKeeps ==
  ASSUME PoolInv, NEW t \in Threads, LoopOn(t, free_head), ~Carries(t),
         UNCHANGED <<free_head, pool_next_free, live, stack>>
  PROVE  PoolInv'
<1>1. CASE free_head.idx = Nil
  <2>1. th' = [th EXCEPT ![t] = Idle] /\ Idle \in ThreadType /\ Idle.pc = "idle"
    BY <1>1 DEF LoopOn, Idle, ThreadType, PCs, Heads
  <2>2. th'[t].pc = "idle"
    BY <2>1 DEF PoolInv, PoolType
  <2>3. (TagOld(t) /\ LinkRead(t))' /\ ~Carries(t)'
    BY <2>2 DEF TagOld, HasHead, LinkRead, Carries, At
  <2> QED BY <2>1, <2>3, ReadsKeep, Zenon
<1>2. CASE free_head.idx # Nil
  <2> DEFINE r == [Idle EXCEPT !.pc = "alloc_next", !.fh = free_head]
  <2>1. th' = [th EXCEPT ![t] = r]
    BY <1>2 DEF LoopOn
  <2>2. r \in ThreadType /\ r.pc = "alloc_next" /\ r.fh = free_head
    BY Zenon DEF Idle, ThreadType, PCs, Heads, PoolInv, PoolType
  <2> HIDE DEF r
  <2>3. th'[t] = r /\ free_head.idx \in Slots /\ free_head.tag \in Nat
    BY <1>2, <2>1 DEF PoolInv, PoolType, Heads
  <2>4. (TagOld(t) /\ LinkRead(t))' /\ ~Carries(t)'
    BY <2>2, <2>3 DEF TagOld, HasHead, LinkRead, Carries, At
  <2> QED BY <2>1, <2>2, <2>4, ReadsKeep, Zenon
<1> QED BY <1>1, <1>2

\* Reading the link of the head.
LEMMA NextKeeps ==
  ASSUME PoolInv, NEW t \in Threads, allocNext(t)
  PROVE  PoolInv'
<1> DEFINE r == [th[t] EXCEPT !.pc = "alloc_cas", !.next = pool_next_free[th[t].fh.idx]]
<1>1. th[t] \in ThreadType /\ th[t].fh.idx \in Slots /\ At(t, "alloc_next")
      /\ pool_next_free[th[t].fh.idx] \in Slots \cup {Nil} /\ TagOld(t)
  BY DEF allocNext, At, PoolInv, PoolType, ThreadType, LinkRead
<1>2. th' = [th EXCEPT ![t] = r] /\ UNCHANGED <<free_head, pool_next_free, live, stack>>
  BY Zenon DEF allocNext
<1>3. /\ r \in ThreadType /\ r.pc = "alloc_cas" /\ r.fh = th[t].fh
      /\ r.next = pool_next_free[th[t].fh.idx]
  BY <1>1, Zenon DEF ThreadType, PCs
<1> HIDE DEF r
<1>4. th'[t] = r /\ ~Carries(t)
  BY <1>1, <1>2 DEF PoolInv, PoolType, Carries, At
<1>5. (TagOld(t) /\ LinkRead(t))' /\ ~Carries(t)'
  BY <1>1, <1>2, <1>3, <1>4 DEF TagOld, HasHead, LinkRead, Carries, At, Unmoved
<1> QED BY <1>2, <1>3, <1>4, <1>5, ReadsKeep, Zenon

\* A failed CAS of deallocate takes the new head.
LEMMA RetryKeeps ==
  ASSUME PoolInv, NEW t \in Threads, At(t, "dealloc_cas"),
         th' = [th EXCEPT ![t].pc = "dealloc_link", ![t].fh = free_head],
         UNCHANGED <<free_head, pool_next_free, live, stack>>
  PROVE  PoolInv'
<1> DEFINE r == [th[t] EXCEPT !.pc = "dealloc_link", !.fh = free_head]
<1>1. /\ th[t] \in ThreadType /\ Carries(t) /\ LinkRead(t)
      /\ free_head \in Heads /\ free_head.tag \in Nat
  BY DEF At, PoolInv, PoolType, ThreadType, Carries, Heads
<1>2. th' = [th EXCEPT ![t] = r]
  BY Zenon
<1>3. r \in ThreadType /\ r.pc = "dealloc_link" /\ r.fh = free_head /\ r.idx = th[t].idx
  BY <1>1, Zenon DEF ThreadType, PCs
<1> HIDE DEF r
<1>4. th'[t] = r
  BY <1>2, Zenon DEF PoolInv, PoolType
<1>5. (TagOld(t) /\ LinkRead(t))' /\ Carries(t)' /\ th'[t].idx = th[t].idx
  BY <1>1, <1>3, <1>4 DEF TagOld, HasHead, LinkRead, Carries, At
<1> QED BY <1>1, <1>2, <1>3, <1>5, ReadsKeep, Zenon

\* The end of deallocate.
LEMMA DeallocSizeKeeps ==
  ASSUME PoolInv, NEW t \in Threads, deallocSize(t)
  PROVE  PoolInv'
<1>1. /\ th' = [th EXCEPT ![t] = Idle] /\ Idle \in ThreadType /\ Idle.pc = "idle"
      /\ UNCHANGED <<free_head, pool_next_free, live, stack>> /\ ~Carries(t)
  BY DEF deallocSize, Idle, ThreadType, PCs, Heads, Carries, At
<1>2. th'[t].pc = "idle"
  BY <1>1 DEF PoolInv, PoolType
<1>3. (TagOld(t) /\ LinkRead(t))' /\ ~Carries(t)'
  BY <1>2 DEF TagOld, HasHead, LinkRead, Carries, At
<1> QED BY <1>1, <1>3, ReadsKeep, Zenon

\* The slot goes from the call to a book.
LEMMA AllocSizeKeeps ==
  ASSUME PoolInv, NEW t \in Threads, allocSize(t)
  PROVE  PoolInv'
<1>1. /\ th' = [th EXCEPT ![t] = Idle] /\ Idle \in ThreadType /\ Idle.pc = "idle"
      /\ UNCHANGED <<free_head, pool_next_free, stack>>
      /\ live' = live \cup {th[t].idx} /\ Carries(t)
  BY DEF allocSize, Idle, ThreadType, PCs, Heads, Carries, At
<1>2. /\ th'[t].pc = "idle" /\ (\A u \in Threads \ {t} : th'[u] = th[u])
      /\ th[t].idx \in Slots
  BY <1>1 DEF PoolInv, PoolType, LinkRead
<1>3. PoolType'
  BY <1>1, <1>2 DEF PoolInv, PoolType, ThreadType
<1>4. (TagOld(t) /\ LinkRead(t))' /\ ~Carries(t)'
  BY <1>2 DEF TagOld, HasHead, LinkRead, Carries, At
<1>5. \A u \in Threads : TagOld(u)' /\ LinkRead(u)'
  BY <1>1, <1>2, <1>3, <1>4, OthersKeep
<1>6. Free' = Free /\ \A u \in Threads \ {t} : Carries(u)' = Carries(u)
  BY <1>1, <1>2 DEF Free, Carries
<1>7. SlotsExclusive'
  BY <1>1, <1>2, <1>4, <1>6 DEF PoolInv, SlotsExclusive
<1>8. NoSlotLost'
  BY <1>1, <1>2, <1>6 DEF PoolInv, NoSlotLost
<1>9. LinksFormStack'
  BY <1>1 DEF PoolInv, LinksFormStack
<1> QED BY <1>3, <1>5, <1>7, <1>8, <1>9 DEF PoolInv

\* A book overwrites the link of a slot it owns.
LEMMA UseKeeps ==
  ASSUME PoolInv, NEW s \in Slots, useSlot(s)
  PROVE  PoolInv'
<1>1. /\ pool_next_free' = [pool_next_free EXCEPT ![s] = Nil] /\ s \in live
      /\ UNCHANGED <<free_head, th, live, stack>>
  BY DEF useSlot
<1>2. PoolType'
  BY <1>1 DEF PoolInv, PoolType
<1>3. /\ \A x \in Slots \ {s} : pool_next_free'[x] = pool_next_free[x]
      /\ Free \subseteq Slots \ {s}
  BY <1>1, ElementOfSeq DEF PoolInv, PoolType, SlotsExclusive, Free
<1>4. \A u \in Threads : Carries(u) => th[u].idx \in Slots \ {s}
  BY <1>1 DEF PoolInv, LinkRead, SlotsExclusive
<1>5. \A u \in Threads : TagOld(u)' /\ LinkRead(u)'
  BY <1>1, <1>2, <1>3, <1>4, OthersKeep
<1>6. SlotsExclusive' /\ NoSlotLost'
  BY <1>1 DEF PoolInv, SlotsExclusive, NoSlotLost, Free, Carries
<1>7. LinksFormStack'
  BY <1>1, <1>3 DEF PoolInv, LinksFormStack, Free
<1> QED BY <1>2, <1>5, <1>6, <1>7 DEF PoolInv

\* The slot goes from a book to the call.
LEMMA DeallocLoadKeeps ==
  ASSUME PoolInv, NEW t \in Threads, NEW s \in Slots, deallocLoad(t, s)
  PROVE  PoolInv'
<1> DEFINE r == [Idle EXCEPT !.pc = "dealloc_link", !.fh = free_head, !.idx = s]
<1>1. /\ th' = [th EXCEPT ![t] = r] /\ UNCHANGED <<free_head, pool_next_free, stack>>
      /\ s \in live /\ live' = live \ {s} /\ ~Carries(t)
  BY DEF deallocLoad, MayCall, At, Carries
<1>2. r \in ThreadType /\ r.pc = "dealloc_link" /\ r.fh = free_head /\ r.idx = s
  BY Zenon DEF Idle, ThreadType, PCs, Heads, PoolInv, PoolType
<1> HIDE DEF r
<1>3. /\ th'[t] = r /\ (\A u \in Threads \ {t} : th'[u] = th[u])
      /\ free_head.tag \in Nat
  BY <1>1 DEF PoolInv, PoolType, Heads
<1>4. PoolType'
  BY <1>1, <1>2, <1>3 DEF PoolInv, PoolType, ThreadType
<1>5. (TagOld(t) /\ LinkRead(t))' /\ Carries(t)'
  BY <1>1, <1>2, <1>3 DEF TagOld, HasHead, LinkRead, Carries, At
<1>6. \A u \in Threads : TagOld(u)' /\ LinkRead(u)'
  BY <1>1, <1>3, <1>4, <1>5, OthersKeep
<1>7. Free' = Free /\ \A u \in Threads \ {t} : Carries(u)' = Carries(u)
  BY <1>1, <1>3 DEF Free, Carries
<1>8. SlotsExclusive'
  BY <1>1, <1>2, <1>3, <1>5, <1>7 DEF PoolInv, SlotsExclusive
<1>9. NoSlotLost'
  BY <1>1, <1>2, <1>3, <1>5, <1>7 DEF PoolInv, NoSlotLost
<1>10. LinksFormStack'
  BY <1>1 DEF PoolInv, LinksFormStack
<1> QED BY <1>4, <1>6, <1>8, <1>9, <1>10 DEF PoolInv

\* The call stores the head it read as the link of the slot it carries.
LEMMA LinkKeeps ==
  ASSUME PoolInv, NEW t \in Threads, deallocLink(t)
  PROVE  PoolInv'
<1> DEFINE s == th[t].idx
           r == [th[t] EXCEPT !.pc = "dealloc_cas"]
<1>1. /\ th' = [th EXCEPT ![t] = r] /\ UNCHANGED <<free_head, live, stack>>
      /\ pool_next_free' = [pool_next_free EXCEPT ![s] = th[t].fh.idx]
      /\ At(t, "dealloc_link") /\ Carries(t)
  BY DEF deallocLink, Goto, At, Carries
<1>2. /\ th[t] \in ThreadType /\ s \in Slots /\ th[t].fh.idx \in Slots \cup {Nil}
      /\ TagOld(t) /\ LinkRead(t)
  BY <1>1 DEF PoolInv, PoolType, ThreadType, LinkRead, Heads
<1>3. r \in ThreadType /\ r.pc = "dealloc_cas" /\ r.fh = th[t].fh /\ r.idx = s
  BY <1>2 DEF ThreadType, PCs
<1> HIDE DEF r
<1>4. th'[t] = r /\ \A u \in Threads \ {t} : th'[u] = th[u]
  BY <1>1 DEF PoolInv, PoolType
<1>5. PoolType'
  BY <1>1, <1>2, <1>3, <1>4 DEF PoolInv, PoolType, ThreadType
<1>6. /\ \A x \in Slots \ {s} : pool_next_free'[x] = pool_next_free[x]
      /\ pool_next_free'[s] = th[t].fh.idx
      /\ Free \subseteq Slots \ {s}
  BY <1>1, <1>2, ElementOfSeq DEF PoolInv, PoolType, SlotsExclusive, Free
<1>7. \A u \in Threads \ {t} : Carries(u) => th[u].idx \in Slots \ {s}
  BY <1>1 DEF PoolInv, LinkRead, SlotsExclusive
<1>8. (TagOld(t) /\ LinkRead(t))' /\ Carries(t)'
  BY <1>1, <1>2, <1>3, <1>4, <1>6 DEF TagOld, HasHead, LinkRead, Carries, At
<1>9. \A u \in Threads : TagOld(u)' /\ LinkRead(u)'
  BY <1>1, <1>4, <1>5, <1>6, <1>7, <1>8, OthersKeep
<1>10. /\ Free' = Free
       /\ \A u \in Threads : Carries(u)' = Carries(u) /\ th'[u].idx = th[u].idx
  BY <1>1, <1>3, <1>4, <1>8 DEF Free, Carries
<1>11. SlotsExclusive' /\ NoSlotLost'
  BY <1>1, <1>10 DEF PoolInv, SlotsExclusive, NoSlotLost
<1>12. LinksFormStack'
  BY <1>1, <1>6, Zenon DEF PoolInv, LinksFormStack, Free
<1> QED BY <1>5, <1>9, <1>11, <1>12 DEF PoolInv

\* A successful CAS of allocate: the first slot of the list goes to the call.
LEMMA PopKeeps ==
  ASSUME PoolInv, NEW t \in Threads, allocCas(t), Unmoved(t)
  PROVE  PoolInv'
<1> DEFINE r == [Idle EXCEPT !.pc = "alloc_size", !.idx = th[t].fh.idx]
<1>1. /\ th[t].fh = free_head /\ free_head.idx \in Slots /\ ~Carries(t)
      /\ th[t].next = pool_next_free[free_head.idx] /\ th[t].next \in Slots \cup {Nil}
      /\ free_head.tag \in Nat
  BY DEF allocCas, Unmoved, At, Carries, PoolInv, PoolType, LinkRead, Heads
<1>2. /\ free_head' = [tag |-> free_head.tag + 1, idx |-> th[t].next]
      /\ free_head' \in Heads /\ free_head'.tag = free_head.tag + 1
      /\ free_head'.idx = th[t].next
  BY <1>1 DEF allocCas, Install, Heads
<1>3. /\ stack # <<>> /\ Len(stack) \in Nat \ {0} /\ free_head.idx = stack[1]
      /\ stack \in Seq(Slots)
  BY <1>1, PoolAssumption, HeadIsTop DEF PoolInv, PoolType
<1>4. /\ stack' \in Seq(Slots) /\ Len(stack') = Len(stack) - 1
      /\ \A i \in 1 .. Len(stack) - 1 : stack'[i] = stack[i + 1]
  <2>1. stack' = SubSeq(stack, 2, Len(stack))
    BY DEF allocCas
  <2> QED BY <1>3, <2>1, Popped
<1>5. th' = [th EXCEPT ![t] = r] /\ UNCHANGED <<pool_next_free, live>>
  BY DEF allocCas
<1>6. r \in ThreadType /\ r.pc = "alloc_size" /\ r.idx = stack[1]
  BY <1>1, <1>3, Zenon DEF Idle, ThreadType, PCs, Heads
<1> HIDE DEF r
<1>7. th'[t] = r /\ \A u \in Threads \ {t} : th'[u] = th[u]
  BY <1>5 DEF PoolInv, PoolType
<1>8. PoolType'
  BY <1>2, <1>4, <1>5, <1>6 DEF PoolInv, PoolType, ThreadType
<1>9. (TagOld(t) /\ LinkRead(t))' /\ Carries(t)'
  BY <1>1, <1>3, <1>6, <1>7 DEF TagOld, HasHead, LinkRead, Carries, At
<1>10. \A u \in Threads : TagOld(u)' /\ LinkRead(u)'
  BY <1>2, <1>5, <1>7, <1>8, <1>9, OthersKeep
<1>11. Free' = Free \ {stack[1]}
  <2>1. ASSUME NEW x \in Free' PROVE x \in Free \ {stack[1]}
    <3>1. PICK i \in 1 .. Len(stack') : x = stack'[i]
      BY <2>1 DEF Free
    <3>2. i + 1 \in 1 .. Len(stack) /\ x = stack[i + 1] /\ 1 \in 1 .. Len(stack) /\ i + 1 # 1
      BY <1>3, <1>4, <3>1
    <3> QED BY <3>2 DEF Free, PoolInv, SlotsExclusive
  <2>2. ASSUME NEW x \in Free, x # stack[1] PROVE x \in Free'
    <3>1. PICK i \in 1 .. Len(stack) : x = stack[i]
      BY <2>2 DEF Free
    <3>2. i - 1 \in 1 .. Len(stack') /\ i - 1 \in 1 .. Len(stack) - 1 /\ (i - 1) + 1 = i
      BY <1>3, <1>4, <2>2, <3>1
    <3>3. x = stack'[i - 1]
      BY <1>4, <3>1, <3>2
    <3> QED BY <3>2, <3>3 DEF Free
  <2> QED BY <2>1, <2>2
<1>12. stack[1] \in Free /\ \A u \in Threads \ {t} : Carries(u)' = Carries(u)
  BY <1>3, <1>7 DEF Free, Carries
<1>13. SlotsExclusive'
  <2>1. \A i, j \in 1 .. Len(stack') : stack'[i] = stack'[j] => i = j
    BY <1>3, <1>4 DEF PoolInv, SlotsExclusive
  <2>2. (live \cap Free = {})'
    BY <1>5, <1>11 DEF PoolInv, SlotsExclusive
  <2>3. \A u \in Threads : Carries(u)' => th'[u].idx \notin live' \cup Free'
    BY <1>5, <1>6, <1>7, <1>11, <1>12 DEF PoolInv, SlotsExclusive
  <2>4. \A u, v \in Threads : Carries(u)' /\ Carries(v)' /\ th'[u].idx = th'[v].idx => u = v
    BY <1>6, <1>7, <1>12 DEF PoolInv, SlotsExclusive
  <2> QED BY <2>1, <2>2, <2>3, <2>4 DEF SlotsExclusive
<1>14. NoSlotLost'
  BY <1>1, <1>5, <1>6, <1>7, <1>9, <1>11, <1>12 DEF PoolInv, NoSlotLost
<1>15. LinksFormStack'
  <2>1. th[t].next = IF 1 = Len(stack) THEN Nil ELSE stack[1 + 1]
    <3>1. 1 \in 1 .. Len(stack)
      BY <1>3
    <3>2. pool_next_free[stack[1]] = IF 1 = Len(stack) THEN Nil ELSE stack[1 + 1]
      BY <3>1, Zenon DEF PoolInv, LinksFormStack
    <3> QED BY <1>1, <1>3, <3>2
  <2>2. free_head'.idx = IF stack' = <<>> THEN Nil ELSE stack'[1]
    <3>1. CASE Len(stack) = 1
      BY <1>2, <1>4, <2>1, <3>1, EmptySeq
    <3>2. CASE Len(stack) # 1
      BY <1>2, <1>3, <1>4, <2>1, <3>2, EmptySeq
    <3> QED BY <3>1, <3>2
  <2>3. ASSUME NEW i \in 1 .. Len(stack')
        PROVE  pool_next_free'[stack'[i]]
                 = IF i = Len(stack') THEN Nil ELSE stack'[i + 1]
    <3>1. i + 1 \in 1 .. Len(stack) /\ stack'[i] = stack[i + 1]
      BY <1>3, <1>4
    <3>2. pool_next_free[stack[i + 1]]
            = IF i + 1 = Len(stack) THEN Nil ELSE stack[i + 1 + 1]
      BY <3>1 DEF PoolInv, LinksFormStack
    <3> QED BY <1>3, <1>4, <1>5, <3>1, <3>2
  <2> QED BY <2>2, <2>3 DEF LinksFormStack
<1> QED BY <1>8, <1>10, <1>13, <1>14, <1>15 DEF PoolInv

\* A successful CAS of deallocate: the slot of the call goes on the list.
LEMMA PushKeeps ==
  ASSUME PoolInv, NEW t \in Threads, deallocCas(t), Unmoved(t)
  PROVE  PoolInv'
<1> DEFINE s == th[t].idx
           r == [Idle EXCEPT !.pc = "dealloc_size"]
<1>1. /\ th[t].fh = free_head /\ s \in Slots /\ Carries(t) /\ s \notin live \cup Free
      /\ pool_next_free[s] = free_head.idx /\ free_head.tag \in Nat
  BY DEF deallocCas, Unmoved, At, Carries, PoolInv, PoolType, LinkRead, Heads,
         SlotsExclusive
<1>2. /\ free_head' = [tag |-> free_head.tag + 1, idx |-> s]
      /\ free_head' \in Heads /\ free_head'.tag = free_head.tag + 1 /\ free_head'.idx = s
  BY <1>1 DEF deallocCas, Install, Heads
<1>3. stack \in Seq(Slots) /\ Len(stack) \in Nat
  BY LenProperties DEF PoolInv, PoolType
<1>4. /\ stack' \in Seq(Slots) /\ Len(stack') = Len(stack) + 1 /\ stack'[1] = s
      /\ \A i \in 2 .. Len(stack) + 1 : stack'[i] = stack[i - 1]
  <2>1. stack' = <<s>> \o stack
    BY DEF deallocCas
  <2> QED BY <1>1, <1>3, <2>1, PushedOn
<1>5. th' = [th EXCEPT ![t] = r] /\ UNCHANGED <<pool_next_free, live>>
  BY DEF deallocCas
<1>6. r \in ThreadType /\ r.pc = "dealloc_size"
  BY DEF Idle, ThreadType, PCs, Heads
<1> HIDE DEF r
<1>7. th'[t] = r /\ \A u \in Threads \ {t} : th'[u] = th[u]
  BY <1>5 DEF PoolInv, PoolType
<1>8. PoolType'
  BY <1>2, <1>4, <1>5, <1>6 DEF PoolInv, PoolType, ThreadType
<1>9. (TagOld(t) /\ LinkRead(t))' /\ ~Carries(t)'
  BY <1>6, <1>7 DEF TagOld, HasHead, LinkRead, Carries, At
<1>10. \A u \in Threads : TagOld(u)' /\ LinkRead(u)'
  BY <1>2, <1>5, <1>7, <1>8, <1>9, OthersKeep
<1> HIDE DEF s
<1>11. Free' = Free \cup {s}
  <2>1. ASSUME NEW x \in Free' PROVE x \in Free \cup {s}
    <3>1. PICK i \in 1 .. Len(stack') : x = stack'[i]
      BY <2>1 DEF Free
    <3>2. i = 1 \/ (i - 1 \in 1 .. Len(stack) /\ x = stack[i - 1])
      BY <1>3, <1>4, <3>1
    <3> QED BY <1>4, <3>1, <3>2 DEF Free
  <2>2. ASSUME NEW x \in Free PROVE x \in Free'
    <3>1. PICK i \in 1 .. Len(stack) : x = stack[i]
      BY <2>2 DEF Free
    <3>2. i + 1 \in 1 .. Len(stack') /\ i + 1 \in 2 .. Len(stack) + 1 /\ (i + 1) - 1 = i
      BY <1>3, <1>4, <3>1
    <3>3. x = stack'[i + 1]
      BY <1>4, <3>1, <3>2
    <3> QED BY <3>2, <3>3 DEF Free
  <2>3. s \in Free'
    <3>1. 1 \in 1 .. Len(stack')
      BY <1>3, <1>4
    <3> QED BY <1>4, <3>1 DEF Free
  <2> QED BY <2>1, <2>2, <2>3
<1>12. \A u \in Threads \ {t} : Carries(u)' = Carries(u)
  BY <1>7 DEF Carries
<1>13. \A u \in Threads \ {t} : Carries(u) => th[u].idx # s
  BY <1>1 DEF PoolInv, SlotsExclusive, s
<1>14. SlotsExclusive'
  <2>1. ASSUME NEW i \in 1 .. Len(stack'), NEW j \in 1 .. Len(stack'),
               stack'[i] = stack'[j]
        PROVE  i = j
    <3>1. ASSUME NEW k \in 1 .. Len(stack'), k # 1
          PROVE  k - 1 \in 1 .. Len(stack) /\ stack'[k] = stack[k - 1] /\ stack'[k] # s
      <4>1. k - 1 \in 1 .. Len(stack) /\ stack'[k] = stack[k - 1]
        BY <1>3, <1>4, <3>1
      <4> QED BY <1>1, <4>1 DEF Free
    <3>2. CASE i = 1 \/ j = 1
      BY <1>4, <2>1, <3>1, <3>2
    <3>3. CASE i # 1 /\ j # 1
      <4>1. i - 1 = j - 1
        BY <2>1, <3>1, <3>3 DEF PoolInv, SlotsExclusive
      <4> QED BY <1>3, <1>4, <4>1
    <3> QED BY <3>2, <3>3
  <2>2. (live \cap Free = {})'
    BY <1>1, <1>5, <1>11 DEF PoolInv, SlotsExclusive
  <2>3. \A u \in Threads : Carries(u)' => th'[u].idx \notin live' \cup Free'
    BY <1>5, <1>7, <1>9, <1>11, <1>12, <1>13 DEF PoolInv, SlotsExclusive
  <2>4. \A u, v \in Threads : Carries(u)' /\ Carries(v)' /\ th'[u].idx = th'[v].idx => u = v
    BY <1>7, <1>9, <1>12 DEF PoolInv, SlotsExclusive
  <2> QED BY <2>1, <2>2, <2>3, <2>4 DEF SlotsExclusive
<1>15. NoSlotLost'
  BY <1>5, <1>7, <1>11, <1>12 DEF PoolInv, NoSlotLost, s
<1>16. LinksFormStack'
  <2>1. free_head'.idx = IF stack' = <<>> THEN Nil ELSE stack'[1]
    BY <1>2, <1>3, <1>4, EmptySeq DEF s
  <2>2. ASSUME NEW i \in 1 .. Len(stack')
        PROVE  pool_next_free'[stack'[i]]
                 = IF i = Len(stack') THEN Nil ELSE stack'[i + 1]
    <3>1. CASE i = 1
      <4>1. free_head.idx = IF Len(stack) = 0 THEN Nil ELSE stack[1]
        BY <1>3, EmptySeq DEF PoolInv, LinksFormStack
      <4> QED BY <1>1, <1>3, <1>4, <1>5, <3>1, <4>1 DEF s
    <3>2. CASE i # 1
      <4>1. i - 1 \in 1 .. Len(stack) /\ stack'[i] = stack[i - 1]
        BY <1>3, <1>4, <3>2
      <4>2. pool_next_free[stack[i - 1]]
              = IF i - 1 = Len(stack) THEN Nil ELSE stack[i - 1 + 1]
        BY <4>1 DEF PoolInv, LinksFormStack
      <4> QED BY <1>3, <1>4, <1>5, <4>1, <4>2
    <3> QED BY <3>1, <3>2
  <2> QED BY <2>1, <2>2 DEF LinksFormStack
<1> QED BY <1>8, <1>10, <1>14, <1>15, <1>16 DEF PoolInv

-----------------------------------------------------------------------------
\* initFreeList establishes the invariant.
LEMMA PoolInit == Init => PoolInv
<1> SUFFICES ASSUME Init PROVE PoolInv
  OBVIOUS
<1>1. /\ Len(stack) = Capacity /\ stack \in Seq(Slots) /\ stack # <<>>
      /\ \A i \in 1 .. Capacity : stack[i] = i - 1
  <2>1. stack = [i \in 1 .. Capacity |-> i - 1] /\ Capacity \in Nat \ {0}
    BY PoolAssumption DEF Init
  <2>2. \A i \in 1 .. Capacity : i - 1 \in Slots
    BY <2>1 DEF Slots
  <2>3. stack \in Seq(Slots) /\ Len(stack) = Capacity
    BY <2>1, <2>2
  <2>4. stack # <<>>
    BY <2>1, <2>3, EmptySeq
  <2> QED BY <2>1, <2>3, <2>4
<1>2. Free = Slots
  <2>1. ASSUME NEW x \in Slots PROVE x \in Free
    <3>1. x + 1 \in 1 .. Len(stack) /\ stack[x + 1] = x
      BY <1>1, PoolAssumption DEF Slots
    <3> QED BY <3>1 DEF Free
  <2>2. Free \subseteq Slots
    BY <1>1, ElementOfSeq DEF Free
  <2> QED BY <2>1, <2>2
<1>3. /\ \A t \in Threads : th[t] = Idle /\ ~Carries(t)
      /\ Idle \in ThreadType /\ Idle.pc = "idle"
  BY DEF Init, Idle, Carries, ThreadType, PCs, Heads
<1>4. PoolType
  BY <1>1, <1>3, PoolAssumption DEF Init, PoolType, ThreadType, Heads, Slots
<1>5. \A t \in Threads : TagOld(t) /\ LinkRead(t)
  BY <1>3 DEF TagOld, HasHead, LinkRead, Carries, At
<1>6. SlotsExclusive
  <2>1. \A i, j \in 1 .. Len(stack) : stack[i] = stack[j] => i = j
    BY <1>1, PoolAssumption
  <2> QED BY <1>3, <2>1, Zenon DEF Init, SlotsExclusive
<1>7. NoSlotLost
  BY <1>2 DEF NoSlotLost
<1>8. LinksFormStack
  <2>1. ASSUME NEW i \in 1 .. Len(stack)
        PROVE  pool_next_free[stack[i]] = IF i = Len(stack) THEN Nil ELSE stack[i + 1]
    <3>1. i - 1 \in Slots /\ stack[i] = i - 1 /\ i \in 1 .. Capacity
      BY <1>1, PoolAssumption DEF Slots
    <3>2. pool_next_free[i - 1] = IF i - 1 = Capacity - 1 THEN Nil ELSE (i - 1) + 1
      BY <3>1 DEF Init
    <3> QED BY <1>1, <3>1, <3>2, PoolAssumption
  <2>2. free_head.idx = IF stack = <<>> THEN Nil ELSE stack[1]
    BY <1>1, PoolAssumption DEF Init
  <2> QED BY <2>1, <2>2 DEF LinksFormStack
<1> QED BY <1>4, <1>5, <1>6, <1>7, <1>8 DEF PoolInv

\* Every step keeps it.
LEMMA PoolStep == PoolInv /\ [Next]_vars => PoolInv'
<1> SUFFICES ASSUME PoolInv, [Next]_vars PROVE PoolInv'
  OBVIOUS
<1>1. ASSUME NEW t \in Threads, allocLoad(t) PROVE PoolInv'
  BY <1>1, LoopKeeps DEF allocLoad, MayCall, At, Carries
<1>2. ASSUME NEW t \in Threads, allocNext(t) PROVE PoolInv'
  BY <1>2, NextKeeps
<1>3. ASSUME NEW t \in Threads, allocCas(t) PROVE PoolInv'
  <2>1. CASE Unmoved(t)
    BY <1>3, <2>1, PopKeeps
  <2>2. CASE ~Unmoved(t)
    BY <1>3, <2>2, LoopKeeps DEF allocCas, At, Carries
  <2> QED BY <2>1, <2>2
<1>4. ASSUME NEW t \in Threads, allocSize(t) PROVE PoolInv'
  BY <1>4, AllocSizeKeeps
<1>5. ASSUME NEW s \in Slots, useSlot(s) PROVE PoolInv'
  BY <1>5, UseKeeps
<1>6. ASSUME NEW t \in Threads, NEW s \in Slots, deallocLoad(t, s) PROVE PoolInv'
  BY <1>6, DeallocLoadKeeps
<1>7. ASSUME NEW t \in Threads, deallocLink(t) PROVE PoolInv'
  BY <1>7, LinkKeeps
<1>8. ASSUME NEW t \in Threads, deallocCas(t) PROVE PoolInv'
  <2>1. CASE Unmoved(t)
    BY <1>8, <2>1, PushKeeps
  <2>2. CASE ~Unmoved(t)
    BY <1>8, <2>2, RetryKeeps DEF deallocCas
  <2> QED BY <2>1, <2>2
<1>9. ASSUME NEW t \in Threads, deallocSize(t) PROVE PoolInv'
  BY <1>9, DeallocSizeKeeps
<1>10. CASE UNCHANGED vars
  BY <1>10 DEF vars, PoolInv, PoolType, TagOld, HasHead, LinkRead, At, Carries, Unmoved,
               SlotsExclusive, NoSlotLost, LinksFormStack, Free
<1> QED
  BY <1>1, <1>2, <1>3, <1>4, <1>5, <1>6, <1>7, <1>8, <1>9, <1>10 DEF Next, Step

\* The pool is safe for any number of threads and slots and any interleaving
\* of their atomic accesses: no slot is ever owned twice (by the free list, a
\* book or a call).
THEOREM SlotsNeverShared == Spec => []SlotsExclusive
<1>1. PoolInv => SlotsExclusive
  BY DEF PoolInv
<1> QED BY <1>1, PoolInit, PoolStep, PTL DEF Spec

\* No slot is ever lost: allocate and deallocate, retries included, leave
\* every slot free, in a book or in the hands of a call.
THEOREM SlotsNeverLost == Spec => []NoSlotLost
<1>1. PoolInv => NoSlotLost
  BY DEF PoolInv
<1> QED BY <1>1, PoolInit, PoolStep, PTL DEF Spec

\* The tagged head and the links always form the stack of the free slots: no
\* CAS of allocate installs a stale link (ABA).
THEOREM FreeListIsStack == Spec => []LinksFormStack
<1>1. PoolInv => LinksFormStack
  BY DEF PoolInv
<1> QED BY <1>1, PoolInit, PoolStep, PTL DEF Spec

=============================================================================
