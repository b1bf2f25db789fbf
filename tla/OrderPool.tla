----------------------------- MODULE OrderPool ------------------------------
(***************************************************************************)
(* OrderPool (src/include/order_pool.h): fixed slots and a lock-free free  *)
(* list (a Treiber stack whose head carries a tag against ABA), used by    *)
(* the threads of all books at once.  Every atomic access is a step.       *)
(*                                                                         *)
(* The books own the slots that allocate returned; a slot may be given     *)
(* back by another thread than the one that took it.  The owner of a slot  *)
(* overwrites the whole Order, its pool_next_free included (operator=).    *)
(*                                                                         *)
(* compare_exchange_weak does not fail spuriously (x86-64).  The 32-bit    *)
(* tag does not wrap: MaxTag bounds the successful CASes of an execution.  *)
(***************************************************************************)
EXTENDS Integers, Sequences, FiniteSets

CONSTANTS
  Threads,
  Capacity, \* capacity_
  Nil,      \* UINT32_MAX as an index
  MaxTag    \* bound: calls begin while fewer CASes than this succeeded

\* Indexes into storage_.
Slots == 0 .. Capacity - 1

ASSUME PoolAssumption ==
  /\ Capacity \in Nat \ {0}
  /\ Nil \notin Slots
  /\ MaxTag \in Nat

VARIABLES
  free_head,       \* free_head_: tag and index
  pool_next_free,  \* the link field of every slot
  size,            \* size_
  th,              \* per thread: program counter and locals of its call
  live,            \* slots the books own
  stack            \* history: the free slots in order, as pushed and popped

vars == <<free_head, pool_next_free, size, th, live, stack>>

Idle == [pc |-> "idle", fh |-> [tag |-> 0, idx |-> Nil], next |-> Nil, idx |-> Nil]

At(t, pc) == th[t].pc = pc

\* Thread t may start a call.
MayCall(t) == At(t, "idle") /\ free_head.tag < MaxTag

Goto(t, pc) == th' = [th EXCEPT ![t].pc = pc]

\* Fault: the head carries no tag.
Unmoved_untagged(t) == free_head.idx = th[t].fh.idx

\* The CAS of thread t: it succeeds when free_head_ is what t read.
Unmoved(t) == free_head = th[t].fh

\* A successful CAS installs idx under the next tag.
Install(idx) ==
  free_head' = [tag |-> free_head.tag + 1, idx |-> idx]

-----------------------------------------------------------------------------
(* allocate                                                                *)

\* Where the while loop goes with a head it has just read; an empty pool
\* returns nullptr.
LoopOn(t, fh) ==
  th' = [th EXCEPT ![t] = IF fh.idx = Nil THEN Idle
                          ELSE [Idle EXCEPT !.pc = "alloc_next", !.fh = fh]]

allocLoad(t) ==
  /\ MayCall(t)
  /\ LoopOn(t, free_head)
  /\ UNCHANGED <<free_head, pool_next_free, size, live, stack>>

allocNext(t) ==
  /\ At(t, "alloc_next")
  /\ th' = [th EXCEPT ![t].pc = "alloc_cas",
                      ![t].next = pool_next_free[th[t].fh.idx]]
  /\ UNCHANGED <<free_head, pool_next_free, size, live, stack>>

allocCas(t) ==
  /\ At(t, "alloc_cas")
  /\ \/ /\ Unmoved(t)
        /\ Install(th[t].next)
        /\ th' = [th EXCEPT ![t] = [Idle EXCEPT !.pc = "alloc_size",
                                                !.idx = th[t].fh.idx]]
        /\ stack' = SubSeq(stack, 2, Len(stack))
     \/ /\ ~Unmoved(t)
        /\ LoopOn(t, free_head)
        /\ UNCHANGED <<free_head, stack>>
  /\ UNCHANGED <<pool_next_free, size, live>>

\* size_.fetch_add, and the slot is returned to a book.
allocSize(t) ==
  /\ At(t, "alloc_size")
  /\ size' = size + 1
  /\ live' = live \cup {th[t].idx}
  /\ th' = [th EXCEPT ![t] = Idle]
  /\ UNCHANGED <<free_head, pool_next_free, stack>>

\* The book copies an order into its slot; a fresh Order has no link.
useSlot(s) ==
  /\ s \in live
  /\ pool_next_free' = [pool_next_free EXCEPT ![s] = Nil]
  /\ UNCHANGED <<free_head, size, th, live, stack>>

-----------------------------------------------------------------------------
(* deallocate(idx)                                                         *)

\* A book gives up slot s, exactly once, and reads the head.
deallocLoad(t, s) ==
  /\ MayCall(t)
  /\ s \in live
  /\ live' = live \ {s}
  /\ th' = [th EXCEPT ![t] = [Idle EXCEPT !.pc = "dealloc_link",
                                          !.fh = free_head, !.idx = s]]
  /\ UNCHANGED <<free_head, pool_next_free, size, stack>>

\* Fault: the link is not stored.
deallocLink_skipped(t) ==
  /\ At(t, "dealloc_link")
  /\ Goto(t, "dealloc_cas")
  /\ UNCHANGED <<free_head, pool_next_free, size, live, stack>>

deallocLink(t) ==
  /\ At(t, "dealloc_link")
  /\ pool_next_free' = [pool_next_free EXCEPT ![th[t].idx] = th[t].fh.idx]
  /\ Goto(t, "dealloc_cas")
  /\ UNCHANGED <<free_head, size, live, stack>>

\* Fault: a retry keeps the head it read first.
deallocCas_stale(t) ==
  /\ At(t, "dealloc_cas")
  /\ \/ /\ Unmoved(t)
        /\ Install(th[t].idx)
        /\ th' = [th EXCEPT ![t] = [Idle EXCEPT !.pc = "dealloc_size"]]
        /\ stack' = <<th[t].idx>> \o stack
     \/ /\ ~Unmoved(t)
        /\ Goto(t, "dealloc_link")
        /\ UNCHANGED <<free_head, stack>>
  /\ UNCHANGED <<pool_next_free, size, live>>

\* Fault: a failed CAS is not retried.
deallocCas_once(t) ==
  /\ At(t, "dealloc_cas")
  /\ \/ /\ Unmoved(t)
        /\ Install(th[t].idx)
        /\ th' = [th EXCEPT ![t] = [Idle EXCEPT !.pc = "dealloc_size"]]
        /\ stack' = <<th[t].idx>> \o stack
     \/ /\ ~Unmoved(t)
        /\ th' = [th EXCEPT ![t] = Idle]
        /\ UNCHANGED <<free_head, stack>>
  /\ UNCHANGED <<pool_next_free, size, live>>

deallocCas(t) ==
  /\ At(t, "dealloc_cas")
  /\ \/ /\ Unmoved(t)
        /\ Install(th[t].idx)
        /\ th' = [th EXCEPT ![t] = [Idle EXCEPT !.pc = "dealloc_size"]]
        /\ stack' = <<th[t].idx>> \o stack
     \/ /\ ~Unmoved(t)
        /\ th' = [th EXCEPT ![t].pc = "dealloc_link", ![t].fh = free_head]
        /\ UNCHANGED <<free_head, stack>>
  /\ UNCHANGED <<pool_next_free, size, live>>

deallocSize(t) ==
  /\ At(t, "dealloc_size")
  /\ size' = size - 1
  /\ th' = [th EXCEPT ![t] = Idle]
  /\ UNCHANGED <<free_head, pool_next_free, live, stack>>

-----------------------------------------------------------------------------
\* initFreeList
Init ==
  /\ free_head = [tag |-> 0, idx |-> 0]
  /\ pool_next_free = [i \in Slots |-> IF i = Capacity - 1 THEN Nil ELSE i + 1]
  /\ size = 0
  /\ th = [t \in Threads |-> Idle]
  /\ live = {}
  /\ stack = [i \in 1 .. Capacity |-> i - 1]

Step(t) ==
  \/ allocNext(t) \/ allocCas(t) \/ allocSize(t)
  \/ deallocLink(t) \/ deallocCas(t) \/ deallocSize(t)

Next ==
  \/ \E t \in Threads : Step(t) \/ allocLoad(t) \/ \E s \in Slots : deallocLoad(t, s)
  \/ \E s \in Slots : useSlot(s)

Spec == Init /\ [][Next]_vars

\* A thread inside a call is scheduled.
FairSpec == Spec /\ \A t \in Threads : WF_vars(Step(t))

-----------------------------------------------------------------------------
(* Properties.                                                             *)

PCs == {"idle", "alloc_next", "alloc_cas", "alloc_size",
        "dealloc_link", "dealloc_cas", "dealloc_size"}

Heads == [tag : Nat, idx : Slots \cup {Nil}]

\* The slots on the free list.
Free == {stack[i] : i \in 1 .. Len(stack)}

\* Thread t holds a slot that is on its way from or to the free list.
Carries(t) == th[t].pc \in {"alloc_size", "dealloc_link", "dealloc_cas"}

\* No slot has two owners: the free list, the books and the calls in progress
\* never share a slot, no two calls carry the same one and none is on the free
\* list twice.
SlotsExclusive ==
  /\ \A i, j \in 1 .. Len(stack) : stack[i] = stack[j] => i = j
  /\ live \cap Free = {}
  /\ \A t \in Threads : Carries(t) => th[t].idx \notin live \cup Free
  /\ \A t, u \in Threads : Carries(t) /\ Carries(u) /\ th[t].idx = th[u].idx => t = u

\* No slot is lost: each one is free, in a book or carried by a call.
NoSlotLost ==
  \A s \in Slots : s \in live \cup Free \/ \E t \in Threads : Carries(t) /\ th[t].idx = s

\* The list that free_head_ and the links form is the stack of the slots
\* pushed and not popped, however the CASes of the threads interleave.
LinksFormStack ==
  /\ free_head.idx = IF stack = <<>> THEN Nil ELSE stack[1]
  /\ \A i \in 1 .. Len(stack) :
       pool_next_free[stack[i]] = IF i = Len(stack) THEN Nil ELSE stack[i + 1]

\* Retries end: a call returns once the other threads stop winning its CAS.
EveryCallReturns ==
  \A t \in Threads : ~At(t, "idle") ~> At(t, "idle")

=============================================================================
