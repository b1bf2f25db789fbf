------------------------------ MODULE OrderMap ------------------------------
(***************************************************************************)
(* OrderMap (src/include/order_map.h): the index from order id to order    *)
(* that all books share.  Buckets are lock-free chains of pooled nodes; a  *)
(* bucket that grows too long is moved to a map behind a lock (treeify).   *)
(* A step is one access to shared memory, or the loads or stores of the    *)
(* fields of one node.                                                     *)
(*                                                                         *)
(* The free list of the nodes is the tagged stack that OrderPool models in *)
(* full, so that allocNode and freeNode are single steps here; next_idx    *)
(* serves chain and free list alike, as in the code.  What is done under   *)
(* the overflow lock is one step.  The Order* of a node is left out: it is *)
(* a function of the key.                                                  *)
(***************************************************************************)
EXTENDS Integers, Sequences

CONSTANTS
  Threads,
  Keys, NoKey,  \* order ids, and the id of a node never used
  Buckets,
  hash,         \* the bucket of each key
  Capacity,     \* capacity_, the number of nodes
  Nil,          \* UINT32_MAX as an index
  Threshold     \* TREEIFY_THRESHOLD

Nodes == 0 .. Capacity - 1

VARIABLES
  node,        \* order_id, next_idx and bucket of every node
  buckets,     \* buckets_: the head of every chain
  bucket_len,  \* bucket_len_
  state,       \* state_: 0 a chain, 1 being moved, 2 in the overflow map
  free,        \* the free nodes, first the one on top
  overflow,    \* the keys of overflow_
  size,        \* size_
  th           \* per thread: its operation, program counter, locals and answer,
               \* and (history) whether its key was there when the call began

shared == <<node, buckets, bucket_len, state, free, overflow, size>>
vars == <<shared, th>>

Idle == [pc |-> "idle", op |-> "none", key |-> NoKey, idx |-> Nil, nxt |-> Nil,
         nxt2 |-> Nil, then |-> "none", ok |-> FALSE, was |-> FALSE]

At(t, pc) == th[t].pc = pc

B(t) == hash[th[t].key]

Goto(t, pc) == th' = [th EXCEPT ![t].pc = pc]

\* The call has its answer; the thread goes on in the next step.
Return(t, ok) ==
  th' = [th EXCEPT ![t] = [Idle EXCEPT !.pc = "done", !.op = th[t].op,
                                       !.key = th[t].key, !.ok = ok,
                                       !.was = th[t].was]]

\* freeNode(idx)
Freed(idx) ==
  /\ node' = [node EXCEPT ![idx].next_idx = IF free = <<>> THEN Nil ELSE free[1]]
  /\ free' = <<idx>> \o free

-----------------------------------------------------------------------------
(* The keys reachable in a bucket, and what the index holds.               *)

\* The nodes of the chain of bucket b.
Chain(b) ==
  LET from[n \in 0 .. Capacity] ==  \* reached in at most n links
        IF n = 0 THEN {buckets[b]}
        ELSE LET near == from[n - 1]
             IN  near \cup {node[i].next_idx : i \in near \ {Nil}}
  IN  from[Capacity] \ {Nil}

KeysIn(b) ==
  {k \in overflow : hash[k] = b}
    \cup (IF state[b] = 2 THEN {} ELSE {node[i].order_id : i \in Chain(b)})

Present == UNION {KeysIn(b) : b \in Buckets}

-----------------------------------------------------------------------------
(* The callers.  An order belongs to one book and a book to one thread at  *)
(* a time, so that calls on one key do not overlap; ids are unique; only   *)
(* an order that was found is erased.  Orders of different books can share *)
(* a bucket, so that calls on different keys overlap as they please.       *)

\* A call begins, with the first load of state_.
begin(t, op, k) ==
  /\ At(t, "idle")
  /\ \A u \in Threads : th[u].key # k
  /\ op = "insert" => k \notin KeysIn(hash[k])
  /\ op = "erase" => k \in KeysIn(hash[k])
  /\ th' = [th EXCEPT ![t] = [Idle EXCEPT !.op = op, !.key = k, !.was = k \in Present, !.pc =
       IF state[hash[k]] # 0 THEN "overflow"
       ELSE CASE op = "insert" -> "len"
              [] op = "find"   -> "find_head"
              [] op = "erase"  -> "erase_head"]]
  /\ UNCHANGED shared

return(t) ==
  /\ At(t, "done")
  /\ th' = [th EXCEPT ![t] = Idle]
  /\ UNCHANGED shared

\* Under overflow_lock_.
inOverflow(t) ==
  LET k == th[t].key IN
  /\ At(t, "overflow")
  /\ overflow' = CASE th[t].op = "insert" -> overflow \cup {k}
                   [] th[t].op = "erase"  -> overflow \ {k}
                   [] OTHER -> overflow
  /\ size' = CASE th[t].op = "insert" -> size + 1
               [] th[t].op = "erase" /\ k \in overflow -> size - 1
               [] OTHER -> size
  /\ Return(t, th[t].op = "find" => k \in overflow)
  /\ UNCHANGED <<node, buckets, bucket_len, state, free>>

-----------------------------------------------------------------------------
(* insert                                                                  *)

\* A bucket that is too long is moved first.  (The second condition of line
\* 76, the whole word of free_head_ against UINT32_MAX, holds only for tag 0,
\* that is before the first allocation, when the list is not empty.)
insLen(t) ==
  /\ At(t, "len")
  /\ th' = [th EXCEPT ![t] =
       IF bucket_len[B(t)] >= Threshold
       THEN [@ EXCEPT !.pc = "treeify", !.then = "overflow"]
       ELSE [@ EXCEPT !.pc = "alloc"]]
  /\ UNCHANGED shared

\* allocNode; insert gives up when there is no node.
insAlloc(t) ==
  /\ At(t, "alloc")
  /\ \/ /\ free = <<>>
        /\ Return(t, FALSE)
        /\ UNCHANGED free
     \/ /\ free # <<>>
        /\ free' = Tail(free)
        /\ th' = [th EXCEPT ![t].pc = "fill", ![t].idx = free[1]]
  /\ UNCHANGED <<node, buckets, bucket_len, state, overflow, size>>

insFill(t) ==
  /\ At(t, "fill")
  /\ node' = [node EXCEPT ![th[t].idx].order_id = th[t].key,
                          ![th[t].idx].bucket = B(t)]
  /\ Goto(t, "recheck")
  /\ UNCHANGED <<buckets, bucket_len, state, free, overflow, size>>

\* A bucket that is being moved sends the key to the overflow map.
Diverted(t) ==
  Freed(th[t].idx) /\ Goto(t, "overflow")

\* The load of state_ before the chain is touched.
insRecheck(t) ==
  /\ At(t, "recheck")
  /\ IF state[B(t)] # 0 THEN Diverted(t)
     ELSE Goto(t, "head") /\ UNCHANGED <<node, free>>
  /\ UNCHANGED <<buckets, bucket_len, state, overflow, size>>

\* The load of the head, stored in the node, which is still private.
insHead(t) ==
  /\ At(t, "head")
  /\ th' = [th EXCEPT ![t].pc = "insert_cas", ![t].nxt = buckets[B(t)]]
  /\ node' = [node EXCEPT ![th[t].idx].next_idx = buckets[B(t)]]
  /\ UNCHANGED <<buckets, bucket_len, state, free, overflow, size>>

\* After a failed CAS: the load of state_, then the head it saw is stored.
insAgain(t) ==
  /\ At(t, "again")
  /\ IF state[B(t)] # 0 THEN Diverted(t)
     ELSE /\ Goto(t, "insert_cas")
          /\ node' = [node EXCEPT ![th[t].idx].next_idx = th[t].nxt]
          /\ UNCHANGED free
  /\ UNCHANGED <<buckets, bucket_len, state, overflow, size>>

insCas(t) ==
  /\ At(t, "insert_cas")
  /\ \/ /\ buckets[B(t)] = th[t].nxt
        /\ buckets' = [buckets EXCEPT ![B(t)] = th[t].idx]
        /\ th' = [th EXCEPT ![t].pc = "count", ![t].idx = Nil]
     \/ /\ buckets[B(t)] # th[t].nxt
        /\ th' = [th EXCEPT ![t].pc = "again", ![t].nxt = buckets[B(t)]]
        /\ UNCHANGED buckets
  /\ UNCHANGED <<node, bucket_len, state, free, overflow, size>>

insCount(t) ==
  /\ At(t, "count")
  /\ bucket_len' = [bucket_len EXCEPT ![B(t)] = @ + 1]
  /\ Goto(t, "full")
  /\ UNCHANGED <<node, buckets, state, free, overflow, size>>

\* size_ is counted, and a chain that has grown too long is moved.
insFull(t) ==
  /\ At(t, "full")
  /\ size' = size + 1
  /\ \/ /\ bucket_len[B(t)] >= Threshold
        /\ th' = [th EXCEPT ![t].pc = "treeify", ![t].then = "return"]
     \/ /\ bucket_len[B(t)] < Threshold
        /\ Return(t, TRUE)
  /\ UNCHANGED <<node, buckets, bucket_len, state, free, overflow>>

-----------------------------------------------------------------------------
(* treeify                                                                 *)

\* What the caller of treeify does next.
AfterTreeify(t) ==
  IF th[t].then = "overflow" THEN Goto(t, "overflow") ELSE Return(t, TRUE)

\* The CAS of state_ from 0 to 1; a thread that loses it is done.
treeClaim(t) ==
  /\ At(t, "treeify")
  /\ IF state[B(t)] = 0
     THEN state' = [state EXCEPT ![B(t)] = 1] /\ Goto(t, "move")
     ELSE AfterTreeify(t) /\ UNCHANGED state
  /\ UNCHANGED <<node, buckets, bucket_len, free, overflow, size>>

\* The copy under the lock; the nodes of the chain are not given back.
treeMove(t) ==
  /\ At(t, "move")
  /\ overflow' = overflow \cup {node[i].order_id : i \in Chain(B(t))}
  /\ state' = [state EXCEPT ![B(t)] = 2]
  /\ AfterTreeify(t)
  /\ UNCHANGED <<node, buckets, bucket_len, free, size>>

-----------------------------------------------------------------------------
(* find                                                                    *)

findHead(t) ==
  /\ At(t, "find_head")
  /\ th' = [th EXCEPT ![t].pc = "find_node", ![t].idx = buckets[B(t)]]
  /\ UNCHANGED shared

\* The end of the chain, a node of another bucket, the key, or a step on.
findNode(t) ==
  LET i == th[t].idx IN
  /\ At(t, "find_node")
  /\ IF i = Nil THEN Return(t, FALSE)
     ELSE IF node[i].bucket # B(t) THEN Goto(t, "find_head")
     ELSE IF node[i].order_id = th[t].key THEN Return(t, TRUE)
     ELSE th' = [th EXCEPT ![t].idx = node[i].next_idx]
  /\ UNCHANGED shared

-----------------------------------------------------------------------------
(* erase                                                                   *)

eraseHead(t) ==
  /\ At(t, "erase_head")
  /\ IF buckets[B(t)] = Nil THEN Return(t, TRUE)
     ELSE th' = [th EXCEPT ![t].pc = "erase_first", ![t].idx = buckets[B(t)]]
  /\ UNCHANGED shared

\* The key is in the first node, or further down.
eraseFirst(t) ==
  LET i == th[t].idx IN
  /\ At(t, "erase_first")
  /\ th' = [th EXCEPT ![t] =
       IF node[i].order_id = th[t].key
       THEN [@ EXCEPT !.pc = "erase_cas", !.nxt = node[i].next_idx]
       ELSE [@ EXCEPT !.pc = "erase_walk"]]
  /\ UNCHANGED shared

\* The CAS of the chain's head; after a failure the new head is looked at.
eraseCas(t) ==
  /\ At(t, "erase_cas")
  /\ \/ /\ buckets[B(t)] = th[t].idx
        /\ buckets' = [buckets EXCEPT ![B(t)] = th[t].nxt]
        /\ Goto(t, "erase_free")
     \/ /\ buckets[B(t)] # th[t].idx
        /\ th' = [th EXCEPT ![t].pc = "erase_again", ![t].idx = buckets[B(t)]]
        /\ UNCHANGED buckets
  /\ UNCHANGED <<node, bucket_len, state, free, overflow, size>>

\* (An empty chain would be indexed with UINT32_MAX, which is not followed.)
eraseAgain(t) ==
  LET i == th[t].idx IN
  /\ At(t, "erase_again") /\ i # Nil
  /\ th' = [th EXCEPT ![t] =
       IF node[i].order_id # th[t].key THEN [@ EXCEPT !.pc = "erase_head"]
       ELSE [@ EXCEPT !.pc = "erase_cas", !.nxt = node[i].next_idx]]
  /\ UNCHANGED shared

\* Further down: the predecessor idx and the node nxt after it.
eraseWalk(t) ==
  LET i == th[t].idx IN
  /\ At(t, "erase_walk")
  /\ IF node[i].bucket # B(t) THEN Goto(t, "erase_head")
     ELSE IF node[i].next_idx = Nil THEN Return(t, TRUE)
     ELSE th' = [th EXCEPT ![t].pc = "erase_next", ![t].nxt = node[i].next_idx]
  /\ UNCHANGED shared

eraseNext(t) ==
  LET n == th[t].nxt IN
  /\ At(t, "erase_next")
  /\ th' = [th EXCEPT ![t] =
       IF node[n].order_id = th[t].key
       THEN [@ EXCEPT !.pc = "erase_skip", !.nxt2 = node[n].next_idx]
       ELSE [@ EXCEPT !.pc = "erase_walk", !.idx = n]]
  /\ UNCHANGED shared

\* The CAS of the predecessor's link.
eraseSkip(t) ==
  LET i == th[t].idx IN
  /\ At(t, "erase_skip")
  /\ IF node[i].next_idx = th[t].nxt
     THEN /\ node' = [node EXCEPT ![i].next_idx = th[t].nxt2]
          /\ th' = [th EXCEPT ![t].pc = "erase_free", ![t].idx = th[t].nxt]
     ELSE Goto(t, "erase_head") /\ UNCHANGED node
  /\ UNCHANGED <<buckets, bucket_len, state, free, overflow, size>>

eraseFree(t) ==
  /\ At(t, "erase_free")
  /\ Freed(th[t].idx)
  /\ th' = [th EXCEPT ![t].pc = "erase_count", ![t].idx = Nil]
  /\ UNCHANGED <<buckets, bucket_len, state, overflow, size>>

eraseCount(t) ==
  /\ At(t, "erase_count")
  /\ bucket_len' = [bucket_len EXCEPT ![B(t)] = @ - 1]
  /\ size' = size - 1
  /\ Return(t, TRUE)
  /\ UNCHANGED <<node, buckets, state, free, overflow>>

-----------------------------------------------------------------------------
\* The constructor.
Init ==
  /\ node = [i \in Nodes |-> [order_id |-> NoKey, bucket |-> Nil,
                              next_idx |-> IF i = Capacity - 1 THEN Nil ELSE i + 1]]
  /\ buckets = [b \in Buckets |-> Nil]
  /\ bucket_len = [b \in Buckets |-> 0]
  /\ state = [b \in Buckets |-> 0]
  /\ free = [i \in 1 .. Capacity |-> i - 1]
  /\ overflow = {} /\ size = 0
  /\ th = [t \in Threads |-> Idle]

Step(t) ==
  \/ inOverflow(t) \/ return(t)
  \/ insLen(t) \/ insAlloc(t) \/ insFill(t) \/ insRecheck(t) \/ insHead(t)
  \/ insAgain(t) \/ insCas(t) \/ insCount(t) \/ insFull(t)
  \/ treeClaim(t) \/ treeMove(t)
  \/ findHead(t) \/ findNode(t)
  \/ eraseHead(t) \/ eraseFirst(t) \/ eraseCas(t) \/ eraseAgain(t)
  \/ eraseWalk(t) \/ eraseNext(t) \/ eraseSkip(t)
  \/ eraseFree(t) \/ eraseCount(t)

Next ==
  \E t \in Threads :
    Step(t) \/ \E op \in {"insert", "find", "erase"}, k \in Keys : begin(t, op, k)

Spec == Init /\ [][Next]_vars

-----------------------------------------------------------------------------
(* Properties.                                                             *)

\* A find of a key that is in the index, read off the chains and the overflow
\* map, when the call begins and when it answers, finds it.  No call on the
\* same key overlaps it, so that the key is there all the time: calls on its
\* neighbours in the chain must not hide it.
FindSeesPresent ==
  \A t \in Threads :
    /\ At(t, "done") /\ th[t].op = "find"
    /\ th[t].was /\ th[t].key \in Present
    => th[t].ok

=============================================================================
