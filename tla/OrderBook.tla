----------------------------- MODULE OrderBook ------------------------------
(***************************************************************************)
(* OrderBook (src/src/order_book.cpp): the books of all locates over one   *)
(* shared OrderPool and one shared index.  A price level is a doubly       *)
(* linked list threaded through the pool slots.                            *)
(*                                                                         *)
(* Operations are atomic: calls on one book are serial by contract, and    *)
(* calls on different books touch different slots and levels.  The pool    *)
(* and the index are concurrent objects of their own (modules OrderPool    *)
(* and OrderMap); here allocate and deallocate are the stack they promise. *)
(***************************************************************************)
EXTENDS BookPriority, FiniteSetsExt, SequencesExt

CONSTANTS
  Slots,       \* the slots of the OrderPool
  Nil,         \* UINT32_MAX as an index, and the null pointer
  Locates,     \* the books
  Prices,      \* prices of orders
  Quantities,  \* quantities of orders and of reductions
  QtyMod,      \* number of values of a uint32_t quantity
  MaxOrders    \* bound on the number of orders ever added

ASSUME BookAssumption ==
  /\ Nil \notin Slots /\ IsFiniteSet(Slots) /\ Slots \subseteq Nat
  /\ Locates \subseteq Nat /\ Prices \subseteq Nat
  /\ QtyMod \in Nat \ {0} /\ Quantities \subseteq 0 .. QtyMod - 1
  /\ MaxOrders \in Nat

VARIABLES
  storage,   \* storage_: per slot, reference, order and the two links
  level,     \* bids_ and asks_ per locate; a level that is erased is Empty
  index,     \* OrderMap: reference to slot, Nil when absent
  free,      \* the pool's free list
  added      \* orders added so far; the sequence numbers of the orders

vars == <<storage, level, index, free, added>>

LevelKeys == Locates \X Sides \X Prices

Empty == [head_idx |-> Nil, tail_idx |-> Nil, count |-> 0, total_qty |-> 0]

KeyOf(o) == <<o.locate, o.side, o.price>>

Wrap(n) == n % QtyMod

-----------------------------------------------------------------------------
(* Reads.                                                                  *)

\* The slots of a level as the loops visit them: head_idx, then next_idx
\* until UINT32_MAX (at most as many steps as there are slots).
Walk(l) ==
  LET at[k \in 1 .. Cardinality(Slots) + 1] ==
        IF k = 1 THEN l.head_idx
        ELSE LET s == at[k - 1] IN IF s = Nil THEN Nil ELSE storage[s].next_idx
  IN  SelectSeq([k \in 1 .. Cardinality(Slots) + 1 |-> at[k]],
                LAMBDA s : s # Nil)

\* The prices of a side that have a level, in the order the std::map iterates.
LevelPrices(loc, side) == {p \in Prices : level[<<loc, side, p>>].count > 0}

\* Fault: bids sorted like asks.
Better_ascending(side, p, q) == p < q

Better(side, p, q) == IF side = "BUY" THEN p > q ELSE p < q

FrontPrice(side, P) == CHOOSE p \in P : \A q \in P \ {p} : Better(side, p, q)

FirstOther(l, exclude_user_id) ==
  LET w == SelectSeq(Walk(l), LAMBDA s : storage[s].order.user_id # exclude_user_id)
  IN  IF w = <<>> THEN Nil ELSE w[1]

\* getBestBid / getBestAsk(exclude_user_id).
getBest(loc, side, exclude_user_id) ==
  LET found == {p \in LevelPrices(loc, side) :
                  FirstOther(level[<<loc, side, p>>], exclude_user_id) # Nil}
  IN  IF found = {} THEN Nil
      ELSE FirstOther(level[<<loc, side, FrontPrice(side, found)>>], exclude_user_id)

\* getTopOfBook, one side: price and cached volume of the front level.
getTopOfBook(loc, side) ==
  LET P == LevelPrices(loc, side)
      p == FrontPrice(side, P)
  IN  IF P = {} THEN [price |-> 0, volume |-> 0]
      ELSE [price |-> p, volume |-> level[<<loc, side, p>>].total_qty]

LevelQty(l) ==
  LET w == Walk(l)
  IN  MapThenSumSet(LAMBDA k : storage[w[k]].order.remaining_qty, DOMAIN w)

\* Fault: a level at the limit itself is left out.
Reached_strict(side, price, p) == IF side = "BUY" THEN p < price ELSE p > price

\* A level at p is within the limit of an order (no break from the loop).
Reached(side, price, p) == IF side = "BUY" THEN p <= price ELSE p >= price

\* availableQty(side, price) for an incoming order.
availableQty(loc, side, price) ==
  LET opp == Opposite(side)
      inRange == {p \in LevelPrices(loc, opp) : Reached(side, price, p)}
  IN  Wrap(MapThenSumSet(LAMBDA p : LevelQty(level[<<loc, opp, p>>]), inRange))

-----------------------------------------------------------------------------
(* Operations.                                                             *)

addOrder(r, o) ==
  LET l == level[KeyOf(o)]
  IN
  /\ added < MaxOrders
  /\ index[r] = Nil
  /\ added' = added + 1
  /\ IF free = <<>>               \* allocate returns nullptr
     THEN UNCHANGED <<storage, level, index, free>>
     ELSE LET idx == Head(free) IN
          /\ free' = Tail(free)
          /\ storage' = [s \in Slots |->
               IF s = idx
               THEN [ref |-> r, order |-> o, next_idx |-> Nil,
                     prev_idx |-> IF l.count = 0 THEN Nil ELSE l.tail_idx]
               ELSE IF l.count # 0 /\ s = l.tail_idx
                    THEN [storage[s] EXCEPT !.next_idx = idx]
                    ELSE storage[s]]
          /\ level' = [level EXCEPT ![KeyOf(o)] =
               [head_idx  |-> IF l.count = 0 THEN idx ELSE l.head_idx,
                tail_idx  |-> idx,
                count     |-> l.count + 1,
                total_qty |-> Wrap(l.total_qty + o.remaining_qty)]]
          /\ index' = [index EXCEPT ![r] = idx]

\* reduceOrderQty (a trade) and reduceQtyCancel (a partial cancel).
Reduce(s, amount, traded) ==
  /\ amount <= storage[s].order.remaining_qty
  /\ storage' = [storage EXCEPT ![s].order.remaining_qty = @ - amount,
                                ![s].order.filled_qty = @ + traded]
  /\ level' = [level EXCEPT ![KeyOf(storage[s].order)].total_qty = Wrap(@ - amount)]
  /\ UNCHANGED <<index, free, added>>

reduceOrderQty(s, amount) == Reduce(s, amount, amount)

reduceQtyCancel(s, amount) == Reduce(s, amount, 0)

\* Fault: the tail is not moved back.
Unlinked_keepsTail(l, idx, e) ==
  [head_idx  |-> IF l.head_idx = idx THEN e.next_idx ELSE l.head_idx,
   tail_idx  |-> l.tail_idx,
   count     |-> l.count - 1,
   total_qty |-> Wrap(l.total_qty - e.order.remaining_qty)]

\* What removeOrder leaves of a level whose slot idx held the record e.
Unlinked(l, idx, e) ==
  [head_idx  |-> IF l.head_idx = idx THEN e.next_idx ELSE l.head_idx,
   tail_idx  |-> IF l.tail_idx = idx THEN e.prev_idx ELSE l.tail_idx,
   count     |-> l.count - 1,
   total_qty |-> Wrap(l.total_qty - e.order.remaining_qty)]

\* Fault: the index keeps the entry.
erase_skipped(r) == UNCHANGED index

erase(r) == index' = [index EXCEPT ![r] = Nil]

\* The slot keeps its contents: deallocate only pushes it on the free list.
removeOrder(idx) ==
  LET e == storage[idx]
      l == level[KeyOf(e.order)]
  IN
  /\ storage' = [s \in Slots |->
       [storage[s] EXCEPT
          !.next_idx = IF s = e.prev_idx THEN e.next_idx ELSE @,
          !.prev_idx = IF s = e.next_idx THEN e.prev_idx ELSE @]]
  /\ level' = [level EXCEPT ![KeyOf(e.order)] =
                 IF l.count = 1 THEN Empty ELSE Unlinked(l, idx, e)]
  /\ erase(e.ref)
  /\ free' = <<idx>> \o free
  /\ UNCHANGED added

\* removeOrder(order_id, user_id), what a cancel calls.
removeById(r, user) ==
  IF index[r] # Nil /\ storage[index[r]].order.user_id = user
  THEN removeOrder(index[r])
  ELSE UNCHANGED vars

-----------------------------------------------------------------------------
Blank == [locate |-> 0, side |-> "BUY", price |-> 0, original_qty |-> 0,
          remaining_qty |-> 0, filled_qty |-> 0, user_id |-> Zero,
          sequence |-> 0, status |-> "OPEN"]

Init ==
  /\ storage = [s \in Slots |-> [ref |-> Zero, order |-> Blank,
                                 prev_idx |-> Nil, next_idx |-> Nil]]
  /\ level = [k \in LevelKeys |-> Empty]
  /\ index = [r \in Refs |-> Nil]
  /\ free = SetToSortSeq(Slots, <)
  /\ added = 0

\* An order as it comes to rest, f of its quantity q traded on arrival.
Arriving(loc, side, p, q, f, u) ==
  [locate |-> loc, side |-> side, price |-> p, original_qty |-> q,
   remaining_qty |-> q - f, filled_qty |-> f, user_id |-> u, sequence |-> added,
   status |-> IF f = 0 THEN "OPEN" ELSE "PARTIALLY_FILLED"]

\* The engine hands findOrder or getBest results to the mutating operations.
Next ==
  \/ \E r \in Refs, loc \in Locates, side \in Sides, p \in Prices,
        q \in Quantities, u \in Users :
       \E f \in {0} \cup 0 .. q - 1 :
         addOrder(r, Arriving(loc, side, p, q, f, u))
  \/ \E r \in Refs, u \in Users : removeById(r, u)
  \/ \E r \in Refs :
       /\ index[r] # Nil
       /\ \/ removeOrder(index[r])
          \/ \E q \in Quantities : \/ reduceOrderQty(index[r], q)
                                   \/ reduceQtyCancel(index[r], q)

Spec == Init /\ [][Next]_vars

-----------------------------------------------------------------------------
(* Properties.                                                             *)

Used == Slots \ ToSet(free)

\* Slots, levels and index hold values of their types.
TypeOK ==
  /\ free \in Seq(Slots)
  /\ index \in [Refs -> Slots \cup {Nil}]
  /\ \A s \in Slots : {storage[s].prev_idx, storage[s].next_idx} \subseteq Slots \cup {Nil}
  /\ \A s \in Used : storage[s].order \in Order /\ storage[s].ref \in Refs
  /\ \A k \in LevelKeys : level[k].count \in Nat /\ level[k].total_qty \in 0 .. QtyMod - 1

\* The index and the pool agree: the index maps the references in the books
\* one to one onto the slots that are not free, and no reference or link
\* leaves the pool.
IndexMatchesPool ==
  /\ TypeOK
  /\ \A r \in Refs : index[r] # Nil => index[r] \in Used /\ storage[index[r]].ref = r
  /\ \A s \in Used : index[storage[s].ref] = s

\* Every level is a well-formed list of exactly the live orders of its book,
\* side and price: the links agree in both directions, head and tail are its
\* ends, count its length and total_qty its quantity (modulo 2^32).
LevelsAreLists ==
  \A k \in LevelKeys :
    LET l == level[k]
        w == Walk(l)
        n == Len(w)
    IN  /\ n = l.count
        /\ {w[i] : i \in 1 .. n} = {s \in Used : KeyOf(storage[s].order) = k}
        /\ \A i \in 1 .. n :
             /\ storage[w[i]].prev_idx = IF i = 1 THEN Nil ELSE w[i - 1]
             /\ storage[w[i]].next_idx = IF i = n THEN Nil ELSE w[i + 1]
        /\ l.tail_idx = IF n = 0 THEN Nil ELSE w[n]
        /\ l.total_qty = Wrap(LevelQty(l))

\* The resting orders by reference, as the engine sees them through findOrder.
restingOrders ==
  [r \in Refs |-> IF index[r] = Nil THEN NoOrder ELSE storage[index[r]].order]

\* The set of orders a walk for user u chooses from.
OthersOn(loc, side, u) ==
  {r \in Refs : /\ restingOrders[r] # NoOrder
                /\ restingOrders[r].locate = loc /\ restingOrders[r].side = side
                /\ restingOrders[r].user_id # u}

\* getBestBid / getBestAsk return the order that price-time priority puts ahead
\* of every other order of the side that is not the caller's own, whatever was
\* cancelled or filled before, and a null pointer only when there is none.
BestIsFirstByPriority ==
  \A loc \in Locates, side \in Sides, u \in Users :
    LET best == getBest(loc, side, u)
        S    == OthersOn(loc, side, u)
    IN  IF S = {} THEN best = Nil
        ELSE \E r \in S : /\ index[r] = best
                          /\ \A s \in S \ {r} : Ahead(restingOrders[r], restingOrders[s])

\* The quantities read from the lists are those of the resting orders: the
\* fill-or-kill precheck and the top of book see every order once.
ReadsMatchOrders ==
  \A loc \in Locates, side \in Sides :
    LET onSide(S) == {r \in Refs : /\ restingOrders[r] # NoOrder
                                   /\ restingOrders[r].locate = loc
                                   /\ restingOrders[r].side = side
                                   /\ restingOrders[r].price \in S}
        qty(S) == Wrap(MapThenSumSet(LAMBDA r : restingOrders[r].remaining_qty,
                                     onSide(S)))
        tob == getTopOfBook(loc, side)
    IN  /\ \A p \in Prices :
             availableQty(loc, Opposite(side), p)
               = qty({x \in Prices : IF side = "SELL" THEN x <= p ELSE x >= p})
        /\ onSide(Prices) # {} => onSide({tob.price}) # {}
        /\ tob.volume = qty({tob.price})
        /\ \A p \in Prices : Better(side, p, tob.price) => onSide({p}) = {}

Abstract == INSTANCE BookSpec WITH resting <- restingOrders

\* The linked lists implement the abstract books: seen through the index, an
\* operation changes the order it is called for and no other.
ImplementsBook == Abstract!Spec

=============================================================================
