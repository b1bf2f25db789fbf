---------------------- MODULE MatchingEngine_crossing -----------------------
(***************************************************************************)
(* A book of the matching engine is crossed only by orders of one user.    *)
(***************************************************************************)
EXTENDS MatchingEngine_proofs

\* A call whose order has nothing left and is not marked FILLED was submitted
\* with quantity 0: the loop marks what it exhausts.
ExhaustedIsFilled ==
  \A t \in Threads :
    call[t] # NoOrder /\ call[t].order.remaining_qty = 0
      => call[t].order.status = "FILLED" \/ call[t].order.original_qty = 0

\* A step that adds no order and keeps what identifies the others cannot
\* cross a book.
LEMMA ShrinkNotCrossing ==
  ASSUME CrossedOnlyBySelf,
         \A r \in Refs : resting'[r] # NoOrder =>
           /\ resting[r] # NoOrder
           /\ resting'[r].locate = resting[r].locate
           /\ resting'[r].side = resting[r].side
           /\ resting'[r].price = resting[r].price
           /\ resting'[r].user_id = resting[r].user_id
           /\ resting'[r].original_qty = resting[r].original_qty
  PROVE  CrossedOnlyBySelf'
BY DEF CrossedOnlyBySelf, InBook

\* The order at the front of the queue is the best one there is: if the loop
\* stops, no order of another user on the other side crosses the taker.
LEMMA LoopDoneNoCross ==
  ASSUME TypeOK, NEW o \in Order, LoopDone(o), o.remaining_qty # 0,
         NEW s \in Eligible(o)
  PROVE  ~Crosses(o, resting[s])
<1>1. PICK r \in Refs : IsBest(r, o) /\ ~Crosses(o, resting[r])
  BY DEF LoopDone
<1>2. r \in Eligible(o) /\ s \in InBook /\ r \in InBook
  BY <1>1 DEF IsBest, Eligible, SideOf
<1>3. /\ resting[r] \in Order /\ resting[s] \in Order
      /\ resting[r].side = Opposite(o.side) /\ resting[s].side = Opposite(o.side)
  BY <1>2, OrderTypes DEF Eligible, SideOf
<1>4. /\ resting[r].price \in Nat /\ resting[s].price \in Nat /\ o.price \in Nat
      /\ o.side \in Sides
  BY <1>3 DEF Order
<1>5. s = r \/ Ahead(resting[r], resting[s])
  BY <1>1 DEF IsBest
<1> QED
  BY <1>1, <1>3, <1>4, <1>5 DEF Crosses, Ahead, Opposite, Sides

\* An order that comes to rest crosses nobody else's order.
LEMMA RestNotCrossing ==
  ASSUME TypeOK, ExhaustedIsFilled, CrossedOnlyBySelf, NEW t \in Threads, finishRest(t)
  PROVE  CrossedOnlyBySelf'
<1> DEFINE o == call[t].order
           n == call[t].ref
<1>1. /\ call[t] # NoOrder /\ n \in Refs /\ o \in Order
      /\ LoopDone(o) /\ o.status # "FILLED"
  BY OrderTypes DEF finishRest, AfterLoop
<1>2. CASE UNCHANGED resting
  BY <1>2 DEF CrossedOnlyBySelf, InBook
<1>3. CASE resting' = [resting EXCEPT ![n] = o]
  <2> SUFFICES ASSUME NEW b \in Refs, NEW a \in Refs,
                      resting'[b] # NoOrder, resting'[a] # NoOrder,
                      resting'[b].side = "BUY", resting'[a].side = "SELL",
                      resting'[b].locate = resting'[a].locate,
                      resting'[b].price >= resting'[a].price,
                      resting'[b].user_id # resting'[a].user_id,
                      resting'[b].original_qty # 0, resting'[a].original_qty # 0
               PROVE  FALSE
    BY DEF CrossedOnlyBySelf, InBook
  <2>1. /\ resting'[n] = o /\ \A r \in Refs \ {n} : resting'[r] = resting[r]
    BY <1>1, <1>3 DEF TypeOK
  <2>2. o.original_qty # 0 => o.remaining_qty # 0
    BY <1>1 DEF ExhaustedIsFilled
  <2>3. CASE b # n /\ a # n
    BY <2>1, <2>3 DEF CrossedOnlyBySelf, InBook
  <2>4. CASE b = n
    <3>1. a # n /\ resting[a] = resting'[a] /\ resting'[b] = o
      BY <2>1, <2>4
    <3>2. a \in Eligible(o) /\ Crosses(o, resting[a])
      BY <3>1 DEF Eligible, SideOf, InBook, Opposite, Crosses
    <3> QED
      BY <1>1, <2>2, <3>1, <3>2, LoopDoneNoCross
  <2>5. CASE a = n
    <3>1. b # n /\ resting[b] = resting'[b] /\ resting'[a] = o
      BY <2>1, <2>5
    <3>2. resting[b].price \in Nat /\ o.price \in Nat
      BY <1>1, <3>1, OrderTypes DEF InBook, Order
    <3>3. b \in Eligible(o) /\ Crosses(o, resting[b])
      BY <3>1, <3>2 DEF Eligible, SideOf, InBook, Opposite, Crosses
    <3> QED
      BY <1>1, <2>2, <3>1, <3>3, LoopDoneNoCross
  <2> QED
    BY <2>3, <2>4, <2>5
<1> QED
  BY <1>2, <1>3 DEF finishRest, addOrder

\* No other step adds an order to a book.
LEMMA OthersNotCrossing ==
  ASSUME TypeOK, CrossedOnlyBySelf, NEW t \in Threads,
         \/ finishFilled(t) \/ finishDropped(t) \/ Request(t)
         \/ \E r \in Refs : matchOrder(t, r)
  PROVE  CrossedOnlyBySelf'
<1> DEFINE Same(r) == /\ resting[r] # NoOrder
                      /\ resting'[r].locate = resting[r].locate
                      /\ resting'[r].side = resting[r].side
                      /\ resting'[r].price = resting[r].price
                      /\ resting'[r].user_id = resting[r].user_id
                      /\ resting'[r].original_qty = resting[r].original_qty
<1> SUFFICES ASSUME NEW r \in Refs, resting'[r] # NoOrder PROVE Same(r)
  BY ShrinkNotCrossing
<1>1. resting \in [Refs -> Order \cup {NoOrder}]
  BY DEF TypeOK
<1>2. CASE UNCHANGED resting
  BY <1>2
<1>3. CASE \E s \in Refs : resting' = removeOrder(resting, s)
  BY <1>1, <1>3 DEF removeOrder
<1>4. ASSUME NEW s \in InBook, NEW q, NEW st,
             \/ resting' = [resting EXCEPT ![s] = reduceOrderQty(resting[s], q, st)]
             \/ resting' = [resting EXCEPT ![s] = reduceQtyCancel(resting[s], q)]
      PROVE  Same(r)
  <2>1. resting[s] \in Order
    BY OrderTypes
  <2>2. s \in Refs /\ resting[s] # NoOrder
    BY DEF InBook
  <2> DEFINE SameAs(n) == /\ n.locate = resting[s].locate /\ n.side = resting[s].side
                          /\ n.price = resting[s].price
                          /\ n.user_id = resting[s].user_id
                          /\ n.original_qty = resting[s].original_qty
  <2>3. SameAs(reduceOrderQty(resting[s], q, st)) /\ SameAs(reduceQtyCancel(resting[s], q))
    BY <2>1 DEF reduceOrderQty, reduceQtyCancel, Order
  <2>4. CASE r # s
    BY <1>1, <1>4, <2>2, <2>4
  <2>5. CASE r = s
    <3>1. SameAs(resting'[s])
      BY <1>1, <1>4, <2>2, <2>3
    <3> QED
      BY <2>2, <2>5, <3>1
  <2> QED
    BY <2>4, <2>5
<1> HIDE DEF Same
<1>5. CASE finishFilled(t) \/ finishDropped(t)
  BY Zenon, <1>2, <1>5 DEF finishFilled, finishDropped
<1>6. ASSUME NEW m \in Refs, matchOrder(t, m) PROVE Same(r)
  <2>1. m \in InBook /\ \E q \in Nat : MatchEffect(t, m, q)
    BY <1>6, MatchFacts
  <2>2. PICK q \in Nat : MatchEffect(t, m, q)
    BY <2>1
  <2>3. CASE resting' = removeOrder(resting, m)
    BY <1>3, <2>3
  <2>4. CASE resting' = [resting EXCEPT ![m] =
                           reduceOrderQty(resting[m], q, "PARTIALLY_FILLED")]
    BY Zenon, <1>4, <2>1, <2>4
  <2> QED
    BY <2>2, <2>3, <2>4 DEF MatchEffect
<1>7. CASE Request(t)
  <2>1. ASSUME NEW loc \in LocateInputs, NEW ref \in Refs, NEW user,
               \/ processCancel(t, loc, ref, user)
               \/ \E shares \in Quantities :
                    processCancelShares(t, loc, ref, shares, user)
        PROVE  Same(r)
    BY ZenonT(40), <1>2, <1>3, <1>4, <2>1, CancelFacts DEF CancelEffect, Owned
  <2>2. ASSUME NEW loc \in LocateInputs, NEW old \in Refs, NEW new \in Refs \ {old},
               NEW price \in Prices, NEW quantity \in Quantities, NEW user,
               processReplace(t, loc, old, new, price, quantity, user)
        PROVE  Same(r)
    BY <1>2, <1>3, <2>2, ReplaceFacts DEF ReplaceEffect
  <2>3. ASSUME NEW loc, NEW ref, NEW side, NEW price, NEW quantity, NEW tif, NEW user,
               processAdd(t, loc, ref, side, price, quantity, user, tif)
        PROVE  Same(r)
    BY <1>2, <2>3 DEF processAdd
  <2> QED
    BY <1>7, <2>1, <2>2, <2>3 DEF Request
<1> QED
  BY <1>5, <1>6, <1>7

\* A step changes the order of at most one call, to a new one or by a trade.
LEMMA CallSteps ==
  ASSUME TypeOK, NEW t \in Threads, Request(t) \/ Proceed(t)
  PROVE  \/ UNCHANGED call
         \/ call' = [call EXCEPT ![t] = NoOrder]
         \/ \E c \in Call : /\ call' = [call EXCEPT ![t] = c]
                            /\ c.order.remaining_qty = c.order.original_qty
         \/ \E q \in Nat, r \in Refs : call[t] # NoOrder /\ MatchEffect(t, r, q)
<1>1. CASE Proceed(t)
  BY Zenon, <1>1, MatchFacts
  DEF Proceed, finishFilled, finishDropped, finishRest, Return
<1>2. CASE Request(t)
  <2>1. ASSUME NEW loc \in LocateInputs, NEW ref \in Refs \cup {Zero},
               NEW side \in Sides \cup {"INVALID"}, NEW price \in Prices,
               NEW quantity \in Quantities, NEW tif \in Tifs, NEW user \in UsersOf[ref],
               processAdd(t, loc, ref, side, price, quantity, user, tif)
        PROVE  \/ UNCHANGED call
               \/ \E c \in Call : /\ call' = [call EXCEPT ![t] = c]
                                  /\ c.order.remaining_qty = c.order.original_qty
    <3>1. CASE AddError(loc, ref, side, price, quantity, user, tif) # "NONE"
      BY Zenon, <2>1, <3>1 DEF processAdd
    <3>2. CASE AddError(loc, ref, side, price, quantity, user, tif) = "NONE"
      <4> DEFINE o == NewOrder(loc, ref, side, EffectivePrice(tif, side, price),
                               quantity, user)
      <4>1. o \in Order /\ ref \in Refs /\ tif \in {"DAY", "IOC", "FOK"}
        BY Zenon, <3>2, AddAccepted, NewOrderType DEF TypeOK
      <4>2. o.remaining_qty = o.original_qty
        BY Zenon DEF NewOrder
      <4>3. call' = [call EXCEPT ![t] = [ref |-> ref, tif |-> tif, order |-> o]]
        BY Zenon, <2>1, <3>2 DEF processAdd
      <4> HIDE DEF o
      <4>4. [ref |-> ref, tif |-> tif, order |-> o] \in Call
        BY Zenon, <4>1 DEF Call
      <4> QED
        BY Zenon, <4>2, <4>3, <4>4
    <3> QED BY <3>1, <3>2
  <2>2. ASSUME NEW loc \in LocateInputs, NEW old \in Refs, NEW new \in Refs \ {old},
               NEW price \in Prices, NEW quantity \in Quantities, NEW user,
               processReplace(t, loc, old, new, price, quantity, user)
        PROVE  \/ UNCHANGED call
               \/ \E c \in Call : /\ call' = [call EXCEPT ![t] = c]
                                  /\ c.order.remaining_qty = c.order.original_qty
    <3>1. CASE UNCHANGED call
      BY <3>1
    <3>2. CASE old \in InBook /\ ReplaceEffect(t, loc, old, new, price, quantity)
      <4> DEFINE o == NewOrder(loc, new, resting[old].side, price, quantity, new)
      <4>0. /\ resting[old].side \in Sides /\ next_sequence \in Nat /\ new \in Ids
            /\ loc \in Nat /\ price \in Nat /\ quantity \in Nat
        BY <3>2, OrderTypes, EngineAssumption DEF TypeOK, Order, Ids
      <4>1. o \in Order
        BY <4>0, NewOrderType
      <4>2. o.remaining_qty = o.original_qty
        BY DEF NewOrder
      <4>3. call' = [call EXCEPT ![t] = [ref |-> new, tif |-> "DAY", order |-> o]]
        BY <3>2 DEF ReplaceEffect
      <4> HIDE DEF o
      <4>4. [ref |-> new, tif |-> "DAY", order |-> o] \in Call
        BY <4>1 DEF Call
      <4> QED
        BY Zenon, <4>2, <4>3, <4>4
    <3> QED
      BY Zenon, <2>2, <3>1, <3>2, ReplaceFacts
  <2>3. ASSUME NEW loc \in LocateInputs, NEW ref \in Refs, NEW user,
               \/ processCancel(t, loc, ref, user)
               \/ \E shares \in Quantities :
                    processCancelShares(t, loc, ref, shares, user)
        PROVE  UNCHANGED call
    BY Zenon, <2>3, CancelFacts
  <2> QED
    BY Zenon, <1>2, <2>1, <2>2, <2>3 DEF Request
<1> QED BY <1>1, <1>2

\* The loop never leaves an exhausted order unmarked.
LEMMA NextExhausted ==
  ASSUME TypeOK, ExhaustedIsFilled, NEW t \in Threads, Request(t) \/ Proceed(t)
  PROVE  ExhaustedIsFilled'
<1>1. call \in [Threads -> Call \cup {NoOrder}]
  BY DEF TypeOK
<1>2. CASE UNCHANGED call
  BY <1>2 DEF ExhaustedIsFilled
<1>3. CASE call' = [call EXCEPT ![t] = NoOrder]
  BY <1>1, <1>3 DEF ExhaustedIsFilled
<1>4. ASSUME NEW c \in Call, call' = [call EXCEPT ![t] = c],
             c.order.remaining_qty = c.order.original_qty
      PROVE  ExhaustedIsFilled'
  BY <1>1, <1>4 DEF ExhaustedIsFilled
<1>5. ASSUME NEW q \in Nat, NEW r \in Refs, call[t] # NoOrder, MatchEffect(t, r, q)
      PROVE  ExhaustedIsFilled'
  <2> DEFINE o == call[t].order
             st == IF o.remaining_qty = q THEN "FILLED" ELSE "PARTIALLY_FILLED"
  <2>1. o \in Order /\ call[t] \in Call
    BY <1>5, OrderTypes
  <2>2. /\ reduceOrderQty(o, q, st).remaining_qty = o.remaining_qty - q
        /\ reduceOrderQty(o, q, st).status = st
    BY <2>1 DEF reduceOrderQty, Order
  <2>3. call'[t].order = reduceOrderQty(o, q, st)
    BY <1>1, <1>5, <2>1 DEF MatchEffect, Call
  <2>4. \A u \in Threads \ {t} : call'[u] = call[u]
    BY <1>1, <1>5 DEF MatchEffect
  <2>5. o.remaining_qty - q = 0 => st = "FILLED"
    BY <2>1 DEF Order
  <2> QED
    BY <2>2, <2>3, <2>4, <2>5 DEF ExhaustedIsFilled
<1> QED
  BY <1>2, <1>3, <1>4, <1>5, CallSteps

\* In every reachable state a book is crossed only by two orders of one user,
\* or by an order submitted with quantity 0.
THEOREM OnlySelfCrosses == Spec => []CrossedOnlyBySelf
<1> DEFINE Inv == TypeOK /\ ExhaustedIsFilled /\ CrossedOnlyBySelf
<1>1. Init => Inv
  BY InitType DEF Init, ExhaustedIsFilled, CrossedOnlyBySelf, InBook
<1>2. Inv /\ [Next]_vars => Inv'
  <2> SUFFICES ASSUME Inv, [Next]_vars PROVE Inv'
    OBVIOUS
  <2>1. TypeOK'
    BY NextType
  <2>2. ASSUME NEW t \in Threads, Request(t) \/ Proceed(t)
        PROVE  ExhaustedIsFilled' /\ CrossedOnlyBySelf'
    BY <2>2, NextExhausted, OthersNotCrossing, RestNotCrossing DEF Proceed
  <2>3. ASSUME UNCHANGED vars PROVE ExhaustedIsFilled' /\ CrossedOnlyBySelf'
    BY <2>3 DEF vars, ExhaustedIsFilled, CrossedOnlyBySelf, InBook
  <2>4. ExhaustedIsFilled' /\ CrossedOnlyBySelf'
    BY <2>2, <2>3 DEF Next
  <2> QED
    BY <2>1, <2>4
<1> QED
  BY <1>1, <1>2, PTL DEF Spec

=============================================================================
