----------------------- MODULE MatchingEngine_proofs ------------------------
(***************************************************************************)
(* The types of the matching engine, and what its compound actions do to   *)
(* the state, for any number of orders, books, threads, prices, quantities.*)
(***************************************************************************)
EXTENDS MatchingEngine, TLAPS

-----------------------------------------------------------------------------
(* Types of what the actions build.                                        *)

\* A new order is an order.
LEMMA NewOrderType ==
  ASSUME NEW loc \in Nat, NEW ref, NEW side \in Sides, NEW price \in Nat,
         NEW quantity \in Nat, NEW user \in Ids, next_sequence \in Nat
  PROVE  NewOrder(loc, ref, side, price, quantity, user) \in Order
BY DEF NewOrder, Order

\* A trade of at most the remaining quantity keeps an order an order.
LEMMA ReduceType ==
  ASSUME NEW o \in Order, NEW q \in Nat, q <= o.remaining_qty,
         NEW status \in {"OPEN", "PARTIALLY_FILLED", "FILLED"}
  PROVE  /\ reduceOrderQty(o, q, status) \in Order
         /\ reduceQtyCancel(o, q) \in Order
<1>1. /\ o.remaining_qty \in Nat /\ o.filled_qty \in Nat
      /\ o.remaining_qty - q \in Nat /\ o.filled_qty + q \in Nat
  BY DEF Order
<1>2. reduceQtyCancel(o, q) \in Order
  BY <1>1 DEF reduceQtyCancel, Order
<1>3. reduceOrderQty(o, q, status) \in Order
  BY Zenon, <1>1 DEF reduceOrderQty, Order
<1> QED BY <1>2, <1>3

\* Submitting and closing references keeps the ledger a ledger.
LEMMA LedgerType ==
  ASSUME ledger \in [Refs -> Account], NEW ref \in Refs, NEW side \in Sides,
         NEW tif \in {"DAY", "IOC", "FOK"}, NEW quantity \in Nat
  PROVE  Submitted(ref, side, tif, quantity) \in [Refs -> Account]
BY DEF Submitted, Account

\* Closing an account leaves every entry of the ledger an account.
LEMMA CloseType ==
  ASSUME NEW b \in [Refs -> Account], NEW ref \in Refs
  PROVE  Close(b, ref) \in [Refs -> Account]
BY DEF Close, Account

\* Booking a trade of q leaves an account an account.
LEMMA BookedType ==
  ASSUME NEW a \in Account, NEW q \in Nat, NEW gone \in BOOLEAN
  PROVE  Booked(a, q, gone) \in Account
<1>1. a.traded + q \in Nat /\ a.phase \in {"new", "live", "done"}
  BY DEF Account
<1>2. CASE gone
  BY Zenon, <1>1, <1>2 DEF Booked, Account
<1>3. CASE ~gone
  BY Zenon, <1>1, <1>3 DEF Booked, Account
<1> QED BY <1>2, <1>3

\* A logged call keeps the log a ring.
LEMMA AppendType ==
  ASSUME TypeOK, NEW e, append(e)
  PROVE  wal'.total \in Nat /\ DOMAIN wal'.entries = 0 .. WalCap - 1
BY DEF TypeOK, append

\* What processAdd has checked when it goes past its early returns.
LEMMA AddAccepted ==
  ASSUME NEW loc \in LocateInputs, NEW ref \in Refs \cup {Zero},
         NEW side \in Sides \cup {"INVALID"}, NEW price \in Prices,
         NEW quantity \in Quantities, NEW tif \in Tifs, NEW user \in UsersOf[ref],
         AddError(loc, ref, side, price, quantity, user, tif) = "NONE"
  PROVE  /\ loc \in Nat /\ ref \in Refs /\ side \in Sides /\ user \in Ids
         /\ quantity \in Nat /\ quantity # 0 /\ tif \in {"DAY", "IOC", "FOK"}
         /\ EffectivePrice(tif, side, price) \in Nat
<1>1. /\ side # "INVALID" /\ quantity # 0 /\ user # Zero /\ ref # Zero
  BY DEF AddError
<1>2. user \in Ids \cup {Zero}
  BY EngineAssumption
<1> QED
  BY <1>1, <1>2, EngineAssumption DEF EffectivePrice, isMarket

-----------------------------------------------------------------------------
(* TypeOK is inductive.                                                    *)

\* The books and the calls hold orders, whichever a step looks at.
LEMMA OrderTypes ==
  ASSUME TypeOK
  PROVE  /\ \A r \in InBook : resting[r] \in Order
         /\ \A t \in Threads : call[t] # NoOrder =>
              /\ call[t] \in Call /\ call[t].ref \in Refs
              /\ call[t].order \in Order
              /\ call[t].tif \in {"DAY", "IOC", "FOK"}
BY DEF TypeOK, InBook, Call

\* processAdd keeps the types.
LEMMA AddType ==
  ASSUME TypeOK, NEW t \in Threads, NEW loc \in LocateInputs,
         NEW ref \in Refs \cup {Zero}, NEW side \in Sides \cup {"INVALID"},
         NEW price \in Prices, NEW quantity \in Quantities, NEW tif \in Tifs,
         NEW user \in UsersOf[ref],
         processAdd(t, loc, ref, side, price, quantity, user, tif)
  PROVE  TypeOK'
<1> DEFINE code == AddError(loc, ref, side, price, quantity, user, tif)
           eff == EffectivePrice(tif, side, price)
<1>1. CASE code # "NONE"
  BY <1>1 DEF processAdd, Answer, TypeOK
<1>2. CASE code = "NONE"
  <2>1. /\ loc \in Nat /\ ref \in Refs /\ side \in Sides /\ user \in Ids
        /\ quantity \in Nat /\ tif \in {"DAY", "IOC", "FOK"} /\ eff \in Nat
    BY <1>2, AddAccepted
  <2> DEFINE o == NewOrder(loc, ref, side, eff, quantity, user)
  <2>2. o \in Order
    BY <2>1, NewOrderType DEF TypeOK
  <2>3. Submitted(ref, side, tif, quantity) \in [Refs -> Account]
    BY <2>1, LedgerType DEF TypeOK
  <2> HIDE DEF code, eff, o
  <2>4. /\ call' = [call EXCEPT ![t] = [ref |-> ref, tif |-> tif, order |-> o]]
        /\ next_sequence' = next_sequence + 1
        /\ append(WalEntry("NEW", side, loc, eff, quantity, user, ref, next_sequence'))
        /\ ledger' = Submitted(ref, side, tif, quantity)
        /\ out' = [out EXCEPT ![t] = <<>>]
        /\ UNCHANGED <<resting, trade_pool>>
    BY <1>2 DEF processAdd, code, eff, o
  <2>5. [ref |-> ref, tif |-> tif, order |-> o] \in Call
    BY <2>1, <2>2 DEF Call
  <2>6. wal'.total \in Nat /\ DOMAIN wal'.entries = 0 .. WalCap - 1
    BY <2>4, AppendType
  <2> QED
    BY <2>3, <2>4, <2>5, <2>6 DEF TypeOK
<1> QED BY <1>1, <1>2

\* One iteration of the matching loop trades a quantity q that exhausts the
\* taker or the maker.
MatchEffect(t, r, q) ==
  LET o == call[t].order
      m == resting[r]
  IN  /\ q <= o.remaining_qty /\ q <= m.remaining_qty
      /\ q \in {o.remaining_qty, m.remaining_qty}
      /\ call' = [call EXCEPT ![t].order = reduceOrderQty(o, q,
                    IF o.remaining_qty = q THEN "FILLED" ELSE "PARTIALLY_FILLED")]
      /\ resting' = IF m.remaining_qty - q = 0 THEN removeOrder(resting, r)
                    ELSE [resting EXCEPT ![r] =
                            reduceOrderQty(m, q, "PARTIALLY_FILLED")]
      /\ ledger' = [ledger EXCEPT ![call[t].ref] = Booked(@, q, FALSE),
                                  ![r] = Booked(@, q, m.remaining_qty - q = 0)]

\* The step matchOrder has that effect, on two orders that are really there.
LEMMA MatchFacts ==
  ASSUME TypeOK, NEW t \in Threads, NEW r \in Refs, matchOrder(t, r)
  PROVE  /\ call[t] # NoOrder /\ call[t].ref \in Refs /\ call[t].order \in Order
         /\ r \in InBook /\ resting[r] \in Order
         /\ call[t].order.remaining_qty > 0
         /\ UNCHANGED <<next_sequence, wal>>
         /\ \E q \in Nat : MatchEffect(t, r, q)
<1>1. call[t] # NoOrder /\ call[t].ref \in Refs /\ call[t].order \in Order
  BY OrderTypes DEF matchOrder
<1>2. r \in InBook /\ call[t].order.remaining_qty > 0
  BY DEF matchOrder, Matches, IsBest, Eligible, SideOf
<1>3. resting[r] \in Order
  BY <1>2, OrderTypes
<1>4. call[t].order.remaining_qty \in Nat /\ resting[r].remaining_qty \in Nat
  BY <1>1, <1>3 DEF Order
<1>5. ASSUME NEW q, q = LeastOf(call[t].order.remaining_qty, resting[r].remaining_qty)
      PROVE  q \in Nat /\ MatchEffect(t, r, q)
  <2>1. /\ q \in Nat /\ q <= call[t].order.remaining_qty
        /\ q <= resting[r].remaining_qty
        /\ q \in {call[t].order.remaining_qty, resting[r].remaining_qty}
    BY <1>4, <1>5 DEF LeastOf
  <2> QED
    BY <1>5, <2>1 DEF matchOrder, MatchEffect
<1>6. UNCHANGED <<next_sequence, wal>>
  BY DEF matchOrder
<1> QED
  BY <1>1, <1>2, <1>3, <1>5, <1>6

\* An iteration of the matching loop keeps the types.
LEMMA MatchType ==
  ASSUME TypeOK, NEW t \in Threads, NEW r \in Refs, matchOrder(t, r)
  PROVE  TypeOK'
<1>1. PICK q \in Nat : MatchEffect(t, r, q)
  BY MatchFacts
<1>2. /\ call[t] # NoOrder /\ call[t] \in Call /\ call[t].order \in Order
      /\ call[t].ref \in Refs /\ resting[r] \in Order
      /\ UNCHANGED <<next_sequence, wal>>
  BY MatchFacts, OrderTypes
<1>3. ASSUME NEW st \in {"OPEN", "PARTIALLY_FILLED", "FILLED"}
      PROVE  /\ reduceOrderQty(call[t].order, q, st) \in Order
             /\ reduceOrderQty(resting[r], q, st) \in Order
  BY <1>1, <1>2, ReduceType DEF MatchEffect
<1>4. call' \in [Threads -> Call \cup {NoOrder}]
  BY <1>1, <1>2, <1>3 DEF MatchEffect, TypeOK, Call
<1>5. resting' \in [Refs -> Order \cup {NoOrder}]
  BY <1>1, <1>3 DEF MatchEffect, TypeOK, removeOrder
<1>6. ledger' \in [Refs -> Account]
  BY Zenon, <1>1, <1>2, BookedType DEF MatchEffect, TypeOK
<1>7. /\ trade_pool'.write_idx \in Nat /\ trade_pool'.ids \in [Sides -> Nat]
      /\ DOMAIN trade_pool'.entries = 0 .. TradeCap - 1
  <2>1. call[t].order.side \in Sides
    BY <1>2 DEF Order
  <2>2. \E qq : recordTrade(call[t], r, qq)
    BY DEF matchOrder
  <2> QED
    BY <2>1, <2>2 DEF recordTrade, TypeOK
<1>8. DOMAIN out' = Threads
  BY DEF matchOrder, Reply, TypeOK
<1> QED
  BY <1>2, <1>4, <1>5, <1>6, <1>7, <1>8 DEF TypeOK

\* The four ends of a call keep the types.
LEMMA FinishType ==
  ASSUME TypeOK, NEW t \in Threads,
         finishFilled(t) \/ finishDropped(t) \/ finishRest(t)
  PROVE  TypeOK'
<1>1. call[t] # NoOrder /\ call[t].ref \in Refs /\ call[t].order \in Order
  BY OrderTypes DEF finishFilled, finishDropped, finishRest, AfterLoop
<1>2. Close(ledger, call[t].ref) \in [Refs -> Account]
  BY <1>1, CloseType DEF TypeOK
<1>3. /\ call' = [call EXCEPT ![t] = NoOrder]
      /\ ledger' \in {ledger, Close(ledger, call[t].ref)}
      /\ resting' \in {resting, [resting EXCEPT ![call[t].ref] = call[t].order]}
      /\ DOMAIN out' = DOMAIN out
      /\ UNCHANGED <<next_sequence, wal, trade_pool>>
  BY Zenon DEF finishFilled, finishDropped, finishRest, Return, addOrder, Reply
<1> QED
  BY <1>1, <1>2, <1>3 DEF TypeOK

\* The accounts after an order leaves on a cancel or a replace.
Dropped(a, q) == [a EXCEPT !.phase = "done", !.cancelled = @ + q]

\* A cancelled order's account is an account.
LEMMA DroppedType ==
  ASSUME NEW a \in Account, NEW q \in Nat
  PROVE  Dropped(a, q) \in Account
<1>1. a.cancelled + q \in Nat
  BY DEF Account
<1> QED
  BY Zenon, <1>1 DEF Dropped, Account

\* What the two cancels do: nothing, or take an order of the user out of its
\* book, or take part of its quantity.
CancelEffect(ref, user) ==
  \/ UNCHANGED <<resting, ledger>>
  \/ /\ Owned(ref, user)
     /\ resting' = removeOrder(resting, ref)
     /\ ledger' = [ledger EXCEPT ![ref] = Dropped(@, resting[ref].remaining_qty)]
  \/ /\ Owned(ref, user)
     /\ \E shares \in Nat :
          /\ shares < resting[ref].remaining_qty
          /\ resting' = [resting EXCEPT ![ref] = reduceQtyCancel(@, shares)]
          /\ ledger' = [ledger EXCEPT ![ref].cancelled = @ + shares]

\* Both cancels have that effect and leave the calls alone.
LEMMA CancelFacts ==
  ASSUME TypeOK, NEW t \in Threads, NEW loc \in LocateInputs, NEW ref \in Refs,
         NEW user,
         \/ processCancel(t, loc, ref, user)
         \/ \E shares \in Quantities : processCancelShares(t, loc, ref, shares, user)
  PROVE  /\ CancelEffect(ref, user)
         /\ UNCHANGED <<call, next_sequence, trade_pool>>
         /\ DOMAIN out' = Threads
         /\ wal'.total \in Nat /\ DOMAIN wal'.entries = 0 .. WalCap - 1
<1>1. ledger \in [Refs -> Account]
  BY DEF TypeOK
<1>2. ASSUME NEW q
      PROVE  Close([ledger EXCEPT ![ref].cancelled = @ + q], ref)
               = [ledger EXCEPT ![ref] = Dropped(@, q)]
  BY Zenon, <1>1 DEF Close, Dropped, Account
<1>3. CASE processCancel(t, loc, ref, user)
  <2>1. /\ CancelEffect(ref, user)
        /\ UNCHANGED <<call, next_sequence, trade_pool>>
        /\ DOMAIN out' = Threads
    BY Zenon, <1>2, <1>3 DEF processCancel, NotFound, Answer, CancelEffect, TypeOK
  <2>2. UNCHANGED wal \/ \E e : append(e)
    BY <1>3 DEF processCancel
  <2> QED
    BY <2>1, <2>2, AppendType DEF TypeOK
<1>4. ASSUME NEW shares \in Quantities, processCancelShares(t, loc, ref, shares, user)
      PROVE  /\ CancelEffect(ref, user)
             /\ UNCHANGED <<call, next_sequence, trade_pool>>
             /\ DOMAIN out' = Threads
             /\ wal'.total \in Nat /\ DOMAIN wal'.entries = 0 .. WalCap - 1
  <2>0. shares \in Nat
    BY EngineAssumption
  <2>1. /\ CancelEffect(ref, user)
        /\ UNCHANGED <<call, next_sequence, trade_pool>>
        /\ DOMAIN out' = Threads
    BY Zenon, <1>2, <1>4, <2>0 DEF processCancelShares, NotFound, Answer, CancelEffect, TypeOK
  <2>2. UNCHANGED wal \/ \E e : append(e)
    BY <1>4 DEF processCancelShares
  <2> QED
    BY <2>1, <2>2, AppendType DEF TypeOK
<1> QED BY <1>3, <1>4

\* What a successful replace does: the old order leaves its book and the new
\* one is the order of the call.
ReplaceEffect(t, loc, old, new, price, quantity) ==
  LET side == resting[old].side
  IN  /\ resting' = removeOrder(resting, old)
      /\ call' = [call EXCEPT ![t] =
           [ref |-> new, tif |-> "DAY",
            order |-> NewOrder(loc, new, side, price, quantity, new)]]
      /\ ledger' = [Submitted(new, side, "DAY", quantity)
                      EXCEPT ![old] = Dropped(@, resting[old].remaining_qty)]

\* A replace that fails only logs; one that succeeds has that effect.
LEMMA ReplaceFacts ==
  ASSUME TypeOK, NEW t \in Threads, NEW loc \in LocateInputs, NEW old \in Refs,
         NEW new \in Refs \ {old}, NEW price \in Prices, NEW quantity \in Quantities,
         NEW user, processReplace(t, loc, old, new, price, quantity, user)
  PROVE  /\ \/ UNCHANGED <<resting, call, ledger>>
            \/ /\ call[t] = NoOrder /\ ledger[new].phase = "new"
               /\ old \in InBook /\ resting[old].locate = loc
               /\ ReplaceEffect(t, loc, old, new, price, quantity)
         /\ next_sequence' \in {next_sequence, next_sequence + 1}
         /\ UNCHANGED trade_pool /\ DOMAIN out' = Threads
         /\ wal'.total \in Nat /\ DOMAIN wal'.entries = 0 .. WalCap - 1
<1>1. ASSUME NEW b, NEW q, b \in [Refs -> Account]
      PROVE  Close([b EXCEPT ![old].cancelled = @ + q], old)
               = [b EXCEPT ![old] = Dropped(@, q)]
  BY Zenon, <1>1 DEF Close, Dropped, Account
<1>2. UNCHANGED wal \/ \E e : append(e)
  BY DEF processReplace
<1>3. wal'.total \in Nat /\ DOMAIN wal'.entries = 0 .. WalCap - 1
  BY <1>2, AppendType DEF TypeOK
<1>4. /\ next_sequence' \in {next_sequence, next_sequence + 1}
      /\ UNCHANGED trade_pool /\ DOMAIN out' = Threads
  BY DEF processReplace, NotFound, Answer, TypeOK
<1>5. CASE UNCHANGED <<resting, call, ledger>>
  BY <1>3, <1>4, <1>5
<1>6. CASE /\ Owned(old, user)
           /\ resting' = removeOrder(resting, old)
           /\ call' = [call EXCEPT ![t] =
                [ref |-> new, tif |-> "DAY",
                 order |-> NewOrder(loc, new, resting[old].side, price, quantity, new)]]
           /\ ledger' = Close([Submitted(new, resting[old].side, "DAY", quantity)
                                 EXCEPT ![old].cancelled =
                                          @ + resting[old].remaining_qty], old)
  <2>1. old \in InBook /\ resting[old] \in Order /\ quantity \in Nat
    BY <1>6, OrderTypes, EngineAssumption DEF Owned
  <2>2. Submitted(new, resting[old].side, "DAY", quantity) \in [Refs -> Account]
    BY <2>1, LedgerType DEF TypeOK, Order
  <2>3. call[t] = NoOrder /\ ledger[new].phase = "new" /\ resting[old].locate = loc
    BY <2>1 DEF processReplace, MayEnter, Fresh, OwnBook
  <2> QED
    BY Zenon, <1>1, <1>3, <1>4, <1>6, <2>1, <2>2, <2>3 DEF ReplaceEffect
<1> QED
  BY <1>5, <1>6 DEF processReplace, NotFound

\* The cancels keep the types.
LEMMA CancelType ==
  ASSUME TypeOK, NEW t \in Threads, NEW loc \in LocateInputs, NEW ref \in Refs,
         NEW user,
         \/ processCancel(t, loc, ref, user)
         \/ \E shares \in Quantities : processCancelShares(t, loc, ref, shares, user)
  PROVE  TypeOK'
<1>1. /\ CancelEffect(ref, user)
      /\ UNCHANGED <<call, next_sequence, trade_pool>> /\ DOMAIN out' = Threads
      /\ wal'.total \in Nat /\ DOMAIN wal'.entries = 0 .. WalCap - 1
  BY CancelFacts
<1>2. resting' \in [Refs -> Order \cup {NoOrder}] /\ ledger' \in [Refs -> Account]
  <2>1. CASE UNCHANGED <<resting, ledger>>
    BY <2>1 DEF TypeOK
  <2>2. CASE /\ Owned(ref, user)
             /\ resting' = removeOrder(resting, ref)
             /\ ledger' = [ledger EXCEPT ![ref] = Dropped(@, resting[ref].remaining_qty)]
    <3>1. resting[ref].remaining_qty \in Nat /\ ledger[ref] \in Account
      BY <2>2, OrderTypes DEF Owned, Order, TypeOK
    <3>2. Dropped(ledger[ref], resting[ref].remaining_qty) \in Account
      BY <3>1, DroppedType
    <3> QED
      BY <2>2, <3>2 DEF TypeOK, removeOrder
  <2>3. ASSUME NEW shares \in Nat, Owned(ref, user),
               shares < resting[ref].remaining_qty,
               resting' = [resting EXCEPT ![ref] = reduceQtyCancel(@, shares)],
               ledger' = [ledger EXCEPT ![ref].cancelled = @ + shares]
        PROVE  resting' \in [Refs -> Order \cup {NoOrder}] /\ ledger' \in [Refs -> Account]
    <3>1. resting[ref] \in Order /\ ledger[ref] \in Account
      BY <2>3, OrderTypes DEF Owned, TypeOK
    <3>2. shares <= resting[ref].remaining_qty
      BY <2>3, <3>1 DEF Order
    <3>3. reduceQtyCancel(resting[ref], shares) \in Order
      BY <3>1, <3>2, ReduceType
    <3>4. [ledger[ref] EXCEPT !.cancelled = @ + shares] \in Account
      BY <3>1 DEF Account
    <3> QED
      BY <2>3, <3>3, <3>4 DEF TypeOK
  <2> QED
    BY <1>1, <2>1, <2>2, <2>3 DEF CancelEffect
<1> QED
  BY <1>1, <1>2 DEF TypeOK

\* A replace keeps the types.
LEMMA ReplaceType ==
  ASSUME TypeOK, NEW t \in Threads, NEW loc \in LocateInputs, NEW old \in Refs,
         NEW new \in Refs \ {old}, NEW price \in Prices, NEW quantity \in Quantities,
         NEW user, processReplace(t, loc, old, new, price, quantity, user)
  PROVE  TypeOK'
<1>1. /\ next_sequence' \in {next_sequence, next_sequence + 1}
      /\ UNCHANGED trade_pool /\ DOMAIN out' = Threads
      /\ wal'.total \in Nat /\ DOMAIN wal'.entries = 0 .. WalCap - 1
  BY ReplaceFacts
<1>2. CASE UNCHANGED <<resting, call, ledger>>
  BY <1>1, <1>2 DEF TypeOK
<1>3. CASE old \in InBook /\ ReplaceEffect(t, loc, old, new, price, quantity)
  <2>1. /\ resting[old] \in Order /\ resting[old].side \in Sides
        /\ resting[old].remaining_qty \in Nat
        /\ loc \in Nat /\ price \in Nat /\ quantity \in Nat /\ new \in Ids
    BY <1>3, OrderTypes, EngineAssumption DEF Order, Ids
  <2>2. [ref |-> new, tif |-> "DAY",
         order |-> NewOrder(loc, new, resting[old].side, price, quantity, new)] \in Call
    BY <2>1, NewOrderType DEF TypeOK, Call
  <2>3. Submitted(new, resting[old].side, "DAY", quantity) \in [Refs -> Account]
    BY <2>1, LedgerType DEF TypeOK
  <2>4. ASSUME NEW a \in Account
        PROVE  Dropped(a, resting[old].remaining_qty) \in Account
    BY <2>1, DroppedType
  <2>5. ledger' \in [Refs -> Account]
    BY <1>3, <2>3, <2>4 DEF ReplaceEffect
  <2> QED
    BY <1>1, <1>3, <2>2, <2>5 DEF ReplaceEffect, TypeOK, removeOrder
<1> QED
  BY <1>2, <1>3, ReplaceFacts

\* Every step keeps the types.
LEMMA NextType == TypeOK /\ [Next]_vars => TypeOK'
<1> SUFFICES ASSUME TypeOK, [Next]_vars PROVE TypeOK'
  OBVIOUS
<1>1. ASSUME NEW t \in Threads, Proceed(t) PROVE TypeOK'
  BY <1>1, MatchType, FinishType DEF Proceed
<1>2. ASSUME NEW t \in Threads, Request(t) PROVE TypeOK'
  BY SMTT(30), <1>2, AddType, CancelType, ReplaceType DEF Request
<1>3. CASE UNCHANGED vars
  BY <1>3 DEF vars, TypeOK
<1> QED
  BY <1>1, <1>2, <1>3 DEF Next

\* The initial books, calls and rings are well-typed.
LEMMA InitType == Init => TypeOK
BY EngineAssumption DEF Init, TypeOK, Account, Sides

\* The types hold in every reachable state, for all values of the constants.
THEOREM TypeCorrect == Spec => []TypeOK
BY InitType, NextType, PTL DEF Spec

=============================================================================
