----------------------- MODULE MatchingEngine_custody -----------------------
(***************************************************************************)
(* Every live order of the matching engine is in one place, and no         *)
(* quantity is created or lost.                                            *)
(***************************************************************************)
EXTENDS MatchingEngine_trades

\* processAdd: the accepted order is in the call, nothing else moved.
LEMMA AddCustody ==
  ASSUME Custody, NEW t \in Threads, NEW loc \in LocateInputs,
         NEW ref \in Refs \cup {Zero}, NEW side \in Sides \cup {"INVALID"},
         NEW price \in Prices, NEW quantity \in Quantities, NEW tif \in Tifs,
         NEW user \in UsersOf[ref],
         processAdd(t, loc, ref, side, price, quantity, user, tif)
  PROVE  LiveInOnePlace' /\ QuantityConserved'
<1>1. CASE AddError(loc, ref, side, price, quantity, user, tif) # "NONE"
  BY <1>1 DEF processAdd, Custody, LiveInOnePlace, QuantityConserved, Holders, InBook
<1>2. CASE AddError(loc, ref, side, price, quantity, user, tif) = "NONE"
  <2> DEFINE eff == EffectivePrice(tif, side, price)
             c == [ref |-> ref, tif |-> tif,
                   order |-> NewOrder(loc, ref, side, eff, quantity, user)]
             a == [phase |-> "live", side |-> side, tif |-> tif,
                   original |-> quantity, traded |-> 0, cancelled |-> 0]
  <2>1. /\ loc \in Nat /\ ref \in Refs /\ side \in Sides /\ user \in Ids
        /\ quantity \in Nat /\ tif \in {"DAY", "IOC", "FOK"} /\ eff \in Nat
    BY <1>2, AddAccepted
  <2>2. /\ call[t] = NoOrder /\ ledger[ref].phase = "new"
        /\ call' = [call EXCEPT ![t] = c] /\ ledger' = [ledger EXCEPT ![ref] = a]
        /\ resting' = resting
    BY Zenon, <1>2, <2>1 DEF processAdd, MayEnter, Fresh, Submitted
  <2>3. c \in Call /\ a \in Account
    <3>1. NewOrder(loc, ref, side, eff, quantity, user) \in Order
      BY Zenon, <2>1, NewOrderType DEF Custody, TypeOK
    <3> QED
      BY Zenon, <2>1, <3>1 DEF Call, Account
  <2>4. /\ c.ref = ref /\ c.order.filled_qty = 0 /\ c.order.original_qty = quantity
        /\ c.order.remaining_qty = quantity
    BY Zenon DEF NewOrder
  <2>5. /\ a.phase = "live" /\ a.original = quantity /\ a.traded = 0
        /\ a.cancelled = 0
    BY Zenon
  <2>6. /\ ledger \in [Refs -> Account]
        /\ \A s \in Refs : ledger[s].traded + ledger[s].cancelled <= ledger[s].original
    BY Zenon DEF Custody, TypeOK, QuantityConserved
  <2> HIDE DEF c, a
  <2>7. Enters(t, ref, c, a, ledger)
    BY Zenon, <2>1, <2>2, <2>4, <2>5, <2>6 DEF Enters
  <2> QED
    BY <2>1, <2>3, <2>6, <2>7, EnterCustody
<1> QED BY <1>1, <1>2

\* processReplace: the old order leaves its book, the new one is in the call.
LEMMA ReplaceCustody ==
  ASSUME Custody, NEW t \in Threads, NEW loc \in LocateInputs, NEW old \in Refs,
         NEW new \in Refs \ {old}, NEW price \in Prices, NEW quantity \in Quantities,
         NEW user, processReplace(t, loc, old, new, price, quantity, user)
  PROVE  LiveInOnePlace' /\ QuantityConserved'
<1>1. CASE UNCHANGED <<resting, call, ledger>>
  BY <1>1 DEF Custody, LiveInOnePlace, QuantityConserved, Holders, InBook
<1>2. CASE /\ call[t] = NoOrder /\ ledger[new].phase = "new" /\ old \in InBook
           /\ ReplaceEffect(t, loc, old, new, price, quantity)
  <2> DEFINE side == resting[old].side
             q == resting[old].remaining_qty
             c == [ref |-> new, tif |-> "DAY",
                   order |-> NewOrder(loc, new, side, price, quantity, new)]
             a == [phase |-> "live", side |-> side, tif |-> "DAY",
                   original |-> quantity, traded |-> 0, cancelled |-> 0]
             L == [ledger EXCEPT ![old] = Dropped(@, q)]
  <2>1. /\ side \in Sides /\ q \in Nat /\ loc \in Nat /\ price \in Nat
        /\ quantity \in Nat /\ new \in Ids
    BY <1>2, OrderTypes, EngineAssumption DEF Custody, Order, Ids
  <2>2. ledger \in [Refs -> Account] /\ resting \in [Refs -> Order \cup {NoOrder}]
    BY DEF Custody, TypeOK
  <2>3. c \in Call /\ a \in Account /\ L \in [Refs -> Account]
    <3>1. NewOrder(loc, new, side, price, quantity, new) \in Order
      BY <2>1, NewOrderType DEF Custody, TypeOK
    <3>2. Dropped(ledger[old], q) \in Account
      BY <2>1, <2>2, DroppedType
    <3> QED
      BY <2>1, <2>2, <3>1, <3>2 DEF Call, Account
  <2>4. /\ c.ref = new /\ c.order.filled_qty = 0 /\ c.order.original_qty = quantity
        /\ c.order.remaining_qty = quantity
        /\ a.phase = "live" /\ a.original = quantity /\ a.traded = 0
        /\ a.cancelled = 0
    BY DEF NewOrder
  <2>5. /\ call' = [call EXCEPT ![t] = c]
        /\ resting' = [resting EXCEPT ![old] = NoOrder]
        /\ ledger' = [L EXCEPT ![new] = a]
    <3>1. ledger' = [[ledger EXCEPT ![new] = a] EXCEPT ![old] = Dropped(@, q)]
      BY <1>2 DEF ReplaceEffect, Submitted
    <3>2. [[ledger EXCEPT ![new] = a] EXCEPT ![old] = Dropped(@, q)]
            = [L EXCEPT ![new] = a]
      <4> HIDE DEF a, q
      <4> QED BY Zenon, <2>2
    <3> QED
      BY Zenon, <1>2, <3>1, <3>2 DEF ReplaceEffect, removeOrder
  <2>6. /\ L[old].phase = "done" /\ L[old].traded = ledger[old].traded
        /\ L[old].original = ledger[old].original
        /\ L[old].cancelled = ledger[old].cancelled + q
        /\ \A s \in Refs \ {old} : L[s] = ledger[s]
    BY <2>2 DEF Dropped, Account
  <2>7. \A s \in Refs : L[s].traded + L[s].cancelled <= L[s].original
    <3>1. /\ ledger[old].traded \in Nat /\ ledger[old].cancelled \in Nat
          /\ ledger[old].original \in Nat
          /\ q = ledger[old].original - ledger[old].traded - ledger[old].cancelled
      BY Zenon, <1>2, <2>2 DEF Custody, QuantityConserved, Account
    <3>2. \A s \in Refs : ledger[s].traded + ledger[s].cancelled <= ledger[s].original
      BY Zenon DEF Custody, QuantityConserved
    <3> HIDE DEF L, q
    <3>3. L[old].traded + L[old].cancelled <= L[old].original
      BY <2>1, <2>6, <3>1
    <3> QED
      BY Zenon, <2>6, <3>2, <3>3
  <2>8. \A u \in Threads : call[u] # NoOrder => L[call[u].ref] = ledger[call[u].ref]
    <3>1. \A u \in Threads : call[u] # NoOrder =>
            call[u].ref \in Refs /\ call[u].ref # old
      BY <1>2, OrderTypes DEF Custody, LiveInOnePlace, Holders
    <3> HIDE DEF L
    <3> QED BY <2>6, <3>1
  <2>9. /\ \A s \in Refs : resting'[s] # NoOrder =>
             resting'[s] = resting[s] /\ L[s] = ledger[s]
        /\ \A s \in Refs : resting[s] # NoOrder /\ resting'[s] = NoOrder
             => L[s].phase = "done"
        /\ \A s \in Refs : resting[s] = NoOrder => L[s] = ledger[s]
        /\ L[new].phase = "new"
    <3> HIDE DEF L
    <3> QED BY Zenon, <1>2, <2>2, <2>5, <2>6 DEF InBook
  <2> HIDE DEF c, a, L, q, side
  <2>10. Enters(t, new, c, a, L)
    BY Zenon, <1>2, <2>4, <2>5, <2>7, <2>8, <2>9 DEF Enters
  <2> QED
    BY <2>3, <2>10, EnterCustody
<1> QED BY <1>1, <1>2, ReplaceFacts DEF Custody

\* The cancels: what leaves the book is booked as cancelled.
LEMMA CancelCustody ==
  ASSUME Custody, NEW ref \in Refs, NEW user, CancelEffect(ref, user), UNCHANGED call
  PROVE  LiveInOnePlace' /\ QuantityConserved'
<1>1. CASE UNCHANGED <<resting, ledger>>
  BY <1>1 DEF Custody, LiveInOnePlace, QuantityConserved, Holders, InBook
<1>2. CASE ~ UNCHANGED <<resting, ledger>>
  <2> DEFINE m == resting[ref]
  <2>1. ref \in InBook /\ m \in Order /\ Holders(ref) = {}
    BY <1>2, OrderTypes DEF CancelEffect, Owned, Custody, LiveInOnePlace
  <2>2. ledger \in [Refs -> Account] /\ resting \in [Refs -> Order \cup {NoOrder}]
    BY DEF Custody, TypeOK
  <2>3. /\ m.remaining_qty \in Nat /\ ledger[ref].traded \in Nat
        /\ ledger[ref].cancelled \in Nat /\ ledger[ref].original \in Nat
    BY <2>1, <2>2 DEF Order, Account
  <2>4. /\ m.original_qty = ledger[ref].original /\ m.filled_qty = ledger[ref].traded
        /\ m.remaining_qty = ledger[ref].original - ledger[ref].traded - ledger[ref].cancelled
        /\ ledger[ref].phase = "live"
    BY <2>1 DEF Custody, QuantityConserved, LiveInOnePlace
  <2>5. /\ \A s \in Refs \ {ref} : resting'[s] = resting[s] /\ ledger'[s] = ledger[s]
        /\ ledger'[ref].traded = ledger[ref].traded
        /\ ledger'[ref].original = ledger[ref].original
        /\ \/ /\ resting'[ref] = NoOrder /\ ledger'[ref].phase = "done"
              /\ ledger'[ref].cancelled = ledger[ref].cancelled + m.remaining_qty
           \/ /\ resting'[ref] # NoOrder /\ ledger'[ref].phase = "live"
              /\ \E k \in Nat :
                   /\ k < m.remaining_qty
                   /\ ledger'[ref].cancelled = ledger[ref].cancelled + k
                   /\ resting'[ref].remaining_qty = m.remaining_qty - k
              /\ resting'[ref].original_qty = m.original_qty
              /\ resting'[ref].filled_qty = m.filled_qty
    <3>1. CASE /\ resting' = removeOrder(resting, ref)
               /\ ledger' = [ledger EXCEPT ![ref] = Dropped(@, m.remaining_qty)]
      BY <2>2, <3>1 DEF removeOrder, Dropped, Account
    <3>2. ASSUME NEW k \in Nat, k < m.remaining_qty,
                 resting' = [resting EXCEPT ![ref] = reduceQtyCancel(@, k)],
                 ledger' = [ledger EXCEPT ![ref].cancelled = @ + k]
          PROVE  /\ \A s \in Refs \ {ref} : resting'[s] = resting[s] /\ ledger'[s] = ledger[s]
                 /\ ledger'[ref].traded = ledger[ref].traded
                 /\ ledger'[ref].original = ledger[ref].original
                 /\ resting'[ref] # NoOrder /\ ledger'[ref].phase = "live"
                 /\ ledger'[ref].cancelled = ledger[ref].cancelled + k
                 /\ resting'[ref].remaining_qty = m.remaining_qty - k
                 /\ resting'[ref].original_qty = m.original_qty
                 /\ resting'[ref].filled_qty = m.filled_qty
      <4>1. reduceQtyCancel(m, k) \in Order
        <5>1. m.remaining_qty - k \in Nat
          BY <2>3, <3>2
        <5> QED BY <2>1, <5>1 DEF reduceQtyCancel, Order
      <4>2. resting'[ref] = reduceQtyCancel(m, k) /\ resting'[ref] # NoOrder
        BY <2>2, <3>2, <4>1, IdsAssumption
      <4>3. /\ resting'[ref].remaining_qty = m.remaining_qty - k
            /\ resting'[ref].original_qty = m.original_qty
            /\ resting'[ref].filled_qty = m.filled_qty
        BY <2>1, <4>2 DEF reduceQtyCancel, Order
      <4>4. /\ \A s \in Refs \ {ref} : resting'[s] = resting[s] /\ ledger'[s] = ledger[s]
            /\ ledger'[ref] = [ledger[ref] EXCEPT !.cancelled = @ + k]
        BY <2>2, <3>2
      <4>5. /\ ledger'[ref].traded = ledger[ref].traded
            /\ ledger'[ref].original = ledger[ref].original
            /\ ledger'[ref].phase = "live"
            /\ ledger'[ref].cancelled = ledger[ref].cancelled + k
        BY <2>2, <2>4, <4>4 DEF Account
      <4> QED BY <4>2, <4>3, <4>4, <4>5
    <3> QED
      BY <1>2, <3>1, <3>2 DEF CancelEffect
  <2> HIDE DEF m
  <2>6. LiveInOnePlace'
    <3>1. \A s \in Refs : Holders(s)' = Holders(s)
      BY DEF Holders
    <3>2. ASSUME NEW s \in Refs
          PROVE  /\ ledger'[s].phase = "live" <=> (s \in InBook' \/ Holders(s) # {})
                 /\ s \in InBook' => Holders(s) = {}
                 /\ \A u, v \in Holders(s) : u = v
      BY <2>1, <2>4, <2>5 DEF Custody, LiveInOnePlace, InBook
    <3> QED BY <3>1, <3>2 DEF LiveInOnePlace
  <2>7. QuantityConserved'
    <3>1. ASSUME NEW s \in Refs, resting'[s] # NoOrder
          PROVE  /\ resting'[s].original_qty = ledger'[s].original
                 /\ resting'[s].filled_qty = ledger'[s].traded
                 /\ resting'[s].remaining_qty
                      = ledger'[s].original - ledger'[s].traded - ledger'[s].cancelled
      <4>1. CASE s = ref
        BY <2>3, <2>4, <2>5, <3>1, <4>1
      <4>2. CASE s # ref
        BY <2>5, <3>1, <4>2 DEF Custody, QuantityConserved, InBook
      <4> QED BY <4>1, <4>2
    <3>2. \A u \in Threads : call[u] # NoOrder =>
            call[u].ref \in Refs /\ call[u].ref # ref
      BY <2>1, OrderTypes DEF Custody, Holders
    <3>3. ASSUME NEW s \in Refs
          PROVE  ledger'[s].traded + ledger'[s].cancelled <= ledger'[s].original
      <4>1. CASE s = ref
        BY <2>3, <2>4, <2>5, <4>1
      <4>2. CASE s # ref
        BY <2>5, <4>2 DEF Custody, QuantityConserved
      <4> QED BY <4>1, <4>2
    <3> QED
      BY <2>5, <3>1, <3>2, <3>3 DEF Custody, QuantityConserved, InBook
  <2> QED BY <2>6, <2>7
<1> QED BY <1>1, <1>2

\* The end of a call: the order is finished, or moves from the call to a book.
LEMMA FinishCustody ==
  ASSUME Custody, NEW t \in Threads,
         finishFilled(t) \/ finishDropped(t) \/ finishRest(t)
  PROVE  LiveInOnePlace' /\ QuantityConserved'
<1>0. call[t] # NoOrder
  BY Zenon DEF finishFilled, finishDropped, finishRest, AfterLoop
<1> PICK n \in Refs, o \in Order : n = call[t].ref /\ o = call[t].order
  BY <1>0, OrderTypes DEF Custody
<1>1. call[t] # NoOrder /\ n \in Refs /\ o \in Order /\ o # NoOrder
  BY <1>0, IdsAssumption
<1>2. /\ call' = [call EXCEPT ![t] = NoOrder]
      /\ \/ resting' = resting /\ ledger' = Close(ledger, n)
         \/ resting' = [resting EXCEPT ![n] = o] /\ ledger' = ledger
  BY Zenon DEF finishFilled, finishDropped, finishRest, Return, addOrder
<1>3. /\ ledger \in [Refs -> Account] /\ resting \in [Refs -> Order \cup {NoOrder}]
      /\ call \in [Threads -> Call \cup {NoOrder}]
  BY DEF Custody, TypeOK
<1>4. /\ t \in Holders(n) /\ n \notin InBook /\ ledger[n].phase = "live"
      /\ \A u \in Threads \ {t} : u \notin Holders(n)
  BY <1>1 DEF Custody, LiveInOnePlace, Holders
<1>5. /\ \A u \in Threads \ {t} : call'[u] = call[u]
      /\ call'[t] = NoOrder
      /\ \A s \in Refs \ {n} : resting'[s] = resting[s] /\ ledger'[s] = ledger[s]
      /\ ledger'[n].traded = ledger[n].traded
      /\ ledger'[n].cancelled = ledger[n].cancelled
      /\ ledger'[n].original = ledger[n].original
      /\ \/ resting'[n] = NoOrder /\ ledger'[n].phase = "done"
         \/ resting'[n] = o /\ ledger'[n].phase = "live"
  <2> QED
    BY <1>1, <1>2, <1>3, <1>4 DEF Close, Account, InBook
<1>6. LiveInOnePlace'
  <2>1. Holders(n)' = {}
    BY <1>4, <1>5 DEF Holders
  <2>2. \A s \in Refs \ {n} : Holders(s)' = Holders(s)
    BY <1>5 DEF Holders
  <2>3. ASSUME NEW s \in Refs
        PROVE  /\ ledger'[s].phase = "live" <=> (s \in InBook' \/ Holders(s)' # {})
               /\ s \in InBook' => Holders(s)' = {}
               /\ \A u, v \in Holders(s)' : u = v
    <3>1. CASE s = n
      BY Zenon, <1>1, <1>5, <2>1, <3>1 DEF InBook
    <3>2. CASE s # n
      BY <1>5, <2>2, <3>2 DEF Custody, LiveInOnePlace, InBook
    <3> QED BY <3>1, <3>2
  <2> QED BY <2>3 DEF LiveInOnePlace
<1>7. QuantityConserved'
  <2>1. ASSUME NEW s \in Refs, resting'[s] # NoOrder
        PROVE  /\ resting'[s].original_qty = ledger'[s].original
               /\ resting'[s].filled_qty = ledger'[s].traded
               /\ resting'[s].remaining_qty
                    = ledger'[s].original - ledger'[s].traded - ledger'[s].cancelled
    <3>1. CASE s = n
      <4>1. /\ o.original_qty = ledger[n].original /\ o.filled_qty = ledger[n].traded
            /\ o.remaining_qty = ledger[n].original - ledger[n].traded
            /\ ledger[n].cancelled = 0
        BY Zenon, <1>1 DEF Custody, QuantityConserved
      <4>2. ledger[n].original \in Nat /\ ledger[n].traded \in Nat
        BY <1>1, <1>3 DEF Account
      <4> QED
        BY <1>5, <2>1, <3>1, <4>1, <4>2
    <3>2. CASE s # n
      BY ZenonT(40), <1>5, <2>1, <3>2 DEF Custody, QuantityConserved, InBook
    <3> QED BY Zenon, <3>1, <3>2
  <2>2. ASSUME NEW u \in Threads, call'[u] # NoOrder
        PROVE  /\ u # t /\ call'[u] = call[u] /\ call[u].ref \in Refs \ {n}
               /\ ledger'[call[u].ref] = ledger[call[u].ref]
    BY <1>4, <1>5, <2>2, OrderTypes DEF Custody, Holders
  <2>3. ASSUME NEW s \in Refs
        PROVE  ledger'[s].traded + ledger'[s].cancelled <= ledger'[s].original
    BY Zenon, <1>1, <1>5 DEF Custody, QuantityConserved
  <2> QED
    BY <2>1, <2>2, <2>3 DEF Custody, QuantityConserved, InBook
<1> QED BY <1>6, <1>7

\* Custody is inductive.
LEMMA NextCustody == Custody /\ [Next]_vars => Custody'
<1> SUFFICES ASSUME Custody, [Next]_vars PROVE LiveInOnePlace' /\ QuantityConserved'
  BY NextType DEF Custody
<1>1. ASSUME NEW t \in Threads, Proceed(t)
      PROVE  LiveInOnePlace' /\ QuantityConserved'
  BY <1>1, MatchCustody, FinishCustody DEF Proceed
<1>2. ASSUME NEW t \in Threads, Request(t)
      PROVE  LiveInOnePlace' /\ QuantityConserved'
  <2>1. ASSUME NEW loc \in LocateInputs, NEW ref \in Refs, NEW user,
               \/ processCancel(t, loc, ref, user)
               \/ \E shares \in Quantities : processCancelShares(t, loc, ref, shares, user)
        PROVE  LiveInOnePlace' /\ QuantityConserved'
    <3>1. CancelEffect(ref, user) /\ UNCHANGED call
      BY <2>1, CancelFacts DEF Custody
    <3> QED BY <3>1, CancelCustody
  <2> QED
    BY Zenon, <1>2, <2>1, AddCustody, ReplaceCustody DEF Request
<1>3. CASE UNCHANGED vars
  BY <1>3 DEF vars, Custody, LiveInOnePlace, QuantityConserved, Holders, InBook
<1> QED
  BY <1>1, <1>2, <1>3 DEF Next

\* No order is lost, duplicated or left behind, and no quantity is created or
\* lost, on any path through add, match, cancel and replace, with any number
\* of threads on books of their own.
THEOREM OrdersInCustody == Spec => [](LiveInOnePlace /\ QuantityConserved)
<1>1. Init => Custody
  <2>1. ASSUME Init PROVE LiveInOnePlace /\ QuantityConserved
    BY <2>1 DEF Init, LiveInOnePlace, QuantityConserved, Holders, InBook
  <2> QED BY <2>1, InitType DEF Custody
<1>2. Custody => LiveInOnePlace /\ QuantityConserved
  BY DEF Custody
<1> QED
  BY <1>1, <1>2, NextCustody, PTL DEF Spec

\* What an order holds is always its original quantity less what it traded
\* and what was cancelled, and no order trades more than it asked for.
THEOREM QuantityNeverLost == Spec => []QuantityConserved
BY OrdersInCustody, PTL

=============================================================================
