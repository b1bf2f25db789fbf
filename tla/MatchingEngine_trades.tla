----------------------- MODULE MatchingEngine_trades ------------------------
(***************************************************************************)
(* A trade, and a new order that enters its call, keep every live order in *)
(* one place and conserve its quantity (used by MatchingEngine_custody).   *)
(***************************************************************************)
EXTENDS MatchingEngine_proofs

\* Both properties together are inductive: conservation at a trade needs that
\* the maker is not the taker.
Custody == TypeOK /\ LiveInOnePlace /\ QuantityConserved

\* A step of the matching loop moves q from remaining to traded on both sides.
LEMMA MatchCustody ==
  ASSUME Custody, NEW t \in Threads, NEW r \in Refs, matchOrder(t, r)
  PROVE  LiveInOnePlace' /\ QuantityConserved'
<1> DEFINE n == call[t].ref
           o == call[t].order
           m == resting[r]
<1>1. PICK q \in Nat : MatchEffect(t, r, q)
  BY MatchFacts DEF Custody
<1>2. /\ call[t] # NoOrder /\ n \in Refs /\ o \in Order /\ call[t] \in Call
      /\ r \in InBook /\ m \in Order
  BY MatchFacts, OrderTypes DEF Custody
<1>3. n # r
  BY <1>2 DEF Custody, LiveInOnePlace, Holders
<1>4. /\ o.remaining_qty \in Nat /\ o.filled_qty \in Nat
      /\ m.remaining_qty \in Nat /\ m.filled_qty \in Nat
      /\ q <= o.remaining_qty /\ q <= m.remaining_qty
  BY <1>1, <1>2 DEF MatchEffect, Order
<1>5. ASSUME NEW st
      PROVE  /\ reduceOrderQty(o, q, st).remaining_qty = o.remaining_qty - q
             /\ reduceOrderQty(o, q, st).filled_qty = o.filled_qty + q
             /\ reduceOrderQty(o, q, st).original_qty = o.original_qty
             /\ reduceOrderQty(m, q, st).remaining_qty = m.remaining_qty - q
             /\ reduceOrderQty(m, q, st).filled_qty = m.filled_qty + q
             /\ reduceOrderQty(m, q, st).original_qty = m.original_qty
  BY <1>2 DEF reduceOrderQty, Order
<1>6. /\ \A u \in Threads \ {t} : call'[u] = call[u]
      /\ call'[t] # NoOrder /\ call'[t].ref = n
      /\ call'[t].order.remaining_qty = o.remaining_qty - q
      /\ call'[t].order.filled_qty = o.filled_qty + q
      /\ call'[t].order.original_qty = o.original_qty
  <2>1. TypeOK' /\ call'[t] = [call[t] EXCEPT !.order = reduceOrderQty(o, q,
                    IF o.remaining_qty = q THEN "FILLED" ELSE "PARTIALLY_FILLED")]
    BY Zenon, <1>1, <1>2, MatchType DEF MatchEffect, Custody, TypeOK
  <2>2. call'[t].ref = n /\ call'[t].order = reduceOrderQty(o, q,
                    IF o.remaining_qty = q THEN "FILLED" ELSE "PARTIALLY_FILLED")
    BY <1>2, <2>1 DEF Call
  <2>3. call'[t] # NoOrder
    <3>1. reduceOrderQty(o, q, IF o.remaining_qty = q THEN "FILLED"
                               ELSE "PARTIALLY_FILLED") \in Order
      BY <1>2, <1>4, ReduceType
    <3>2. call'[t] \in Call
      BY <1>2, <2>1, <3>1 DEF Call
    <3> QED BY <3>2, CallAssumption
  <2>4. \A u \in Threads \ {t} : call'[u] = call[u]
    BY <1>1 DEF MatchEffect, Custody, TypeOK
  <2> QED
    BY <1>5, <2>2, <2>3, <2>4
<1>7. /\ \A s \in Refs \ {r} : resting'[s] = resting[s]
      /\ m.remaining_qty = q => resting'[r] = NoOrder
      /\ m.remaining_qty # q =>
           /\ resting'[r] # NoOrder
           /\ resting'[r].remaining_qty = m.remaining_qty - q
           /\ resting'[r].filled_qty = m.filled_qty + q
           /\ resting'[r].original_qty = m.original_qty
  <2>1. resting \in [Refs -> Order \cup {NoOrder}]
    BY DEF Custody, TypeOK
  <2>2. CASE m.remaining_qty = q
    BY <1>1, <1>4, <2>1, <2>2 DEF MatchEffect, removeOrder
  <2>3. CASE m.remaining_qty # q
    <3>1. resting' = [resting EXCEPT ![r] = reduceOrderQty(m, q, "PARTIALLY_FILLED")]
      BY <1>1, <1>4, <2>3 DEF MatchEffect
    <3>2. reduceOrderQty(m, q, "PARTIALLY_FILLED") # NoOrder
      BY <1>2, <1>4, ReduceType, IdsAssumption
    <3> QED
      BY <1>5, <2>1, <2>3, <3>1, <3>2
  <2> QED BY <2>2, <2>3
<1>8. /\ \A s \in Refs \ {n, r} : ledger'[s] = ledger[s]
      /\ ledger'[n] = Booked(ledger[n], q, FALSE)
      /\ ledger'[r] = Booked(ledger[r], q, m.remaining_qty - q = 0)
  BY Zenon, <1>1, <1>2, <1>3 DEF MatchEffect, Custody, TypeOK
<1>9. /\ ledger'[n].phase = ledger[n].phase /\ ledger'[n].traded = ledger[n].traded + q
      /\ ledger'[n].original = ledger[n].original
      /\ ledger'[n].cancelled = ledger[n].cancelled
      /\ ledger'[r].phase = (IF m.remaining_qty = q THEN "done" ELSE ledger[r].phase)
      /\ ledger'[r].traded = ledger[r].traded + q
      /\ ledger'[r].original = ledger[r].original
      /\ ledger'[r].cancelled = ledger[r].cancelled
  <2>1. ledger[n] \in Account /\ ledger[r] \in Account
    BY <1>2 DEF Custody, TypeOK
  <2> QED
    BY <1>4, <1>8, <2>1 DEF Booked, Account
<1>10. /\ ledger \in [Refs -> Account]
       /\ ledger[n].traded \in Nat /\ ledger[n].original \in Nat
       /\ ledger[n].cancelled \in Nat /\ ledger[r].traded \in Nat
       /\ ledger[r].original \in Nat /\ ledger[r].cancelled \in Nat
  BY SMTT(30), <1>2 DEF Custody, TypeOK, Account
<1> HIDE DEF n, o, m
<1>11. LiveInOnePlace'
  <2>1. \A s \in Refs : Holders(s)' = Holders(s)
    BY <1>2, <1>6 DEF Holders, n
  <2>2. InBook' = IF m.remaining_qty = q THEN InBook \ {r} ELSE InBook
    BY <1>2, <1>7 DEF InBook
  <2> SUFFICES ASSUME NEW s \in Refs
               PROVE  /\ ledger'[s].phase = "live" <=> (s \in InBook' \/ Holders(s) # {})
                      /\ s \in InBook' => Holders(s) = {}
                      /\ \A u, v \in Holders(s) : u = v
    BY <2>1 DEF LiveInOnePlace
  <2>3. /\ ledger[s].phase = "live" <=> (s \in InBook \/ Holders(s) # {})
        /\ s \in InBook => Holders(s) = {}
        /\ \A u, v \in Holders(s) : u = v
    BY DEF Custody, LiveInOnePlace
  <2>4. CASE s = r
    BY <1>2, <1>9, <2>2, <2>3, <2>4
  <2>5. CASE s # r
    BY Zenon, <1>8, <1>9, <2>2, <2>3, <2>5
  <2> QED BY <2>4, <2>5
<1>12. QuantityConserved'
  <2>1. ASSUME NEW s \in Refs, resting'[s] # NoOrder
        PROVE  /\ resting'[s].original_qty = ledger'[s].original
               /\ resting'[s].filled_qty = ledger'[s].traded
               /\ resting'[s].remaining_qty
                    = ledger'[s].original - ledger'[s].traded - ledger'[s].cancelled
    <3>1. s # n
      BY <1>2, <1>3, <1>7, <2>1 DEF Custody, LiveInOnePlace, Holders, InBook, n
    <3>2. CASE s # r
      BY <1>7, <1>8, <2>1, <3>1, <3>2 DEF Custody, QuantityConserved, InBook
    <3>3. CASE s = r
      <4>1. /\ m.original_qty = ledger[r].original /\ m.filled_qty = ledger[r].traded
            /\ m.remaining_qty = ledger[r].original - ledger[r].traded - ledger[r].cancelled
        BY <1>2 DEF Custody, QuantityConserved, m
      <4> QED
        BY <1>4, <1>7, <1>9, <1>10, <2>1, <3>3, <4>1
    <3> QED BY <3>2, <3>3
  <2>2. ASSUME NEW u \in Threads, call'[u] # NoOrder
        PROVE  /\ call'[u].order.original_qty = ledger'[call'[u].ref].original
               /\ call'[u].order.filled_qty = ledger'[call'[u].ref].traded
               /\ call'[u].order.remaining_qty
                    = ledger'[call'[u].ref].original - ledger'[call'[u].ref].traded
               /\ ledger'[call'[u].ref].cancelled = 0
    <3>1. CASE u = t
      <4>1. /\ o.original_qty = ledger[n].original /\ o.filled_qty = ledger[n].traded
            /\ o.remaining_qty = ledger[n].original - ledger[n].traded
            /\ ledger[n].cancelled = 0
        BY <1>2 DEF Custody, QuantityConserved, n, o
      <4> QED
        BY <1>4, <1>6, <1>9, <1>10, <3>1, <4>1
    <3>2. CASE u # t
      <4>1. call'[u] = call[u] /\ call[u] # NoOrder /\ call[u].ref \in Refs
        BY <1>6, <2>2, <3>2, OrderTypes DEF Custody
      <4>2. call[u].ref # n /\ call[u].ref # r
        BY <1>2, <3>2, <4>1 DEF Custody, LiveInOnePlace, Holders, n
      <4>3. ledger'[call[u].ref] = ledger[call[u].ref]
        BY <1>8, <4>1, <4>2
      <4> QED
        BY <4>1, <4>3 DEF Custody, QuantityConserved
    <3> QED BY <3>1, <3>2
  <2>3. ASSUME NEW s \in Refs
        PROVE  ledger'[s].traded + ledger'[s].cancelled <= ledger'[s].original
    <3>1. CASE s \notin {n, r}
      BY <1>8, <3>1 DEF Custody, QuantityConserved
    <3>2. CASE s = n
      BY <1>2, <1>4, <1>9, <1>10, <3>2 DEF Custody, QuantityConserved, n, o
    <3>3. CASE s = r
      BY <1>2, <1>4, <1>9, <1>10, <3>3 DEF Custody, QuantityConserved, m
    <3> QED BY <3>1, <3>2, <3>3
  <2> QED
    BY <2>1, <2>2, <2>3 DEF QuantityConserved, InBook
<1> QED BY <1>11, <1>12

\* A fresh order n enters through the call c of thread t; the accounts were L
\* just before, after an order it replaces left its book.
Enters(t, n, c, a, L) ==
  /\ call[t] = NoOrder /\ call' = [call EXCEPT ![t] = c]
  /\ c.ref = n /\ c.order.filled_qty = 0
  /\ c.order.remaining_qty = c.order.original_qty
  /\ ledger[n].phase = "new" /\ L[n].phase = "new" /\ ledger' = [L EXCEPT ![n] = a]
  /\ a.phase = "live" /\ a.original = c.order.original_qty
  /\ a.traded = 0 /\ a.cancelled = 0
  /\ \A u \in Threads : call[u] # NoOrder => L[call[u].ref] = ledger[call[u].ref]
  /\ \A s \in Refs :
       /\ L[s].traded + L[s].cancelled <= L[s].original
       /\ resting'[s] # NoOrder => resting'[s] = resting[s] /\ L[s] = ledger[s]
       /\ resting[s] # NoOrder /\ resting'[s] = NoOrder => L[s].phase = "done"
       /\ resting[s] = NoOrder => L[s] = ledger[s]

\* Submitting an order under a fresh reference: the call of t is its one place.
LEMMA EnterCustody ==
  ASSUME Custody, NEW t \in Threads, NEW n \in Refs, NEW c \in Call,
         NEW a \in Account, NEW L \in [Refs -> Account], Enters(t, n, c, a, L)
  PROVE  LiveInOnePlace' /\ QuantityConserved'
<1> USE DEF Enters
<1>1. /\ \A u \in Threads \ {t} : call'[u] = call[u]
      /\ call'[t] = c /\ c # NoOrder
      /\ \A s \in Refs \ {n} : ledger'[s] = L[s]
      /\ ledger'[n] = a
  BY CallAssumption DEF Custody, TypeOK
<1>2. resting[n] = NoOrder /\ Holders(n) = {}
  BY DEF Custody, LiveInOnePlace, InBook
<1>3. \A u \in Threads \ {t} : call[u] # NoOrder =>
        call[u].ref \in Refs /\ call[u].ref # n
  BY <1>2, OrderTypes DEF Custody, Holders
<1>4. LiveInOnePlace'
  <2>1. \A s \in Refs \ {n} : Holders(s)' = Holders(s)
    BY <1>1 DEF Holders
  <2>2. Holders(n)' = {t}
    BY <1>1, <1>2 DEF Holders
  <2>3. ASSUME NEW s \in Refs
        PROVE  /\ ledger'[s].phase = "live" <=> (s \in InBook' \/ Holders(s)' # {})
               /\ s \in InBook' => Holders(s)' = {}
               /\ \A u, v \in Holders(s)' : u = v
    <3>1. CASE s = n
      <4>1. n \notin InBook'
        BY <1>2 DEF InBook
      <4> QED
        BY SMTT(30), <1>1, <2>2, <3>1, <4>1
    <3>2. CASE s # n
      <4>1. /\ ledger[s].phase = "live" <=> (s \in InBook \/ Holders(s) # {})
            /\ s \in InBook => Holders(s) = {}
            /\ \A u, v \in Holders(s) : u = v
        BY DEF Custody, LiveInOnePlace
      <4>2. CASE s \in InBook
        BY <1>1, <2>1, <3>2, <4>1, <4>2 DEF InBook
      <4>3. CASE s \notin InBook
        BY <1>1, <2>1, <3>2, <4>1, <4>3 DEF InBook
      <4> QED BY <4>2, <4>3
    <3> QED BY <3>1, <3>2
  <2> QED
    BY <2>3 DEF LiveInOnePlace
<1>5. QuantityConserved'
  <2>1. ASSUME NEW s \in Refs, resting'[s] # NoOrder
        PROVE  /\ resting'[s].original_qty = ledger'[s].original
               /\ resting'[s].filled_qty = ledger'[s].traded
               /\ resting'[s].remaining_qty
                    = ledger'[s].original - ledger'[s].traded - ledger'[s].cancelled
    <3>1. s # n
      BY <1>2, <2>1
    <3> QED
      BY <1>1, <2>1, <3>1 DEF Custody, QuantityConserved, InBook
  <2>2. ASSUME NEW u \in Threads, call'[u] # NoOrder
        PROVE  /\ call'[u].order.original_qty = ledger'[call'[u].ref].original
               /\ call'[u].order.filled_qty = ledger'[call'[u].ref].traded
               /\ call'[u].order.remaining_qty
                    = ledger'[call'[u].ref].original - ledger'[call'[u].ref].traded
               /\ ledger'[call'[u].ref].cancelled = 0
    <3>1. CASE u = t
      <4>1. a.original \in Nat
        BY DEF Account
      <4> QED
        BY <1>1, <3>1, <4>1
    <3>2. CASE u # t
      BY <1>1, <1>3, <2>2, <3>2 DEF Custody, QuantityConserved
    <3> QED BY <3>1, <3>2
  <2>3. ASSUME NEW s \in Refs
        PROVE  ledger'[s].traded + ledger'[s].cancelled <= ledger'[s].original
    <3>1. a.original \in Nat
      BY DEF Account
    <3> QED
      BY <1>1, <3>1
  <2> QED
    BY <2>1, <2>2, <2>3 DEF QuantityConserved, InBook
<1> QED BY <1>4, <1>5

=============================================================================
