---------------------- MODULE MatchingEngine_lifecycle ----------------------
(***************************************************************************)
(* The matching engine implements OrderLifecycle, what it promises the     *)
(* owner of an order.                                                      *)
(***************************************************************************)
EXTENDS MatchingEngine_custody

\* What an account of the history says the abstract account is.  The mapping
\* of MatchingEngine takes the open quantity from the book or the call that
\* holds the order; under Custody the two agree.
View(a) == [phase  |-> a.phase,
            open   |-> IF a.phase = "live"
                       THEN a.original - a.traded - a.cancelled ELSE 0,
            traded |-> a.traded]

\* The quantity open in a book or a call is what the history says is owed.
LEMMA OpenIsOwed ==
  ASSUME Custody, NEW r \in Refs
  PROVE  OpenQty(r) = View(ledger[r]).open
<1>1. ledger[r] \in Account
  BY Zenon DEF Custody, TypeOK
<1>2. CASE r \in InBook
  <2>1. /\ ledger[r].phase = "live"
        /\ resting[r].remaining_qty
             = ledger[r].original - ledger[r].traded - ledger[r].cancelled
    BY <1>2 DEF Custody, LiveInOnePlace, QuantityConserved
  <2> QED BY <1>2, <2>1 DEF OpenQty, View
<1>3. CASE r \notin InBook /\ Holders(r) # {}
  <2>1. ledger[r].phase = "live"
    BY <1>3 DEF Custody, LiveInOnePlace
  <2> DEFINE c == CHOOSE x \in {call[t] : t \in Threads} : x # NoOrder /\ x.ref = r
  <2>2. \E x \in {call[t] : t \in Threads} : x # NoOrder /\ x.ref = r
    BY <1>3 DEF Holders
  <2>3. c \in {call[t] : t \in Threads} /\ c # NoOrder /\ c.ref = r
    BY Zenon, <2>2
  <2>4. OpenQty(r) = c.order.remaining_qty
    BY Zenon, <1>3, <2>2 DEF OpenQty
  <2> HIDE DEF c
  <2>5. c.order.remaining_qty = ledger[r].original - ledger[r].traded /\ ledger[r].cancelled = 0
    BY <2>3 DEF Custody, QuantityConserved
  <2> QED BY <1>1, <2>1, <2>4, <2>5 DEF View, Account
<1>4. CASE r \notin InBook /\ Holders(r) = {}
  <2>1. ledger[r].phase # "live"
    BY <1>4 DEF Custody, LiveInOnePlace
  <2>2. OpenQty(r) = 0
    BY <1>4 DEF OpenQty, Holders
  <2> QED BY <2>1, <2>2 DEF View
<1> QED BY <1>2, <1>3, <1>4

\* The abstract state is the history, seen from outside.
Mapped == acct = [r \in Refs |-> View(ledger[r])]

\* Under Custody the abstract state is a function of the history alone.
LEMMA CustodyMaps == Custody => Mapped
<1> SUFFICES ASSUME Custody PROVE acct = [r \in Refs |-> View(ledger[r])]
  BY DEF Mapped
<1>1. \A r \in Refs : OpenQty(r) = View(ledger[r]).open
  BY Zenon, OpenIsOwed
<1>2. ASSUME NEW r \in Refs
      PROVE  [phase |-> ledger[r].phase, open |-> OpenQty(r), traded |-> ledger[r].traded]
               = View(ledger[r])
  BY <1>1 DEF View
<1> QED BY Zenon, <1>2 DEF acct

\* The same of the next state.
LEMMA CustodyMapsNext == Custody' => Mapped'
BY CustodyMaps, PTL

\* What two accounts and a step on some of them look like from outside.
LEMMA ViewOfStep ==
  ASSUME Custody, Custody'
  PROVE  /\ acct \in [Refs -> [phase : {"new", "live", "done"}, open : Int, traded : Nat]]
         /\ \A r \in Refs : acct[r] = View(ledger[r])
         /\ acct' = [r \in Refs |-> View(ledger'[r])]
<1>1. ledger \in [Refs -> Account]
  BY Zenon DEF Custody, TypeOK
<1>2. ASSUME NEW r \in Refs
      PROVE  View(ledger[r]) \in [phase : {"new", "live", "done"}, open : Int, traded : Nat]
  <2>1. ledger[r] \in Account
    BY <1>1
  <2> QED BY <2>1 DEF View, Account
<1>3. acct = [r \in Refs |-> View(ledger[r])]
  BY CustodyMaps DEF Mapped
<1>4. acct' = [r \in Refs |-> View(ledger'[r])]
  BY Zenon, CustodyMapsNext DEF Mapped, View
<1> QED BY Zenon, <1>2, <1>3, <1>4

\* A step that leaves the history alone is a stutter of the abstract system.
LEMMA StutterStep ==
  ASSUME Custody, Custody', ledger' = ledger
  PROVE  acct' = acct
BY Zenon, CustodyMaps, CustodyMapsNext DEF Mapped, View

\* A step on one account of the history changes that abstract account.
LEMMA OneAccount ==
  ASSUME Custody, Custody', NEW r \in Refs, NEW a, ledger' = [ledger EXCEPT ![r] = a]
  PROVE  acct' = [acct EXCEPT ![r] = View(a)]
<1>1. ledger \in [Refs -> Account]
  BY Zenon DEF Custody, TypeOK
<1>2. \A s \in Refs : ledger'[s] = IF s = r THEN a ELSE ledger[s]
  BY Zenon, <1>1
<1>3. /\ DOMAIN acct = Refs /\ DOMAIN acct' = Refs
      /\ \A u \in Refs : acct[u] = View(ledger[u]) /\ acct'[u] = View(ledger'[u])
      /\ acct' = [u \in Refs |-> acct'[u]]
  BY Zenon, ViewOfStep
<1> QED BY <1>2, <1>3

Both(f, r, a, s, b) == [f EXCEPT ![r] = a, ![s] = b]

\* A step on two of them changes both.
LEMMA TwoAccounts ==
  ASSUME Custody, Custody', NEW r \in Refs, NEW s \in Refs, r # s, NEW a, NEW b,
         ledger' = Both(ledger, r, a, s, b)
  PROVE  acct' = Both(acct, r, View(a), s, View(b))
<1>1. ledger \in [Refs -> Account]
  BY Zenon DEF Custody, TypeOK
<1>2. \A u \in Refs : ledger'[u] = IF u = s THEN b ELSE IF u = r THEN a ELSE ledger[u]
  BY Zenon, <1>1 DEF Both
<1>3. /\ DOMAIN acct = Refs /\ DOMAIN acct' = Refs
      /\ \A u \in Refs : acct[u] = View(ledger[u]) /\ acct'[u] = View(ledger'[u])
      /\ acct' = [u \in Refs |-> acct'[u]]
  BY Zenon, ViewOfStep
<1>4. ASSUME NEW u \in Refs
      PROVE  acct'[u] = IF u = s THEN View(b) ELSE IF u = r THEN View(a) ELSE acct[u]
  <2>1. CASE u = s
    BY Zenon, <1>2, <1>3, <2>1
  <2>2. CASE u # s /\ u = r
    BY Zenon, <1>2, <1>3, <2>2
  <2>3. CASE u # s /\ u # r
    <3>1. ledger'[u] = ledger[u]
      BY <1>2, <2>3
    <3>2. acct'[u] = acct[u]
      BY Zenon, <1>3, <3>1
    <3> QED BY <2>3, <3>2
  <2> QED BY Zenon, <2>1, <2>2, <2>3
<1>5. [acct EXCEPT ![r] = View(a), ![s] = View(b)] =
        [u \in Refs |-> IF u = s THEN View(b) ELSE IF u = r THEN View(a) ELSE acct[u]]
  BY Zenon, <1>3
<1> QED BY Zenon, <1>3, <1>4, <1>5 DEF Both

\* A closed account, one that trades q and one that gives up q.
LEMMA Views ==
  ASSUME NEW a \in Account, a.phase = "live", NEW q \in Nat
  PROVE  /\ View([a EXCEPT !.phase = "done"]) = Lifecycle!Done(View(a))
         /\ View(Dropped(a, q)) = Lifecycle!Done(View(a))
         /\ View(Booked(a, q, FALSE)) = Lifecycle!Traded(View(a), q)
         /\ View(Booked(a, q, TRUE)) = Lifecycle!Done(Lifecycle!Traded(View(a), q))
         /\ View([a EXCEPT !.cancelled = @ + q]) = [View(a) EXCEPT !.open = @ - q]
<1>1. /\ a.original \in Nat /\ a.traded \in Nat /\ a.cancelled \in Nat
      /\ View(a) = [phase |-> "live", open |-> a.original - a.traded - a.cancelled,
                    traded |-> a.traded]
  BY DEF View, Account
<1>2. /\ [a EXCEPT !.phase = "done"].phase = "done"
      /\ [a EXCEPT !.phase = "done"].traded = a.traded
      /\ Dropped(a, q).phase = "done" /\ Dropped(a, q).traded = a.traded
  BY DEF Dropped, Account
<1>3. /\ View([a EXCEPT !.phase = "done"]) = Lifecycle!Done(View(a))
      /\ View(Dropped(a, q)) = Lifecycle!Done(View(a))
  BY <1>1, <1>2 DEF View, Lifecycle!Done
<1>4. /\ Booked(a, q, FALSE).phase = "live" /\ Booked(a, q, TRUE).phase = "done"
      /\ \A g \in BOOLEAN : /\ Booked(a, q, g).traded = a.traded + q
                            /\ Booked(a, q, g).original = a.original
                            /\ Booked(a, q, g).cancelled = a.cancelled
  BY DEF Booked, Account
<1>5. View(Booked(a, q, FALSE)) = Lifecycle!Traded(View(a), q)
  <2>1. a.original - (a.traded + q) - a.cancelled = (a.original - a.traded - a.cancelled) - q
    BY <1>1
  <2> QED BY Zenon, <1>1, <1>4, <2>1 DEF View, Lifecycle!Traded
<1>6. View(Booked(a, q, TRUE)) = Lifecycle!Done(Lifecycle!Traded(View(a), q))
  BY Zenon, <1>1, <1>4 DEF View, Lifecycle!Traded, Lifecycle!Done
<1>7. View([a EXCEPT !.cancelled = @ + q]) = [View(a) EXCEPT !.open = @ - q]
  <2>1. a.original - a.traded - (a.cancelled + q) = (a.original - a.traded - a.cancelled) - q
    BY <1>1
  <2>2. /\ [a EXCEPT !.cancelled = @ + q].phase = "live"
        /\ [a EXCEPT !.cancelled = @ + q].traded = a.traded
        /\ [a EXCEPT !.cancelled = @ + q].original = a.original
        /\ [a EXCEPT !.cancelled = @ + q].cancelled = a.cancelled + q
    BY DEF Account
  <2> QED BY <1>1, <2>1, <2>2 DEF View
<1> QED BY Zenon, <1>3, <1>5, <1>6, <1>7

-----------------------------------------------------------------------------
\* What a step of the engine must look like from outside.
Allowed == [Lifecycle!Next]_acct

\* Closing an account is a Leave.
LEMMA CloseStep ==
  ASSUME Custody, Custody', NEW r \in Refs, ledger[r].phase = "live",
         ledger' = Close(ledger, r)
  PROVE  Allowed
<1>1. ledger[r] \in Account /\ ledger' = [ledger EXCEPT ![r] = [ledger[r] EXCEPT !.phase = "done"]]
  BY Zenon DEF Custody, TypeOK, Close
<1>2. acct' = [acct EXCEPT ![r] = View([ledger[r] EXCEPT !.phase = "done"])]
  BY Zenon, <1>1, OneAccount
<1>3. acct[r] = View(ledger[r]) /\ View(ledger[r]).phase = "live"
  BY ViewOfStep DEF View
<1>4. 0 \in Nat
  OBVIOUS
<1>5. View([ledger[r] EXCEPT !.phase = "done"]) = Lifecycle!Done(acct[r])
  BY Zenon, <1>1, <1>3, <1>4, Views
<1> QED
  BY Zenon, <1>2, <1>3, <1>5 DEF Allowed, Lifecycle!Next, Lifecycle!Leave, Lifecycle!Live

\* The end of a call closes the account, or only moves the order to its book.
LEMMA FinishStep ==
  ASSUME Custody, Custody', NEW t \in Threads,
         finishFilled(t) \/ finishDropped(t) \/ finishRest(t)
  PROVE  Allowed
<1>1. call[t] # NoOrder /\ ledger' \in {ledger, Close(ledger, call[t].ref)}
  BY Zenon DEF finishFilled, finishDropped, finishRest, AfterLoop
<1>2. call[t].ref \in Refs /\ ledger[call[t].ref].phase = "live"
  BY <1>1, OrderTypes DEF Custody, LiveInOnePlace, Holders
<1>3. CASE ledger' = ledger
  BY Zenon, <1>3, StutterStep DEF Allowed
<1>4. CASE ledger' = Close(ledger, call[t].ref)
  BY <1>2, <1>4, CloseStep
<1> QED BY <1>1, <1>3, <1>4

\* A cancel is a Leave, a partial one a Withdraw, a refused one a stutter.
LEMMA CancelStep ==
  ASSUME Custody, Custody', NEW ref \in Refs, NEW user, CancelEffect(ref, user)
  PROVE  Allowed
<1> DEFINE a == ledger[ref]
           k == resting[ref].remaining_qty
<1>1. CASE UNCHANGED <<resting, ledger>>
  BY Zenon, <1>1, StutterStep DEF Allowed
<1>2. CASE Owned(ref, user)
  <2>1. /\ a \in Account /\ a.phase = "live" /\ resting[ref] \in Order
        /\ k = a.original - a.traded - a.cancelled
    BY <1>2, OrderTypes DEF Owned, Custody, TypeOK, LiveInOnePlace, QuantityConserved
  <2>2. /\ k \in Nat /\ acct[ref] = View(a) /\ View(a).phase = "live" /\ View(a).open = k
    BY <2>1, ViewOfStep DEF View, Order
  <2>3. CASE ledger' = [ledger EXCEPT ![ref] = Dropped(@, k)]
    <3>1. acct' = [acct EXCEPT ![ref] = View(Dropped(a, k))]
      BY Zenon, <2>3, OneAccount
    <3>2. View(Dropped(a, k)) = Lifecycle!Done(acct[ref])
      BY Zenon, <2>1, <2>2, Views
    <3> HIDE DEF a, k
    <3> QED
      BY Zenon, <2>2, <3>1, <3>2 DEF Allowed, Lifecycle!Next, Lifecycle!Leave, Lifecycle!Live
  <2>4. ASSUME NEW q \in Nat, q < k, ledger' = [ledger EXCEPT ![ref].cancelled = @ + q]
        PROVE  Allowed
    <3>1. acct' = [acct EXCEPT ![ref] = View([a EXCEPT !.cancelled = @ + q])]
      BY Zenon, <2>4, OneAccount
    <3>2. View([a EXCEPT !.cancelled = @ + q]) = [acct[ref] EXCEPT !.open = @ - q]
      <4> HIDE DEF a
      <4>1. View([a EXCEPT !.cancelled = @ + q]) = [View(a) EXCEPT !.open = @ - q]
        BY Zenon, <2>1, Views
      <4> QED BY Zenon, <2>2, <4>1
    <3>3. q \in 0 .. acct[ref].open - 1
      BY <2>2, <2>4
    <3> HIDE DEF a, k
    <3> QED
      BY Zenon, <2>2, <3>1, <3>2, <3>3
      DEF Allowed, Lifecycle!Next, Lifecycle!Withdraw, Lifecycle!Live
  <2> QED BY <1>1, <1>2, <2>3, <2>4 DEF CancelEffect
<1> QED BY <1>1, <1>2 DEF CancelEffect

\* An iteration of the matching loop is a Trade of the call's order with the
\* maker, of the smaller of the two open quantities.
LEMMA MatchStep ==
  ASSUME Custody, Custody', NEW t \in Threads, NEW r \in Refs, matchOrder(t, r)
  PROVE  Allowed
<1> DEFINE n == call[t].ref
           o == call[t].order.remaining_qty
           m == resting[r].remaining_qty
<1>1. /\ call[t] # NoOrder /\ n \in Refs /\ call[t].order \in Order
      /\ r \in InBook /\ resting[r] \in Order /\ o > 0
  BY MatchFacts DEF Custody
<1>2. PICK q \in Nat : MatchEffect(t, r, q)
  BY MatchFacts DEF Custody
<1>3. /\ n # r /\ ledger[n] \in Account /\ ledger[r] \in Account
      /\ ledger[n].phase = "live" /\ ledger[r].phase = "live"
  BY <1>1 DEF Custody, TypeOK, LiveInOnePlace, Holders
<1>4. /\ o \in Nat /\ m \in Nat
      /\ o = ledger[n].original - ledger[n].traded /\ ledger[n].cancelled = 0
      /\ m = ledger[r].original - ledger[r].traded - ledger[r].cancelled
  BY <1>1 DEF Custody, QuantityConserved, Order
<1>5. /\ q <= o /\ q <= m /\ q \in {o, m}
      /\ ledger' = [ledger EXCEPT ![n] = Booked(@, q, FALSE),
                                  ![r] = Booked(@, q, m - q = 0)]
  BY Zenon, <1>2 DEF MatchEffect
<1>6. /\ acct[n] = View(ledger[n]) /\ acct[r] = View(ledger[r])
      /\ View(ledger[n]).phase = "live" /\ View(ledger[r]).phase = "live"
  BY <1>1, <1>3, ViewOfStep DEF View
<1>7. View(ledger[n]).open = o /\ View(ledger[r]).open = m
  <2>1. ledger[n].original - ledger[n].traded - 0 = ledger[n].original - ledger[n].traded
    BY <1>3 DEF Account
  <2> QED BY <1>3, <1>4, <2>1 DEF View
<1> HIDE DEF n, o, m
<1>8. q = (IF o < m THEN o ELSE m) /\ (m - q = 0 <=> m = q)
  BY <1>4, <1>5
<1>9. acct' = [acct EXCEPT ![n] = View(Booked(ledger[n], q, FALSE)),
                           ![r] = View(Booked(ledger[r], q, m = q))]
  <2>1. ledger' = [ledger EXCEPT ![n] = Booked(ledger[n], q, FALSE),
                                 ![r] = Booked(ledger[r], q, m = q)]
    <3>1. (m - q = 0) = (m = q)
      BY <1>8
    <3>2. ledger \in [Refs -> Account]
      BY Zenon DEF Custody, TypeOK
    <3> QED BY Zenon, <1>1, <1>3, <1>5, <3>1, <3>2
  <2> DEFINE a == Booked(ledger[n], q, FALSE)
             b == Booked(ledger[r], q, m = q)
  <2>2. ledger' = Both(ledger, n, a, r, b)
    BY <2>1 DEF Both
  <2> HIDE DEF a, b
  <2>3. acct' = Both(acct, n, View(a), r, View(b))
    BY <1>1, <1>3, <2>2, TwoAccounts
  <2> QED BY <2>3 DEF a, b, Both
<1>10. /\ View(Booked(ledger[n], q, FALSE)) = Lifecycle!Traded(acct[n], q)
       /\ View(Booked(ledger[r], q, m = q)) =
            IF m = q THEN Lifecycle!Done(Lifecycle!Traded(acct[r], q))
            ELSE Lifecycle!Traded(acct[r], q)
  <2>1. /\ View(Booked(ledger[n], q, FALSE)) = Lifecycle!Traded(View(ledger[n]), q)
        /\ View(Booked(ledger[r], q, FALSE)) = Lifecycle!Traded(View(ledger[r]), q)
        /\ View(Booked(ledger[r], q, TRUE))
             = Lifecycle!Done(Lifecycle!Traded(View(ledger[r]), q))
    BY Zenon, <1>3, Views
  <2>2. CASE m = q
    <3>1. (m = q) = TRUE
      BY <2>2
    <3> QED BY Zenon, <1>6, <2>1, <3>1
  <2>3. CASE m # q
    <3>1. (m = q) = FALSE
      BY <2>3
    <3> QED BY Zenon, <1>6, <2>1, <2>3, <3>1
  <2> QED BY Zenon, <2>2, <2>3
<1>11. /\ acct[n].open = o /\ acct[r].open = m /\ acct[n].phase = "live"
       /\ acct[r].phase = "live"
  BY Zenon, <1>6, <1>7
<1>12. acct' = [acct EXCEPT ![n] = Lifecycle!Traded(acct[n], q),
                            ![r] = IF acct[r].open = q
                                   THEN Lifecycle!Done(Lifecycle!Traded(acct[r], q))
                                   ELSE Lifecycle!Traded(acct[r], q)]
  BY Zenon, <1>9, <1>10, <1>11
<1>13. Lifecycle!Trade(n, r)
  <2>1. q = IF acct[n].open < acct[r].open THEN acct[n].open ELSE acct[r].open
    BY Zenon, <1>8, <1>11
  <2>2. DOMAIN acct = Refs /\ acct[n].open > 0
    BY <1>1, <1>11, ViewOfStep
  <2> QED
    BY Zenon, <1>1, <1>3, <1>11, <1>12, <2>1, <2>2 DEF Lifecycle!Trade, Lifecycle!Live
<1> QED BY Zenon, <1>1, <1>13 DEF Allowed, Lifecycle!Next

\* A new account is fresh.
LEMMA FreshView ==
  ASSUME NEW side, NEW tif, NEW q \in Nat
  PROVE  View([phase |-> "live", side |-> side, tif |-> tif, original |-> q,
               traded |-> 0, cancelled |-> 0]) = Lifecycle!Fresh(q)
BY DEF View, Lifecycle!Fresh

\* An accepted ADD is a Submit, a refused one a stutter.
LEMMA AddStep ==
  ASSUME Custody, Custody', NEW t \in Threads, NEW loc \in LocateInputs,
         NEW ref \in Refs \cup {Zero}, NEW side \in Sides \cup {"INVALID"},
         NEW price \in Prices, NEW quantity \in Quantities, NEW tif \in Tifs,
         NEW user \in UsersOf[ref],
         processAdd(t, loc, ref, side, price, quantity, user, tif)
  PROVE  Allowed
<1>1. CASE AddError(loc, ref, side, price, quantity, user, tif) # "NONE"
  <2>1. ledger' = ledger
    BY Zenon, <1>1 DEF processAdd
  <2> QED BY Zenon, <2>1, StutterStep DEF Allowed
<1>2. CASE AddError(loc, ref, side, price, quantity, user, tif) = "NONE"
  <2> DEFINE a == [phase |-> "live", side |-> side, tif |-> tif, original |-> quantity,
                   traded |-> 0, cancelled |-> 0]
  <2>1. ref \in Refs /\ quantity \in Nat
    BY <1>2, AddAccepted
  <2>2. ledger[ref].phase = "new" /\ ledger' = [ledger EXCEPT ![ref] = a]
    BY Zenon, <1>2, <2>1 DEF processAdd, Fresh, Submitted
  <2>3. View(a) = Lifecycle!Fresh(quantity)
    BY Zenon, <2>1, FreshView
  <2> HIDE DEF a
  <2>4. acct' = [acct EXCEPT ![ref] = View(a)]
    BY Zenon, <2>1, <2>2, OneAccount
  <2>5. acct[ref].phase = "new"
    <3>1. acct[ref] = View(ledger[ref])
      BY <2>1, ViewOfStep
    <3> QED BY <2>2, <3>1 DEF View
  <2> QED
    BY Zenon, <2>1, <2>3, <2>4, <2>5 DEF Allowed, Lifecycle!Next, Lifecycle!Submit
<1> QED BY <1>1, <1>2

\* A REPLACE that finds its order is an Amend, any other a stutter.
LEMMA ReplaceStep ==
  ASSUME Custody, Custody', NEW t \in Threads, NEW loc \in LocateInputs, NEW old \in Refs,
         NEW new \in Refs \ {old}, NEW price \in Prices, NEW quantity \in Quantities,
         NEW user, processReplace(t, loc, old, new, price, quantity, user)
  PROVE  Allowed
<1>1. CASE ledger' = ledger
  BY Zenon, <1>1, StutterStep DEF Allowed
<1>2. CASE /\ ledger[new].phase = "new" /\ old \in InBook
           /\ ReplaceEffect(t, loc, old, new, price, quantity)
  <2> DEFINE k == resting[old].remaining_qty
             a == [phase |-> "live", side |-> resting[old].side, tif |-> "DAY",
                   original |-> quantity, traded |-> 0, cancelled |-> 0]
             d == Dropped(ledger[old], k)
  <2>1. /\ ledger \in [Refs -> Account] /\ ledger[old] \in Account
        /\ ledger[old].phase = "live" /\ resting[old] \in Order
    BY <1>2, OrderTypes DEF Custody, TypeOK, LiveInOnePlace
  <2>2. k \in Nat /\ quantity \in Nat
    BY <2>1, EngineAssumption DEF Order
  <2>3. ledger' = [ledger EXCEPT ![old] = d, ![new] = a]
    <3>1. ledger' = [[ledger EXCEPT ![new] = a] EXCEPT ![old] = Dropped(@, k)]
      BY <1>2 DEF ReplaceEffect, Submitted
    <3> HIDE DEF a, k
    <3> QED BY Zenon, <2>1, <3>1
  <2>4. View(a) = Lifecycle!Fresh(quantity)
    BY Zenon, <2>2, FreshView
  <2>5. View(d) = Lifecycle!Done(View(ledger[old]))
    BY Zenon, <2>1, <2>2, Views
  <2> HIDE DEF a, d, k
  <2>6. acct' = [acct EXCEPT ![old] = View(d), ![new] = View(a)]
    <3>1. ledger' = Both(ledger, old, d, new, a)
      BY Zenon, <2>3 DEF Both
    <3>2. acct' = Both(acct, old, View(d), new, View(a))
      BY <3>1, TwoAccounts
    <3> QED BY Zenon, <3>2 DEF Both
  <2>7. /\ acct[old] = View(ledger[old]) /\ acct[new] = View(ledger[new])
    BY ViewOfStep
  <2>8. acct[old].phase = "live" /\ acct[new].phase = "new"
    BY <1>2, <2>1, <2>7 DEF View
  <2>9. acct' = [acct EXCEPT ![old] = Lifecycle!Done(acct[old]),
                             ![new] = Lifecycle!Fresh(quantity)]
    BY Zenon, <2>4, <2>5, <2>6, <2>7
  <2>10. Lifecycle!Amend(old, new)
    BY Zenon, <2>8, <2>9 DEF Lifecycle!Amend, Lifecycle!Live
  <2> QED BY Zenon, <2>10 DEF Allowed, Lifecycle!Next
<1>3. \/ ledger' = ledger
      \/ /\ ledger[new].phase = "new" /\ old \in InBook
         /\ ReplaceEffect(t, loc, old, new, price, quantity)
  BY ReplaceFacts DEF Custody
<1> QED BY <1>1, <1>2, <1>3

\* Every step of the engine is a step of the life cycle, or a stutter.
LEMMA StepKeepsLifecycle == Custody /\ Custody' /\ [Next]_vars => Allowed
<1> SUFFICES ASSUME Custody, Custody', [Next]_vars PROVE Allowed
  OBVIOUS
<1>1. ASSUME NEW t \in Threads, Proceed(t) PROVE Allowed
  BY Zenon, <1>1, MatchStep, FinishStep DEF Proceed
<1>2. ASSUME NEW t \in Threads, Request(t) PROVE Allowed
  <2>1. ASSUME NEW loc \in LocateInputs, NEW ref \in Refs, NEW user,
               \/ processCancel(t, loc, ref, user)
               \/ \E shares \in Quantities : processCancelShares(t, loc, ref, shares, user)
        PROVE  Allowed
    <3>1. CancelEffect(ref, user)
      BY <2>1, CancelFacts DEF Custody
    <3> QED BY <3>1, CancelStep
  <2> QED
    BY Zenon, <1>2, <2>1, AddStep, ReplaceStep DEF Request
<1>3. CASE UNCHANGED vars
  <2>1. ledger' = ledger
    BY <1>3 DEF vars
  <2> QED BY Zenon, <2>1, StutterStep DEF Allowed
<1> QED
  BY <1>1, <1>2, <1>3 DEF Next

\* The empty books map to accounts nobody opened.
LEMMA InitKeepsLifecycle == Init => Custody /\ Lifecycle!Init
<1> SUFFICES ASSUME Init PROVE Custody /\ Lifecycle!Init
  OBVIOUS
<1>1. LiveInOnePlace /\ QuantityConserved
  BY DEF Init, LiveInOnePlace, QuantityConserved, Holders, InBook
<1>2. Custody
  BY <1>1, InitType DEF Custody
<1>3. \A r \in Refs : View(ledger[r]) = [phase |-> "new", open |-> 0, traded |-> 0]
  BY Zenon DEF Init, View
<1> QED BY Zenon, <1>2, <1>3, CustodyMaps DEF Mapped, Lifecycle!Init

\* The engine implements the life cycle it promises: whatever prices, books
\* and threads do, a reference is submitted once, its quantity is consumed by
\* trades and withdrawals only, a trade takes the same amount from two live
\* orders, and an order that is done stays done.
THEOREM EngineKeepsLifecycle == Spec => KeepsLifecycle
<1>1. Custody /\ [Next]_vars => Custody' /\ Allowed
  BY NextCustody, StepKeepsLifecycle
<1> QED
  BY InitKeepsLifecycle, <1>1, PTL DEF Spec, KeepsLifecycle, Lifecycle!Spec, Allowed

=============================================================================
