--------------------------- MODULE MatchingEngine ---------------------------
(***************************************************************************)
(* MatchingEngine (src/src/matching_engine.cpp): the order-entry calls of  *)
(* the exchange and the matching loop.                                     *)
(*                                                                         *)
(* A call that matches is several steps: the entry step validates, takes a *)
(* sequence number and writes the log; each iteration of the matching loop *)
(* is one step; the last step rests, drops or acknowledges the order.      *)
(* Calls run in Threads under the contract of matching_engine.h: threads   *)
(* may work on different books at once, never on the same book.            *)
(*                                                                         *)
(* The books are represented by what they promise (module OrderBook shows  *)
(* that the linked lists keep it): resting[r] is the order with reference  *)
(* r in the book of its locate, and a side is consumed in the order Ahead. *)
(* Books are created on first use; an absent book answers as an empty one. *)
(***************************************************************************)
EXTENDS BookPriority, FiniteSetsExt, Sequences

CONSTANTS
  Threads,      \* callers of the engine
  kMaxLocate,   \* number of books
  LocateInputs, \* locates that requests carry
  Prices,       \* prices that requests carry, 0 included where it can happen
  Quantities,   \* quantities that requests carry, 0 included where it can happen
  UsersOf,      \* the user ids under which reference r may be submitted
  Tifs,         \* the times in force that requests carry
  PriceMax,     \* UINT32_MAX as a price
  QtyMod,       \* number of values of a uint32_t quantity
  PoolCap,      \* capacity of the OrderPool
  WalCap,       \* WAL_ENTRIES
  TradeCap,     \* TRADE_CAPACITY
  MaxCalls      \* bound on the number of logged calls

ASSUME EngineAssumption ==
  /\ kMaxLocate \in Nat /\ LocateInputs \subseteq Nat
  /\ PriceMax \in Nat /\ Prices \subseteq 0 .. PriceMax
  /\ QtyMod \in Nat \ {0} /\ Quantities \subseteq 0 .. QtyMod - 1
  /\ UsersOf \in [Refs \cup {Zero} -> SUBSET (Ids \cup {Zero})]
  /\ Tifs \subseteq {"DAY", "IOC", "FOK"}
  /\ PoolCap \in Nat
  /\ WalCap \in Nat \ {0} /\ TradeCap \in Nat \ {0}
  /\ MaxCalls \in Nat

VARIABLES
  resting,        \* the orders in the books, by reference
  call,           \* per thread, the order being matched, or NoOrder
  next_sequence,  \* next_sequence_
  wal,            \* the log: a ring of entries and the count ever written
  trade_pool,     \* the TradePool ring, its write index and the trade ids
  out,            \* per thread, the responses of its current or last call
  ledger          \* history: what became of every order ever submitted

vars == <<resting, call, next_sequence, wal, trade_pool, out, ledger>>

Locates == 0 .. kMaxLocate - 1

Call == [ref : Refs, tif : {"DAY", "IOC", "FOK"}, order : Order]

ASSUME CallAssumption == NoOrder \notin Call

-----------------------------------------------------------------------------
(* Responses and the log.                                                  *)

Err(code) == [type |-> "RSP_ERROR", code |-> code]

Ack(type, ref) == [type |-> type, order_id |-> ref]

\* Fault: a response replaces the earlier ones of its call.
Reply_overwrites(t, rsps) == out' = [out EXCEPT ![t] = rsps]

Reply(t, rsps) == out' = [out EXCEPT ![t] = @ \o rsps]

Answer(t, rsp) == out' = [out EXCEPT ![t] = <<rsp>>]

WalEntry(type, side, loc, price, quantity, user, ref, seq) ==
  [type |-> type, side |-> side, locate |-> loc, price |-> price,
   quantity |-> quantity, user_id |-> user, order_id |-> ref, wal_seq |-> seq]

append(e) ==
  /\ wal.total < MaxCalls
  /\ wal' = [entries |-> [wal.entries EXCEPT ![wal.total % WalCap] = e],
             total   |-> wal.total + 1]

-----------------------------------------------------------------------------
(* The book operations the engine calls, on the promised representation.   *)

\* Fault: the order rests with its original quantity.
addOrder_whole(book, ref, o) ==
  [book EXCEPT ![ref] = [o EXCEPT !.remaining_qty = o.original_qty]]

addOrder(book, ref, o) == [book EXCEPT ![ref] = o]

\* Fault: the order stays in its book.
removeOrder_skipped(book, ref) == book

removeOrder(book, ref) == [book EXCEPT ![ref] = NoOrder]

reduceOrderQty(o, amount, status) ==
  [o EXCEPT !.remaining_qty = @ - amount, !.filled_qty = @ + amount,
            !.status = status]

\* Fault: a partial cancel counts as a fill.
reduceQtyCancel_fills(o, amount) ==
  [o EXCEPT !.remaining_qty = @ - amount, !.filled_qty = @ + amount]

reduceQtyCancel(o, amount) == [o EXCEPT !.remaining_qty = @ - amount]

InBook == {r \in Refs : resting[r] # NoOrder}

SideOf(loc, side) ==
  {r \in InBook : resting[r].locate = loc /\ resting[r].side = side}

\* Fault: a side is matched with itself.
Eligible_ownSide(o) ==
  {r \in SideOf(o.locate, o.side) : resting[r].user_id # o.user_id}

\* Makers that getBestBid / getBestAsk(exclude_user_id) walk over.
Eligible(o) ==
  {r \in SideOf(o.locate, Opposite(o.side)) : resting[r].user_id # o.user_id}

\* r is what getBestBid / getBestAsk returns to an incoming order o.
IsBest(r, o) ==
  /\ r \in Eligible(o)
  /\ \A s \in Eligible(o) \ {r} : Ahead(resting[r], resting[s])

availableQty(loc, side, price) ==
  LET inRange == {r \in SideOf(loc, Opposite(side)) :
                    Crosses([side |-> side, price |-> price], resting[r])}
  IN  MapThenSumSet(LAMBDA r : resting[r].remaining_qty, inRange) % QtyMod

\* Fault: some liquidity is enough.
canFullFill_any(loc, side, price, quantity) == availableQty(loc, side, price) > 0

canFullFill(loc, side, price, quantity) ==
  availableQty(loc, side, price) >= quantity

\* allocate() finds a free slot.
PoolHasRoom == Cardinality(InBook) < PoolCap

-----------------------------------------------------------------------------
(* The contract of the callers.                                            *)

\* One call per thread, and no two calls on the same book at once.
MayEnter(t, loc) ==
  /\ call[t] = NoOrder
  /\ \A u \in Threads : call[u] # NoOrder => call[u].order.locate # loc

\* References are globally unique: an ADD or the new leg of a REPLACE uses a
\* reference that never entered the engine.
Fresh(ref) == ref \in Refs => ledger[ref].phase = "new"

\* A request that names an order in a book carries the locate of that book; no
\* code tests it, and a cancel in the name of another book would unlink the
\* order from levels it is not in.
OwnBook(ref, loc) == ref \in InBook => resting[ref].locate = loc

-----------------------------------------------------------------------------
Submitted(ref, side, tif, quantity) ==
  [ledger EXCEPT ![ref] = [phase |-> "live", side |-> side, tif |-> tif,
                           original |-> quantity, traded |-> 0, cancelled |-> 0]]

NewOrder(loc, ref, side, price, quantity, user) ==
  [locate |-> loc, side |-> side, price |-> price, original_qty |-> quantity,
   remaining_qty |-> quantity, filled_qty |-> 0, user_id |-> user,
   sequence |-> next_sequence, status |-> "OPEN"]

isMarket(tif, price) == tif \in {"IOC", "FOK"} /\ price = 0

\* The price an order is matched with: an extreme one for a market order.
EffectivePrice(tif, side, price) ==
  IF isMarket(tif, price) THEN (IF side = "BUY" THEN PriceMax ELSE 0) ELSE price

\* The early returns of processAdd, in their order.
AddError(loc, ref, side, price, quantity, user, tif) ==
  IF loc \notin Locates THEN "INVALID_COMMAND_TYPE"
  ELSE IF side = "INVALID" THEN "INVALID_SIDE"
  ELSE IF \/ price = 0 /\ ~isMarket(tif, price)
          \/ quantity = 0 \/ user = Zero \/ ref = Zero
       THEN "INVALID_PRICE_QTY_USER"
  ELSE IF /\ tif = "FOK"
          /\ ~canFullFill(loc, side, EffectivePrice(tif, side, price), quantity)
       THEN "FOK_NO_FULL_FILL"
  ELSE "NONE"

processAdd(t, loc, ref, side, price, quantity, user, tif) ==
  LET code == AddError(loc, ref, side, price, quantity, user, tif)
      eff  == EffectivePrice(tif, side, price)
  IN
  /\ MayEnter(t, loc) /\ Fresh(ref)
  /\ \/ /\ code # "NONE"
        /\ Answer(t, Err(code))
        /\ UNCHANGED <<resting, call, next_sequence, wal, trade_pool, ledger>>
     \/ /\ code = "NONE"
        /\ call' = [call EXCEPT ![t] =
             [ref |-> ref, tif |-> tif,
              order |-> NewOrder(loc, ref, side, eff, quantity, user)]]
        /\ next_sequence' = next_sequence + 1
        /\ append(WalEntry("NEW", side, loc, eff, quantity, user, ref,
                           next_sequence'))
        /\ ledger' = Submitted(ref, side, tif, quantity)
        /\ out' = [out EXCEPT ![t] = <<>>]
        /\ UNCHANGED <<resting, trade_pool>>

-----------------------------------------------------------------------------
(* The matching loop: matchBuyOrder and matchSellOrder mirror each other.  *)

LeastOf(a, b) == IF a < b THEN a ELSE b

\* The loop goes on with maker r.
Matches(o, r) ==
  /\ o.remaining_qty > 0
  /\ IsBest(r, o)
  /\ Crosses(o, resting[r])

\* The loop is left: nothing remains, no maker, or the best one is too dear.
LoopDone(o) ==
  \/ o.remaining_qty = 0
  \/ Eligible(o) = {}
  \/ \E r \in Refs : IsBest(r, o) /\ ~Crosses(o, resting[r])

\* The entry written to the TradePool when taker c trades quantity q with r.
TradeEntry(c, r, q) ==
  LET m    == resting[r]
      side == c.order.side
      pair(x, y) == IF side = "BUY" THEN <<x, y>> ELSE <<y, x>>
  IN  [trade_id |-> trade_pool.ids[side] + 1,
       order_id |-> pair(c.ref, r), user_id |-> pair(c.order.user_id, m.user_id),
       price |-> m.price, quantity |-> q, seq |-> next_sequence]

recordTrade(c, r, q) ==
  trade_pool' =
    [entries   |-> [trade_pool.entries EXCEPT ![trade_pool.write_idx % TradeCap]
                      = TradeEntry(c, r, q)],
     write_idx |-> trade_pool.write_idx + 1,
     ids       |-> [trade_pool.ids EXCEPT ![c.order.side] = @ + 1]]

\* The history of an order that trades q and, if `gone`, leaves its book.
Booked(a, q, gone) ==
  [a EXCEPT !.traded = @ + q, !.phase = IF gone THEN "done" ELSE @]

\* One iteration of the loop in thread t, against resting order r.
matchOrder(t, r) ==
  /\ call[t] # NoOrder
  /\ LET c == call[t]
         o == c.order
         m == resting[r]
         q == LeastOf(o.remaining_qty, m.remaining_qty)
         left == m.remaining_qty - q
     IN
     /\ Matches(o, r)
     /\ call' = [call EXCEPT ![t].order = reduceOrderQty(o, q,
                   IF o.remaining_qty = q THEN "FILLED" ELSE "PARTIALLY_FILLED")]
     /\ resting' = IF left = 0
                   THEN removeOrder(resting, r)
                   ELSE [resting EXCEPT ![r] =
                           reduceOrderQty(m, q, "PARTIALLY_FILLED")]
     /\ recordTrade(c, r, q)
     /\ Reply(t, <<[type |-> "RSP_TRADE", order_ref |-> r, price |-> m.price,
                    quantity |-> q]>>)
     /\ ledger' = [ledger EXCEPT ![c.ref] = Booked(@, q, FALSE),
                                 ![r] = Booked(@, q, left = 0)]
  /\ UNCHANGED <<next_sequence, wal>>

-----------------------------------------------------------------------------
(* The end of processAdd and of processReplace, which treats the new order *)
(* as a DAY order.                                                         *)

Close(book, ref) == [book EXCEPT ![ref].phase = "done"]

Return(t) == call' = [call EXCEPT ![t] = NoOrder]

AfterLoop(t, filled) ==
  /\ call[t] # NoOrder
  /\ LoopDone(call[t].order)
  /\ (call[t].order.status = "FILLED") = filled

finishFilled(t) ==
  /\ AfterLoop(t, TRUE)
  /\ Reply(t, <<Ack("RSP_FILLED", call[t].ref)>>)
  /\ ledger' = Close(ledger, call[t].ref)
  /\ Return(t)
  /\ UNCHANGED <<resting, next_sequence, wal, trade_pool>>

\* Fault: the loop goes round until a maker appears.
finishDropped_waits(t) ==
  /\ AfterLoop(t, FALSE)
  /\ call[t].tif \in {"IOC", "FOK"}
  /\ UNCHANGED vars

\* The answer when a remainder is dropped: none to an IOC order that had a
\* fill; for FOK it is a defensive branch after the precheck.
DropReply(c) ==
  CASE c.tif = "IOC" /\ c.order.filled_qty = 0 -> <<Err("MKT_NO_LIQUIDITY")>>
    [] c.tif = "FOK" /\ c.order.filled_qty < c.order.original_qty
         -> <<Err("FOK_NO_FULL_FILL")>>
    [] OTHER -> <<>>

\* IOC and FOK: the remainder is dropped.
finishDropped(t) ==
  /\ AfterLoop(t, FALSE)
  /\ call[t].tif \in {"IOC", "FOK"}
  /\ Reply(t, DropReply(call[t]))
  /\ ledger' = Close(ledger, call[t].ref)
  /\ Return(t)
  /\ UNCHANGED <<resting, next_sequence, wal, trade_pool>>

\* DAY: the remainder rests in the book, or is lost when the pool is full.
finishRest(t) ==
  /\ AfterLoop(t, FALSE)
  /\ call[t].tif = "DAY"
  /\ \/ /\ PoolHasRoom
        /\ resting' = addOrder(resting, call[t].ref, call[t].order)
        /\ Reply(t, <<Ack("RSP_OK", call[t].ref)>>)
        /\ UNCHANGED ledger
     \/ /\ ~PoolHasRoom
        /\ Reply(t, <<Err("POOL_FULL")>>)
        /\ ledger' = Close(ledger, call[t].ref)
        /\ UNCHANGED resting
  /\ Return(t)
  /\ UNCHANGED <<next_sequence, wal, trade_pool>>

-----------------------------------------------------------------------------
\* findOrder succeeds and the order belongs to the user.
Owned(ref, user) == ref \in InBook /\ resting[ref].user_id = user

NotFound(t) ==
  /\ Answer(t, Err("ORDER_NOT_FOUND"))
  /\ UNCHANGED <<resting, ledger>>

processCancel(t, loc, ref, user) ==
  /\ MayEnter(t, loc) /\ OwnBook(ref, loc)
  /\ IF loc \notin Locates
     THEN NotFound(t) /\ UNCHANGED wal
     ELSE /\ append(WalEntry("CANCEL", "NONE", loc, 0, 0, user, ref, next_sequence))
          /\ IF Owned(ref, user)
             THEN /\ resting' = removeOrder(resting, ref)
                  /\ ledger' = Close([ledger EXCEPT ![ref].cancelled =
                                        @ + resting[ref].remaining_qty], ref)
                  /\ Answer(t, Ack("RSP_CANCELLED", ref))
             ELSE NotFound(t)
  /\ UNCHANGED <<call, next_sequence, trade_pool>>

processCancelShares(t, loc, ref, shares, user) ==
  /\ MayEnter(t, loc) /\ OwnBook(ref, loc)
  /\ IF loc \notin Locates
     THEN NotFound(t) /\ UNCHANGED wal
     ELSE /\ append(WalEntry("CANCEL_SHARES", "NONE", loc, 0, shares, user, ref,
                             next_sequence))
          /\ \/ ~Owned(ref, user) /\ NotFound(t)
             \/ /\ Owned(ref, user)
                /\ shares >= resting[ref].remaining_qty
                /\ resting' = removeOrder(resting, ref)
                /\ ledger' = Close([ledger EXCEPT ![ref].cancelled =
                                      @ + resting[ref].remaining_qty], ref)
                /\ Answer(t, Ack("RSP_CANCELLED", ref))
             \/ /\ Owned(ref, user)
                /\ shares < resting[ref].remaining_qty
                /\ resting' = [resting EXCEPT ![ref] = reduceQtyCancel(@, shares)]
                /\ ledger' = [ledger EXCEPT ![ref].cancelled = @ + shares]
                /\ Answer(t, Ack("RSP_OK", ref))
  /\ UNCHANGED <<call, next_sequence, trade_pool>>

\* The caller passes the side of the old order (TcpServer::processItchMessage
\* looks it up and answers ORDER_NOT_FOUND itself when there is none).  The
\* new order is matched as a DAY order of user new_ref; neither its price nor
\* its quantity is validated (nor new_ref, which no caller here leaves 0).
processReplace(t, loc, old_ref, new_ref, price, quantity, user) ==
  /\ MayEnter(t, loc) /\ OwnBook(old_ref, loc) /\ Fresh(new_ref)
  /\ IF loc \notin Locates
     THEN NotFound(t) /\ UNCHANGED <<call, next_sequence, wal>>
     ELSE /\ append(WalEntry("REPLACE", "NONE", loc, price, quantity, user, new_ref,
                             next_sequence))
          /\ \/ ~Owned(old_ref, user) /\ NotFound(t) /\ UNCHANGED <<call, next_sequence>>
             \/ /\ Owned(old_ref, user)
                /\ resting' = removeOrder(resting, old_ref)
                /\ call' = [call EXCEPT ![t] =
                     [ref |-> new_ref, tif |-> "DAY",
                      order |-> NewOrder(loc, new_ref, resting[old_ref].side, price,
                                         quantity, new_ref)]]
                /\ next_sequence' = next_sequence + 1
                /\ ledger' =
                     Close([Submitted(new_ref, resting[old_ref].side, "DAY", quantity)
                              EXCEPT ![old_ref].cancelled =
                                       @ + resting[old_ref].remaining_qty], old_ref)
                /\ out' = [out EXCEPT ![t] = <<>>]
  /\ UNCHANGED trade_pool

-----------------------------------------------------------------------------
Init ==
  /\ resting = [r \in Refs |-> NoOrder]
  /\ call = [t \in Threads |-> NoOrder]
  /\ next_sequence = 1
  /\ wal = [entries |-> [i \in 0 .. WalCap - 1 |-> NoOrder], total |-> 0]
  /\ trade_pool = [entries   |-> [i \in 0 .. TradeCap - 1 |-> NoOrder],
                   write_idx |-> 0,
                   ids       |-> [s \in Sides |-> 0]]
  /\ out = [t \in Threads |-> <<>>]
  /\ ledger = [r \in Refs |-> [phase |-> "new", side |-> "BUY", tif |-> "DAY",
                               original |-> 0, traded |-> 0, cancelled |-> 0]]

\* What thread t does inside a call.
Proceed(t) ==
  \/ \E r \in Refs : matchOrder(t, r)
  \/ finishFilled(t) \/ finishDropped(t) \/ finishRest(t)

\* A request reaches thread t.
Request(t) ==
  \E loc \in LocateInputs :
    \/ \E ref \in Refs \cup {Zero}, side \in Sides \cup {"INVALID"},
          price \in Prices, quantity \in Quantities, tif \in Tifs :
         \E user \in UsersOf[ref] :
           processAdd(t, loc, ref, side, price, quantity, user, tif)
    \/ \E ref \in Refs : \E user \in UsersOf[ref] \cup {ref} :
         \/ processCancel(t, loc, ref, user)
         \/ \E shares \in Quantities : processCancelShares(t, loc, ref, shares, user)
         \/ \E new \in Refs \ {ref}, price \in Prices, quantity \in Quantities :
              processReplace(t, loc, ref, new, price, quantity, user)

Next == \E t \in Threads : Request(t) \/ Proceed(t)

Spec == Init /\ [][Next]_vars

FairSpec == Spec /\ \A t \in Threads : WF_vars(Proceed(t))

-----------------------------------------------------------------------------
(* Properties.                                                             *)

Account == [phase : {"new", "live", "done"}, side : Sides,
            tif : {"DAY", "IOC", "FOK"}, original : Nat, traded : Nat,
            cancelled : Nat]

\* Every variable keeps its type: the orders in the books and in the calls
\* are well-formed records and the log and trade rings stay rings.
TypeOK ==
  /\ resting \in [Refs -> Order \cup {NoOrder}]
  /\ call \in [Threads -> Call \cup {NoOrder}]
  /\ next_sequence \in Nat
  /\ wal.total \in Nat /\ DOMAIN wal.entries = 0 .. WalCap - 1
  /\ trade_pool.write_idx \in Nat /\ trade_pool.ids \in [Sides -> Nat]
  /\ DOMAIN trade_pool.entries = 0 .. TradeCap - 1
  /\ DOMAIN out = Threads
  /\ ledger \in [Refs -> Account]

\* A book is crossed only by two orders of one user, which self-trade
\* prevention keeps apart, or by an order that a replace submitted with
\* quantity 0, which the matching loop skips.
CrossedOnlyBySelf ==
  \A b, a \in InBook :
    /\ resting[b].side = "BUY" /\ resting[a].side = "SELL"
    /\ resting[b].locate = resting[a].locate
    /\ resting[b].price >= resting[a].price
    => \/ resting[b].user_id = resting[a].user_id
       \/ 0 \in {resting[b].original_qty, resting[a].original_qty}

SumOver(S, q(_)) == MapThenSumSet(q, S)

Holders(r) == {t \in Threads : call[t] # NoOrder /\ call[t].ref = r}

\* An order that was submitted and is not finished is in exactly one place: a
\* book, or the call of one thread.  No path through add, match, cancel and
\* replace loses an order, leaves a finished one behind or holds it twice.
LiveInOnePlace ==
  \A r \in Refs :
    /\ ledger[r].phase = "live" <=> (r \in InBook \/ Holders(r) # {})
    /\ r \in InBook => Holders(r) = {}
    /\ \A t, u \in Holders(r) : t = u

\* No quantity is created or lost: an order in a book or in a call holds its
\* original quantity less what was traded and cancelled, and a finished one
\* never traded more than it asked for.
QuantityConserved ==
  /\ \A r \in InBook :
       /\ resting[r].original_qty = ledger[r].original
       /\ resting[r].filled_qty = ledger[r].traded
       /\ resting[r].remaining_qty
            = ledger[r].original - ledger[r].traded - ledger[r].cancelled
  /\ \A t \in Threads : call[t] # NoOrder =>
       LET o == call[t].order
           l == ledger[call[t].ref]
       IN  /\ o.original_qty = l.original /\ o.filled_qty = l.traded
           /\ o.remaining_qty = l.original - l.traded /\ l.cancelled = 0
  /\ \A r \in Refs : ledger[r].traded + ledger[r].cancelled <= ledger[r].original

TradedOn(side) ==
  SumOver({r \in Refs : ledger[r].side = side}, LAMBDA r : ledger[r].traded)

\* Over the whole history of all books, what buyers bought is what sellers sold.
BuysEqualSells == TradedOn("BUY") = TradedOn("SELL")

\* Time priority seen over whole histories, when every order has a user of its
\* own (as the two servers submit them): at one price only the order at the
\* front of the queue can be partly filled, whether it was filled as a maker
\* or before it came to rest.
OnlyFrontPartlyFilled ==
  \A r, s \in InBook :
    /\ resting[r].locate = resting[s].locate /\ resting[r].side = resting[s].side
    /\ resting[r].price = resting[s].price
    /\ resting[r].sequence < resting[s].sequence
    /\ resting[r].original_qty > 0
    => resting[s].filled_qty = 0

\* A fill-or-kill order is filled completely or not at all: once its call has
\* returned, it traded its whole quantity or nothing.
FokAllOrNothing ==
  \A r \in Refs :
    ledger[r].tif = "FOK" /\ ledger[r].phase = "done"
      => ledger[r].traded \in {0, ledger[r].original}

ReportedQty(t) ==
  SumOver({i \in DOMAIN out[t] : out[t][i].type = "RSP_TRADE"},
          LAMBDA i : out[t][i].quantity)

\* The responses tell the client the truth: at every moment of a call the
\* RSP_TRADE frames add up to what the order traded, and a call that ends in
\* RSP_FILLED reported the whole quantity.
ReportsMatchLedger ==
  \A t \in Threads :
    /\ call[t] # NoOrder => ReportedQty(t) = ledger[call[t].ref].traded
    /\ \A i \in DOMAIN out[t] : out[t][i].type = "RSP_FILLED" =>
         /\ i = Len(out[t])
         /\ ReportedQty(t) = ledger[out[t][i].order_id].original

\* The call in progress or the book that holds reference r, if any.
OpenQty(r) ==
  IF r \in InBook THEN resting[r].remaining_qty
  ELSE IF \E t \in Threads : call[t] # NoOrder /\ call[t].ref = r
       THEN (CHOOSE c \in {call[t] : t \in Threads} :
               c # NoOrder /\ c.ref = r).order.remaining_qty
       ELSE 0

acct ==
  [r \in Refs |-> [phase  |-> ledger[r].phase, open |-> OpenQty(r),
                   traded |-> ledger[r].traded]]

Lifecycle == INSTANCE OrderLifecycle WITH acct <- acct

\* The engine implements the life cycle it promises the owner of an order:
\* phase and traded quantity come from the history, the open quantity from
\* the book or the call that really holds the order.
KeepsLifecycle == Lifecycle!Spec

\* The matching loop ends: every call returns, if its thread keeps running.
EveryCallReturns ==
  \A t \in Threads : call[t] # NoOrder ~> call[t] = NoOrder

=============================================================================
