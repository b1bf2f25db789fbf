---------------------------- MODULE TradeServer ----------------------------
(***************************************************************************)
(* TcpTradeServer (src/src/tcp_trade_server.cpp), the OUCH order entry, on *)
(* top of the matching engine it shares with the other servers.            *)
(*                                                                         *)
(* One thread serves one client at a time: it blocks in recv for a frame,  *)
(* calls the engine, and turns the responses of the call into OUCH         *)
(* messages.  The other Threads call the engine meanwhile, under the       *)
(* contract of MatchingEngine that no two calls are in the same book.      *)
(* (engine_mtx is locked by this server only, so that contract is all that *)
(* keeps the calls apart.)  Order ids of the client are the references the *)
(* engine knows the orders by; frames that fail their checksum, and book   *)
(* queries, change nothing and are left out.                               *)
(***************************************************************************)
EXTENDS MatchingEngine

CONSTANTS
  TradeThread,  \* the thread of the trade server
  TraderIds,    \* the order ids its clients use
  TraderShares  \* the quantities their orders carry

ASSUME TradeAssumption ==
  /\ TradeThread \in Threads /\ TraderIds \subseteq Refs
  /\ TraderShares \subseteq 0 .. QtyMod - 1

VARIABLES
  session,       \* where the thread is
  running,       \* running_
  id_to_ref,     \* id_to_ref_; 0 for an id that has no reference number
  next_ref,      \* next_ref_
  order_locate,  \* order_locate_; -1 for an id that is not in the map
  request,       \* the frame being handled
  told           \* history: what the client was told of each order

tvars == <<session, running, id_to_ref, next_ref, order_locate, request, told>>

Others == Threads \ {TradeThread}

\* The responses of the session's own call.
responses == out[TradeThread]

Untold == [ack |-> "none", executed |-> 0, empty |-> FALSE, canceled |-> FALSE]

\* The loop of handleClient is entered again, or left for the accept loop.
Loop == IF running THEN "recv" ELSE "accept"

-----------------------------------------------------------------------------
ref_for(id) ==
  /\ id_to_ref' = [id_to_ref EXCEPT ![id] = IF @ = 0 THEN next_ref ELSE @]
  /\ next_ref' = IF id_to_ref[id] = 0 THEN next_ref + 1 ELSE next_ref

\* handleEnter up to the call of the engine, which is under way then.
handleEnter(id, loc, side, price, shares, tif) ==
  /\ session = "recv"
  /\ ref_for(id)
  /\ order_locate' = [order_locate EXCEPT ![id] = loc]
  /\ processAdd(TradeThread, loc, id, side, price, shares, id, tif)
  /\ request' = [type |-> "O", id |-> id, tif |-> tif]
  /\ told' = [told EXCEPT ![id] = Untold]
  /\ session' = "engine"
  /\ UNCHANGED running

\* handleCancel: an id that was never entered is ignored, though it gets a
\* reference number.
handleCancel(id) ==
  /\ session = "recv"
  /\ ref_for(id)
  /\ IF order_locate[id] = -1
     THEN session' = Loop /\ UNCHANGED <<vars, request>>
     ELSE /\ processCancel(TradeThread, order_locate[id], id, id)
          /\ request' = [type |-> "X", id |-> id, tif |-> "DAY"]
          /\ session' = "engine"
  /\ UNCHANGED <<running, order_locate, told>>

\* Fault: only the first fill of an order is reported.
Fills_first == {i \in DOMAIN responses : i = 1 /\ responses[i].type = "RSP_TRADE"}

Fills == {i \in DOMAIN responses : responses[i].type = "RSP_TRADE"}

Rejected ==
  /\ request.tif = "FOK"
  /\ Err("FOK_NO_FULL_FILL") \in {responses[i] : i \in DOMAIN responses}

Returned == session = "engine" /\ call[TradeThread] = NoOrder

\* The handler returns; the frame and the responses go with it.
AfterReply ==
  /\ session' = Loop
  /\ request' = NoOrder
  /\ out' = [out EXCEPT ![TradeThread] = <<>>]
  /\ UNCHANGED <<resting, call, next_sequence, wal, trade_pool, ledger,
                 running, id_to_ref, next_ref, order_locate>>

\* The answer to an order: J alone, or A and an E for every fill; an order
\* that cannot rest and was not filled gets an E of quantity 0.  An order the
\* engine refuses for another reason is acknowledged with A all the same.
replyEnter ==
  /\ Returned /\ request.type = "O"
  /\ told' = [told EXCEPT ![request.id] =
       IF Rejected THEN [Untold EXCEPT !.ack = "J"]
       ELSE [ack      |-> "A",
             executed |-> SumOver(Fills, LAMBDA i : responses[i].quantity),
             empty    |-> Fills = {} /\ request.tif # "DAY",
             canceled |-> FALSE]]
  /\ AfterReply

replyCancel ==
  /\ Returned /\ request.type = "X"
  /\ told' = [told EXCEPT ![request.id].canceled =
       @ \/ Ack("RSP_CANCELLED", request.id) \in {responses[i] : i \in DOMAIN responses}]
  /\ AfterReply

-----------------------------------------------------------------------------
acceptClient ==
  /\ session = "accept" /\ running
  /\ session' = "recv"
  /\ UNCHANGED <<vars, running, id_to_ref, next_ref, order_locate, request, told>>

\* recv fails, the client leaves in the middle of a frame, or a frame has an
\* unknown type: the connection is closed.
closeClient ==
  /\ session = "recv"
  /\ session' = "accept"
  /\ UNCHANGED <<vars, running, id_to_ref, next_ref, order_locate, request, told>>

endThread ==
  /\ session = "accept" /\ ~running
  /\ session' = "ended"
  /\ UNCHANGED <<vars, running, id_to_ref, next_ref, order_locate, request, told>>

\* main stops the server once the thread of the other server has ended.
stop ==
  /\ running /\ \A t \in Others : call[t] = NoOrder
  /\ running' = FALSE
  /\ UNCHANGED <<vars, session, id_to_ref, next_ref, order_locate, request, told>>

\* The other callers of the engine, with references of their own.  (A request
\* that is refused or finds nothing to do is of no concern to the session.)
feed(t) ==
  /\ running /\ wal.total < MaxCalls
  /\ Request(t) /\ <<resting, call>>' # <<resting, call>>
  /\ call'[t] # NoOrder => call'[t].ref \notin TraderIds
  /\ UNCHANGED tvars

inside(t) == Proceed(t) /\ UNCHANGED tvars

TradeInit ==
  /\ Init
  /\ session = "accept" /\ running = TRUE
  /\ id_to_ref = [r \in TraderIds |-> 0] /\ next_ref = 1
  /\ order_locate = [r \in TraderIds |-> -1]
  /\ request = NoOrder
  /\ told = [r \in TraderIds |-> Untold]

TradeNext ==
  \/ \E id \in TraderIds, loc \in LocateInputs, side \in Sides, price \in Prices,
        shares \in TraderShares, tif \in Tifs :
       handleEnter(id, loc, side, price, shares, tif)
  \/ \E id \in TraderIds : handleCancel(id)
  \/ replyEnter \/ replyCancel
  \/ acceptClient \/ closeClient \/ endThread \/ stop
  \/ \E t \in Others : feed(t)
  \/ \E t \in Threads : inside(t)

\* A thread keeps running while it has something to do: a call to finish, or
\* an answer to send.
TradeSpec ==
  /\ TradeInit /\ [][TradeNext]_<<vars, tvars>>
  /\ \A t \in Others : WF_call(inside(t))
  /\ WF_<<call, session>>(inside(TradeThread) \/ replyEnter \/ replyCancel)

-----------------------------------------------------------------------------
(* Properties.                                                             *)

\* The state of the server keeps its type, and the reference numbers it has
\* given out are the first next_ref - 1 ones, no number to two orders.
TradeTypeOK ==
  /\ session \in {"accept", "recv", "engine", "ended"} /\ running \in BOOLEAN
  /\ next_ref \in Nat /\ id_to_ref \in [TraderIds -> 0 .. next_ref - 1]
  /\ \A n \in 1 .. next_ref - 1 : \E r \in TraderIds : id_to_ref[r] = n
  /\ \A r, s \in TraderIds : id_to_ref[r] = id_to_ref[s] /\ id_to_ref[r] # 0 => r = s
  /\ order_locate \in [TraderIds -> LocateInputs \cup {-1}]
  /\ told \in [TraderIds -> [ack : {"none", "A", "J"}, executed : Nat,
                             empty : BOOLEAN, canceled : BOOLEAN]]

Answered(r) == told[r].ack # "none" /\ ~(session = "engine" /\ request.id = r)

\* What the client was told of an order is what happened to it, whatever the
\* other callers did to the books since: a rejected order and one reported
\* unfilled traded nothing; the E messages of an order that cannot rest add up
\* to all it traded, those of a DAY order to no more; and an order reported as
\* canceled is out of the books with nothing left open.  No two orders were
\* given one reference number.
TraderToldTruth ==
  /\ TradeTypeOK
  /\ \A r \in TraderIds : Answered(r) =>
    LET a == ledger[r]
    IN  /\ told[r].ack = "J" => a.traded = 0
        /\ told[r].empty => a.traded = 0
        /\ told[r].executed <= a.traded
        /\ a.tif # "DAY" => told[r].executed = a.traded
        /\ told[r].canceled => r \notin InBook /\ a.traded + a.cancelled = a.original

\* Every call of the engine returns, and every frame handed to it is answered:
\* the thread goes back to its client, or to its end when the server is being
\* stopped.
EveryRequestAnswered ==
  /\ EveryCallReturns
  /\ session = "engine" ~> session # "engine"

=============================================================================
