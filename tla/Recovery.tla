------------------------------ MODULE Recovery ------------------------------
(***************************************************************************)
(* What a restart of the process brings back: the write-ahead log, the     *)
(* order slots in shared memory, and the two ways the start of main.cpp    *)
(* rebuilds the books from them.                                           *)
(*                                                                         *)
(* While the service is up the engine of module MatchingEngine runs, one   *)
(* call at a time, and every order it adds to or removes from a book is a  *)
(* slot of the OrderPool taken or given back.  The process may end between *)
(* any two steps, and inside an iteration of the matching loop, before and *)
(* after it records the trade; the copy of an order into its slot is one   *)
(* write here.  The shared memory outlives the process (a crash) or does   *)
(* not (a clean stop unlinks it, a reboot loses it); the log file always   *)
(* does.  The next start finds the shared memory and scans its slots       *)
(* (recoverFromShared), or does not and replays the log (recoverFromWal).  *)
(* It may itself be interrupted, and the service goes on from its result.  *)
(*                                                                         *)
(* The sequence of an order stands for its place in its queue: nothing but *)
(* the recovery reads the field.                                           *)
(***************************************************************************)
EXTENDS MatchingEngine, SequencesExt

CONSTANTS
  LocatesOf,    \* the books that callers name for each reference
  MaxCrashes,   \* bound on how often the process ends
  MaxServed     \* bound on the number of logged requests

ASSUME LocatesAssumption == LocatesOf \in [Refs -> SUBSET LocateInputs]

VARIABLES
  mem,        \* the order slots in shared memory, stale contents included
  free,       \* the free list: slots in the order allocate() takes them
  phase,      \* what the process does
  pos,        \* index of the recovery loop
  placed,     \* book 0 as recoverFromShared fills it, in the order of addition
  crashes,    \* how often the process ended
  served,     \* how many requests were logged
  promised,   \* history: the books as the calls so far must leave them
  kept,       \* history: the orders in the books when the memory was left
  broken,     \* history: the log no longer holds every call behind the books
  doubtful    \* history: orders that the memory may hold as they once were

marks == <<broken, doubtful>>
rvars == <<mem, free, phase, pos, placed, crashes, served, promised, kept, marks>>

Slots == 0 .. PoolCap - 1

AllFree == [i \in 1 .. PoolCap |-> i - 1]

NoOrders == [r \in Refs |-> NoOrder]

-----------------------------------------------------------------------------
(* The slots follow the books.                                             *)

Held(r, o) == [ref |-> r, order |-> o]

SlotOf(r) == CHOOSE s \in Slots : s \notin ToSet(free) /\ mem[s].ref = r

Added == InBook' \ InBook

Removed == InBook \ InBook'

\* The matching loop marks the maker it fills up before it removes it.
Left_filled(o) == reduceOrderQty(o, o.remaining_qty, "FILLED")

\* A cancel or a replace leaves the order in the freed slot as it stands.
Left(o) == IF trade_pool' # trade_pool THEN Left_filled(o) ELSE o

\* addOrder takes the slot at the head of the free list, removeOrder pushes the
\* slot of its order on the list.
FreeFollows ==
  free' = IF Added # {} THEN Tail(free)
          ELSE [i \in 1 .. Cardinality(Removed) |->
                  SlotOf(CHOOSE r \in Removed : TRUE)] \o free

\* addOrder copies the order into its slot, the other operations write through
\* to it, and removeOrder does not clear it.
SlotsFollow ==
  /\ FreeFollows
  /\ mem' = [s \in Slots |->
       IF Added # {} /\ s = Head(free)
       THEN LET r == CHOOSE r \in Added : TRUE IN Held(r, resting'[r])
       ELSE IF s \in ToSet(free) THEN mem[s]
       ELSE IF mem[s].ref \in Removed
            THEN [mem[s] EXCEPT !.order = Left(@)]
            ELSE Held(mem[s].ref, resting'[mem[s].ref])]

-----------------------------------------------------------------------------
(* The reference: what a new order does to the books, without a loop.      *)

\* The makers an order takes from, and those it meets before maker r.
Takes(book, o) ==
  {r \in Refs : /\ book[r] # NoOrder
                /\ book[r].locate = o.locate /\ book[r].side = Opposite(o.side)
                /\ book[r].user_id # o.user_id /\ Crosses(o, book[r])}

Before(book, o, r) == {s \in Takes(book, o) : Ahead(book[s], book[r])}

OpenIn(book, S) == MapThenSumSet(LAMBDA r : book[r].remaining_qty, S)

\* What an order still wants when the makers before r have given theirs.
Wanted(book, o, r) == o.original_qty - OpenIn(book, Before(book, o, r))

\* The books once call c has returned: maker r is untouched, taken whole, or
\* gives what the makers before it left over.
AfterCall(book, c) ==
  LET o    == c.order
      got  == LeastOf(o.original_qty, OpenIn(book, Takes(book, o)))
      rest == [r \in Refs |->
                 IF r \notin Takes(book, o) \/ Wanted(book, o, r) <= 0 THEN book[r]
                 ELSE IF Wanted(book, o, r) >= book[r].remaining_qty THEN NoOrder
                 ELSE reduceOrderQty(book[r], Wanted(book, o, r), "PARTIALLY_FILLED")]
      room == Cardinality({r \in Refs : rest[r] # NoOrder}) < PoolCap
  IN  IF c.tif = "DAY" /\ room /\ (got < o.original_qty \/ o.original_qty = 0)
      THEN [rest EXCEPT ![c.ref] =
              IF Takes(book, o) = {} \/ o.original_qty = 0 THEN o
              ELSE reduceOrderQty(o, got, "PARTIALLY_FILLED")]
      ELSE rest

\* The log says enough to replay it: no order was replaced, and no
\* immediate-or-cancel order had a remainder to drop.
Replayable ==
  /\ \A r \in Refs : ledger[r].tif = "IOC" /\ ledger[r].phase # "new"
       => ledger[r].traded = ledger[r].original
  /\ \A i \in DOMAIN wal.entries :
       wal.entries[i] # NoOrder /\ wal.entries[i].type = "REPLACE"
         => ledger[wal.entries[i].order_id].phase = "new"

\* Two sets of books hold the same orders in the same queues.
SameBooks(a, b) ==
  LET plain(book) == [r \in Refs |-> IF book[r] = NoOrder THEN NoOrder
                                     ELSE [book[r] EXCEPT !.sequence = 0]]
  IN  /\ plain(a) = plain(b)
      /\ \A r, s \in Refs : a[r] # NoOrder /\ a[s] # NoOrder
           => (a[r].sequence < a[s].sequence <=> b[r].sequence < b[s].sequence)

PromiseFollows ==
  promised' = IF \E t \in Threads : call[t] = NoOrder /\ call'[t] # NoOrder
              THEN AfterCall(resting', CHOOSE c \in {call'[t] : t \in Threads} : c # NoOrder)
              ELSE IF \E t \in Threads : call[t] # NoOrder THEN promised
              ELSE resting'

-----------------------------------------------------------------------------
(* The service is up.                                                      *)

\* A request that passes the checks of its handler, under the user id the two
\* servers give it, its reference.  (An early return touches neither the log
\* nor the books.)
LoggedRequest(t) ==
  \E ref \in Refs : \E loc \in LocatesOf[ref] :
    \/ \E side \in Sides, price \in Prices, quantity \in Quantities, tif \in Tifs :
         processAdd(t, loc, ref, side, price, quantity, ref, tif)
    \/ processCancel(t, loc, ref, ref)
    \/ \E shares \in Quantities :
         processCancelShares(t, loc, ref, shares, ref)
    \/ \E new \in Refs \ {ref}, price \in Prices, quantity \in Quantities :
         processReplace(t, loc, ref, new, price, quantity, ref)

\* The entry that the next append writes over.
Overwritten == wal.entries[wal.total % WalCap]

serve(t) ==
  /\ phase = "up"
  /\ \/ /\ LoggedRequest(t) /\ wal' # wal
        /\ served < MaxServed /\ served' = served + 1
        /\ broken' = (broken \/ Overwritten # NoOrder)
     \/ Proceed(t) /\ UNCHANGED <<served, broken>>
  /\ SlotsFollow /\ PromiseFollows
  /\ UNCHANGED <<phase, pos, placed, crashes, kept, doubtful>>

\* The process ends and main starts again, up to the recovery loop: the books,
\* the index and the counters are new, the free list is chained through all
\* slots, and the writer takes the existing log file, which has its full size
\* from the start, as full.  The caller says what is left in the memory.
StartAgain(shm) ==
  /\ crashes < MaxCrashes /\ crashes' = crashes + 1
  /\ phase' = IF shm THEN "scan" ELSE "replay"
  /\ pos' = 0 /\ placed' = <<>>
  /\ free' = AllFree
  /\ doubtful' = IF ~shm THEN {} ELSE IF phase = "replay" THEN Refs ELSE doubtful
  /\ resting' = NoOrders
  /\ call' = [t \in Threads |-> NoOrder]
  /\ out' = [t \in Threads |-> <<>>]
  /\ next_sequence' = 1
  /\ wal' = [wal EXCEPT !.total = WalCap]
  /\ UNCHANGED <<promised, served, broken>>

\* The TradePool is in the shared memory, the trade ids are not.
TradesLeft(shm, pool) ==
  trade_pool' =
    [entries   |-> IF shm THEN pool.entries ELSE [i \in 0 .. TradeCap - 1 |-> NoOrder],
     write_idx |-> IF shm THEN pool.write_idx ELSE 0,
     ids       |-> [s \in Sides |-> 0]]

\* The process ends between two steps.
restart(shm) ==
  /\ phase \in {"up", "scan", "replay"}
  /\ StartAgain(shm) /\ TradesLeft(shm, trade_pool)
  /\ mem' = IF shm THEN mem ELSE [s \in Slots |-> NoOrder]
  /\ kept' = IF ~shm THEN NoOrders ELSE IF phase = "scan" THEN kept ELSE resting
  /\ UNCHANGED ledger

\* Fault: the trade is recorded before the maker's slot is reduced.
TornSlot_late(m, q) == m

\* The maker's slot in the middle of an iteration: reduceOrderQty of the book
\* has written it, the status is not yet set.
TornSlot(m, q) == reduceOrderQty(m, q, m.status)

\* The process ends in the middle of an iteration of the matching loop, after
\* the maker's slot is reduced and, if `recorded`, the trade is in the
\* TradePool, and before the status is set.
crashInTrade(t, r, recorded) ==
  /\ phase \in {"up", "replay"} /\ call[t] # NoOrder /\ Matches(call[t].order, r)
  /\ LET c    == call[t]
         q    == LeastOf(c.order.remaining_qty, resting[r].remaining_qty)
         torn == TornSlot(resting[r], q)
         i    == trade_pool.write_idx
     IN  /\ mem' = [mem EXCEPT ![SlotOf(r)] = Held(r, torn)]
         /\ kept' = [resting EXCEPT ![r] = torn]
         /\ TradesLeft(TRUE,
              IF recorded
              THEN [trade_pool EXCEPT !.write_idx = i + 1,
                                      !.entries[i % TradeCap] = TradeEntry(c, r, q)]
              ELSE trade_pool)
         /\ ledger' = IF recorded /\ phase = "up"
                      THEN [ledger EXCEPT ![c.ref] = Booked(@, q, FALSE),
                                          ![r] = Booked(@, q, FALSE)]
                      ELSE ledger
  /\ StartAgain(TRUE)

-----------------------------------------------------------------------------
(* recoverFromShared: one slot per step.                                   *)

BumpTo(seq) == next_sequence' = IF seq >= next_sequence THEN seq + 1 ELSE next_sequence

Skipped(slot) == slot = NoOrder \/ slot.order.status = "FILLED"

\* Fault: the slots are handed out from the far end.
Taken_last(list) == list[Len(list)]

Taken(list) == list[1]

\* A slot that holds an order is copied and added to book 0, at the head of
\* the free list: the orders move down over slots that were skipped.
scan ==
  /\ phase = "scan" /\ pos < PoolCap
  /\ pos' = pos + 1
  /\ LET slot == mem[pos]
     IN  IF Skipped(slot)
         THEN UNCHANGED <<mem, free, placed, next_sequence>>
         ELSE /\ mem' = [mem EXCEPT ![Taken(free)] =
                           [slot EXCEPT !.order.locate = 0]]
              /\ free' = SelectSeq(free, LAMBDA s : s # Taken(free))
              /\ placed' = Append(placed, [slot EXCEPT !.order.locate = 0])
              /\ BumpTo(slot.order.sequence)
  /\ UNCHANGED <<resting, call, wal, trade_pool, out, ledger,
                 phase, crashes, served, promised, kept, marks>>

scanned ==
  /\ phase = "scan" /\ pos = PoolCap
  /\ phase' = "rebuilt"
  /\ UNCHANGED <<vars, mem, free, pos, placed, crashes, served, promised, kept, marks>>

-----------------------------------------------------------------------------
(* recoverFromWal: one entry per step, and one per iteration of the        *)
(* matching loop of a NEW entry.                                           *)

Entry == wal.entries[pos]

\* The entry is done with: the counters move past it.
NextEntry ==
  /\ pos' = pos + 1
  /\ BumpTo(Entry.wal_seq)

\* A replayed order goes behind those that are there; in a log that was not
\* written over, wal_seq says so already.
Behind(seq) == Max({seq} \cup {resting[r].sequence + 1 : r \in InBook})

Replaying(type) ==
  /\ phase = "replay" /\ pos < WalCap
  /\ \A t \in Threads : call[t] = NoOrder
  /\ Entry # NoOrder /\ Entry.type = type

ReplayLeaves ==
  /\ SlotsFollow
  /\ UNCHANGED <<wal, out, ledger, phase, placed, crashes, served, promised, kept, marks>>

\* The log has no time in force: every order is replayed as a DAY order.
replayNew(t) ==
  /\ Replaying("NEW")
  /\ IF Entry.order_id \in InBook
     THEN pos' = pos + 1 /\ UNCHANGED <<call, next_sequence>>
     ELSE /\ call' = [call EXCEPT ![t] =
               [ref |-> Entry.order_id, tif |-> "DAY",
                order |-> [NewOrder(Entry.locate, Entry.order_id, Entry.side,
                                    Entry.price, Entry.quantity, Entry.user_id)
                             EXCEPT !.sequence = Behind(Entry.wal_seq)]]]
          /\ UNCHANGED <<pos, next_sequence>>
  /\ UNCHANGED <<resting, trade_pool>>
  /\ ReplayLeaves

replayMatch(t, r) ==
  /\ phase = "replay" /\ call[t] # NoOrder
  /\ LET o == call[t].order
         m == resting[r]
         q == LeastOf(o.remaining_qty, m.remaining_qty)
     IN  /\ Matches(o, r)
         /\ call' = [call EXCEPT ![t].order = reduceOrderQty(o, q,
                       IF o.remaining_qty = q THEN "FILLED" ELSE "PARTIALLY_FILLED")]
         /\ resting' = IF m.remaining_qty = q
                       THEN removeOrder(resting, r)
                       ELSE [resting EXCEPT ![r] =
                               reduceOrderQty(m, q, "PARTIALLY_FILLED")]
         /\ recordTrade(call[t], r, q)
  /\ UNCHANGED <<next_sequence, pos>>
  /\ ReplayLeaves

\* Fault: a filled order is added to its book.
replayAdd_filled(t) ==
  /\ phase = "replay" /\ call[t] # NoOrder
  /\ LoopDone(call[t].order)
  /\ resting' = IF PoolHasRoom
                THEN addOrder(resting, call[t].ref, call[t].order) ELSE resting
  /\ Return(t)
  /\ pos' = pos + 1 /\ BumpTo(call[t].order.sequence)
  /\ UNCHANGED trade_pool
  /\ ReplayLeaves

replayAdd(t) ==
  /\ phase = "replay" /\ call[t] # NoOrder
  /\ LET c == call[t]
     IN  /\ LoopDone(c.order)
         /\ resting' = IF c.order.status # "FILLED" /\ PoolHasRoom
                       THEN addOrder(resting, c.ref, c.order) ELSE resting
  /\ Return(t)
  /\ pos' = pos + 1 /\ BumpTo(call[t].order.sequence)
  /\ UNCHANGED trade_pool
  /\ ReplayLeaves

replayCancel ==
  /\ Replaying("CANCEL")
  /\ resting' = IF Owned(Entry.order_id, Entry.user_id)
                THEN removeOrder(resting, Entry.order_id) ELSE resting
  /\ NextEntry
  /\ UNCHANGED <<call, trade_pool>>
  /\ ReplayLeaves

replayCancelShares ==
  /\ Replaying("CANCEL_SHARES")
  /\ LET r == Entry.order_id
     IN  resting' = IF r \notin InBook \/ Entry.quantity = 0 THEN resting
                    ELSE IF Entry.quantity >= resting[r].remaining_qty
                    THEN removeOrder(resting, r)
                    ELSE [resting EXCEPT ![r] = reduceQtyCancel(@, Entry.quantity)]
  /\ NextEntry
  /\ UNCHANGED <<call, trade_pool>>
  /\ ReplayLeaves

\* The entry holds the new reference only, which is not in the books yet: the
\* old order stays and the new one is not submitted.
replayReplace ==
  /\ Replaying("REPLACE")
  /\ resting' = IF Owned(Entry.order_id, Entry.user_id)
                THEN removeOrder(resting, Entry.order_id) ELSE resting
  /\ NextEntry
  /\ UNCHANGED <<call, trade_pool>>
  /\ ReplayLeaves

\* The rest of the file was never written.
replayed ==
  /\ phase = "replay" /\ \A t \in Threads : call[t] = NoOrder
  /\ pos < WalCap => Entry = NoOrder
  /\ phase' = "replayed"
  /\ UNCHANGED <<vars, mem, free, pos, placed, crashes, served, promised, kept, marks>>

-----------------------------------------------------------------------------
(* main goes on from the recovered books and serves again.                 *)

\* The orders that the scan added, in the queues the additions made of them:
\* the sequence numbers found are dealt out again in the order of addition.
Requeued ==
  LET seqs == SetToSortSeq({placed[i].order.sequence : i \in DOMAIN placed}, <)
  IN  [i \in DOMAIN placed |-> [placed[i] EXCEPT !.order.sequence = seqs[i]]]

\* Copies of orders that the scan moved and did not write over.
Copies == {mem[s].ref : s \in {x \in ToSet(free) : ~Skipped(mem[x])}}

resumeReplayed ==
  /\ phase = "replayed"
  /\ doubtful' = IF Replayable /\ ~broken THEN doubtful ELSE Refs
  /\ UNCHANGED <<resting, mem>>

\* What the index does with two orders of one reference is not followed.
resumeRebuilt ==
  /\ phase = "rebuilt"
  /\ IsInjective([i \in DOMAIN placed |-> placed[i].ref])
  /\ resting' = [r \in Refs |->
       IF \E i \in DOMAIN placed : placed[i].ref = r
       THEN (CHOOSE h \in Range(Requeued) : h.ref = r).order ELSE NoOrder]
  /\ mem' = [s \in Slots |->
       IF s \in ToSet(free) THEN mem[s] ELSE Held(mem[s].ref, resting'[mem[s].ref])]
  /\ doubtful' = doubtful \cup (Copies \cap InBook')

resume ==
  /\ crashes < MaxCrashes
  /\ resumeReplayed \/ resumeRebuilt
  /\ phase' = "up" /\ pos' = 0 /\ placed' = <<>> /\ kept' = NoOrders
  /\ broken' = (broken \/ ~SameBooks(resting', promised))
  /\ promised' = resting'
  /\ UNCHANGED <<call, next_sequence, wal, trade_pool, out, ledger,
                 free, crashes, served>>

-----------------------------------------------------------------------------
RecoveryInit ==
  /\ Init
  /\ mem = [s \in Slots |-> NoOrder] /\ free = AllFree
  /\ phase = "up" /\ pos = 0 /\ placed = <<>> /\ crashes = 0 /\ served = 0
  /\ promised = NoOrders /\ kept = NoOrders
  /\ broken = FALSE /\ doubtful = {}

RecoveryNext ==
  \/ \E t \in Threads : serve(t)
  \/ \E shm \in BOOLEAN : restart(shm)
  \/ \E t \in Threads, r \in Refs, recorded \in BOOLEAN : crashInTrade(t, r, recorded)
  \/ scan \/ scanned
  \/ \E t \in Threads : \/ replayNew(t) \/ replayAdd(t)
                        \/ \E r \in Refs : replayMatch(t, r)
  \/ replayCancel \/ replayCancelShares \/ replayReplace \/ replayed
  \/ resume

RecoverySpec == RecoveryInit /\ [][RecoveryNext]_<<vars, rvars>>

-----------------------------------------------------------------------------
(* Properties.                                                             *)

\* Every slot holds an order or nothing, and while the books follow the slots
\* the free list holds each slot at most once and exactly the slots of no
\* order in a book.
RecoveryTypeOK ==
  /\ mem \in [Slots -> [ref : Refs, order : Order] \cup {NoOrder}]
  /\ phase \in {"up", "scan", "rebuilt", "replay", "replayed"}
  /\ pos \in Nat /\ crashes \in 0 .. MaxCrashes /\ served \in 0 .. MaxServed
  /\ promised \in [Refs -> Order \cup {NoOrder}]
  /\ kept \in [Refs -> Order \cup {NoOrder}]
  /\ broken \in BOOLEAN /\ doubtful \subseteq Refs
  /\ Cardinality(ToSet(free)) = Len(free)
  /\ phase \notin {"scan", "rebuilt"} =>
       {mem[s] : s \in Slots \ ToSet(free)} = {Held(r, resting[r]) : r \in InBook}

\* A call leaves the books as its order deserves: once it has returned, every
\* maker has given what its place in the price-time queue asks of it and the
\* remainder rests, whatever the loop of the call met on its way, also in
\* books that a recovery has left.  The slots in use are those of the orders
\* in the books throughout.
CallsKeepPromise ==
  /\ RecoveryTypeOK
  /\ phase = "up" /\ (\A t \in Threads : call[t] = NoOrder) => resting = promised

\* The same requests lead to the same state: replaying the log gives the books
\* that the calls of the service gave.
SameInputsSameBooks == phase = "replayed" => SameBooks(resting, promised)

\* Replaying a log that says enough gives the books that the logged calls
\* gave, the one that was cut short by the crash included, with every order at
\* its place in its queue; replaying it again after an interruption or after a
\* return to service does too, until a request is logged over it; and the next
\* order will come behind all of them.
ReplayRestores ==
  phase = "replayed" =>
    /\ Replayable /\ ~broken => SameBooks(resting, promised)
    /\ \A r \in InBook : resting[r].sequence < next_sequence

\* No order that was in a book when the process ended is lost by the scan of
\* the shared memory, although the scan writes the orders it has found over
\* slots of the array it is reading, and may be interrupted half way; and the
\* next order will come behind all that were found.
RestingSurvives ==
  phase = "rebuilt" =>
    /\ \A r \in Refs : kept[r] # NoOrder =>
         \E i \in DOMAIN placed : placed[i] = Held(r, [kept[r] EXCEPT !.locate = 0])
    /\ \A i \in DOMAIN placed : placed[i].order.sequence < next_sequence

\* What has been traded is not offered again: whatever the scan takes for a
\* live order, one that was filled when the process ended before its status
\* was set and one that had left its book by a cancel included, offers no more
\* than the order has left.  Excepted are orders of which an earlier scan left
\* a copy behind, and a memory that was filled by a replay which was cut short
\* or had a log that does not say enough.
NothingOfferedTwice ==
  phase = "rebuilt" =>
    \A i \in DOMAIN placed :
      LET r == placed[i].ref
      IN  r \notin doubtful =>
            placed[i].order.remaining_qty + ledger[r].traded <= ledger[r].original

=============================================================================
