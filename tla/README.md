# NebulaX in TLA+

A verification project for the NebulaX matching engine (C++20). The modules are
translated from the code under `src/`; TLC checks them on small instances and TLAPS
proves the most important invariants, and the refinement of the order life cycle, for all
values of the constants.

## 1. The system

One process, up to four kinds of threads:

| part | source | state | operations |
|---|---|---|---|
| matching engine | `src/src/matching_engine.cpp` | books per locate, sequence number, trade ring | add, cancel, partial cancel, replace, matching loops, fill-or-kill precheck, recovery, snapshots |
| order book | `src/src/order_book.cpp` | price levels (intrusive lists through pool slots), shared index | add, reduce, remove, best bid/ask, available quantity, top of book, snapshots |
| order pool | `src/include/order_pool.h` | slots, tagged free list, size | allocate, deallocate, rebuild after a restart |
| order index | `src/include/order_map.h` | buckets of lock-free chains that turn into trees | insert, find, erase, treeify |
| SPSC byte ring | `src/include/spsc_byte_ring.h` | head, tail, bytes | push, read_acquire, read_release, pop |
| TCP server | `src/src/tcp_server.cpp`, `src/include/io_uring_poller.h` | connections, receive buffers, pending closes | accept, receive, respond, close, drain, stop |
| Send thread | `src/src/main.cpp`, `src/src/send_uring.cpp` | the batch being sent | pop a frame, send (plain or SEND_ZC), close and confirm |
| write-ahead log | `src/src/wal.cpp` | mapped ring of entries | append, read back |
| recovery | `src/src/matching_engine.cpp`, `src/src/main.cpp` | log, shared-memory pool, snapshot files | replay, rebuild, checkpoint |
| trade server | `src/src/tcp_trade_server.cpp` | one OUCH session | enter, cancel, stop |
| logger | `src/include/mpsc_ring.h`, `src/src/logger.cpp` | MPSC ring | log, consume, shut down |
| codecs, metrics | `itch_parser`, `ouch_protocol`, `protocol`, `metrics.h` | none or counters | parse, format, count |

How they interact. The IO+Matching thread receives ITCH messages through io_uring and
calls the engine in the same thread. The engine writes the log, matches, and returns a
vector of fixed-size responses; the thread pushes a header and the responses into the
byte ring. The Send thread pops a header, sends the batch it announces on the socket
named in the header, and releases it. A close also travels through the ring
(`RSP_CLOSE` with a pointer to an atomic flag), so that the Send thread closes the
socket after everything queued before it, and the IO thread recycles the connection when
it sees the flag. All books share one order pool and one index. The optional trade server
calls the same engine from another thread. Every thread logs through the MPSC ring of the
logger, whose consumer writes the file. After a restart the books are rebuilt from the
shared pool when it is still there, and from the log when it is not.

What is hard about it: matching loops of several threads over one pool; ABA on the free
list; a producer and a consumer that use counters they read earlier; a zero-copy send that
reads ring memory while the producer runs; descriptors reused by the kernel while closes
are in flight; full pools, rings and buffer stacks; 32-bit sums; self-trade prevention
against price priority and fill-or-kill; shutdown; restart from partial information.
`PROJECT.json` lists each hazard at the line where it bites.

## 2. Modules

| module | models |
|---|---|
| `BookPriority` | the order record and the price-time order; shared by the engine and the book |
| `MatchingEngine` | the calls of the engine and the matching loop, books by what they promise |
| `OrderLifecycle` | abstract: what the owner of an order is promised |
| `TradeServer` | the OUCH session on top of `MatchingEngine`, with another caller beside it |
| `Recovery` | `MatchingEngine` over the slots of the pool and the log, crashes, and both recoveries |
| `OrderBook` | the linked lists, the cached level quantities, index and slots |
| `BookSpec` | abstract: what the books promise the engine |
| `OrderPool` | the lock-free free list, one step per atomic access |
| `OrderMap` | the index: chains, node reuse, treeify; a step is one access to shared memory, or to the fields of one node |
| `SpscByteRing` | the byte ring, one step per load, copy and store |
| `ResponsePath` | composition of TCP server, byte ring, Send thread, kernel and clients |
| `Logger` | log, MPSC ring, consumer thread and shutdown |
| `MatchingEngine_proofs`, `_crossing`, `_trades`, `_custody`, `_lifecycle` | theorems about `MatchingEngine`: types, crossed books, lemmas on trades, custody of orders, refinement of `OrderLifecycle` |
| `OrderPool_proofs`, `SpscByteRing_proofs` | theorems about `OrderPool` and `SpscByteRing` |
| `MC...` | instances for TLC; `MCLockFree` is the one of `OrderPool`, `SpscByteRing` and `Logger` |

Operators marked *Fault* are wrong variants of the definition after them; a property that
is worth keeping fails when one takes the definition's place. No specification uses them.

**MatchingEngine.** `resting[r]` is the order with reference `r`, `call[t]` the order thread
`t` is matching, `out[t]` its responses, `wal` and `trade_pool` the two rings. `ledger` is a
history variable. Entry steps (`processAdd`, `processReplace`) validate, number and log;
`matchOrder` is one iteration of `matchBuyOrder`/`matchSellOrder`; the `finish...` steps are
the ends of a call (filled, remainder dropped, remainder rests). `processCancel` and `processCancelShares` are
single steps. Threads work under the contract of `matching_engine.h`: never two on one book.
`Refs` are opaque ids. Callers submit a reference once (the feed's reference numbers
are unique). `UsersOf` says under which user ids: the servers use the reference itself;
library callers use accounts. A caller names the book its order is in (`OwnBook`): no code
tests it, the index is shared by all books. In `Recovery`, `LocatesOf` says which books callers
name for an order. `new_ref` of a replace is never 0 here, as no
feed message has it.

**TradeServer.** `session` is where the thread is: in accept, in recv, in the engine, or
ended. `handleEnter` and `handleCancel` run to the call of the engine, `inside` is a step of
the call, `replyEnter` and `replyCancel` turn the responses into OUCH messages. `told`
records what the client has read. `feed` is a request of the other server.

**Recovery.** `mem` is the array of slots in shared memory, stale contents included, and
`free` the order in which `allocate` will take them. While `phase = "up"` the engine runs and
the slots follow the books. `restart(shm)` ends the process between two steps of any phase,
with or without its shared memory, and makes the choice of `main`; `crashInTrade` ends it
inside an iteration of the matching loop, when the maker's slot is reduced and its status
not yet set, before or after the trade is recorded. `scan` is one slot of
`recoverFromShared`: it adds the order it finds, which writes it over another slot of the
same array. `replayNew`, `replayMatch`, `replayAdd` and `replayCancel...` are one entry of
`recoverFromWal`, matching loop included. `resume` is the return to service: `init` takes the
log file, which has its full size from the start, as full, so that the next `append` writes
over its first entry. `promised` is computed from the requests alone, with no matching
loop: how much every maker has to give follows from its place in the queue. `kept` is what
the books held when the shared memory was left. `broken` says that the log no longer holds
every call behind the books (an entry was written over, or the books were rebuilt from
something else), `doubtful` names the orders of which the memory may hold an old state.

**OrderBook.** `storage`, `level`, `index`, `free` are the C++ fields. An operation is one
step, because calls on one book are serial and calls on different books touch disjoint
slots and levels. The index is used as a map. `ImplementsBook` shows that, seen through
the index, the lists behave as `BookSpec`, the representation `MatchingEngine` uses.

**OrderPool.** `free_head` carries tag and index. The history variable `stack` records what
was pushed and popped; `LinksFormStack` relates the links in memory to it. The owner of a
slot may overwrite its link at any time.

**OrderMap.** `th[t]` holds the program counter and the locals of a call. The nodes' free list
is the tagged stack of `OrderPool`, so taking and giving back a node is one step; what runs
under `overflow_lock_` is one step. Calls on different keys overlap as they please, in one
bucket too; calls on one key do not, since its order is in one book.

**SpscByteRing.** The k-th byte ever pushed is represented by k, so that the contents of
the buffer show which byte of the stream they are.

**ResponsePath.** A 48-byte frame is `FrameUnits` = 3 units, so that a push can be cut in the
middle of a frame and a send can be short. `owner` is the kernel's descriptor table (lowest
free descriptor first), `ctx` the connection contexts, `conns` the map by descriptor,
`pending` the closes in flight. Pushes are atomic here (`SpscByteRing` covers their inside).
A frame pieced together from two frames stops the Send thread in state `garbled`: what it
would do with such bytes is not followed. A send may fail on a socket whose client is there,
once in a behaviour. `io.spilled` remembers that a push met a ring without room, `tx.cut` that
an error left part of a batch in the ring (where the ring wraps, or when SEND_ZC could not
be submitted), `tx.failed` that a send to a live client failed, `io.early` that shutdown took
an empty ring for confirmed closes.

**Logger.** An entry is the number its producer claimed. `caller`, `writer` and `main` are the
program counters, `wake` is the eventfd. `main` shuts the logger down when the threads that
log have been joined. `lapped` remembers that an entry was claimed while another producer
was still inside `alloc`, a lap behind.

**MCLockFree.** Pool, byte ring and logger share no state. A behaviour runs one of the three
and leaves the others at rest: the run checks each structure under all its interleavings
and does not pay for their product.

## 3. Runs

Passing runs:

| run | question | bounds |
|---|---|---|
| `engine_orders` | orders and quantities accounted for, time priority over histories, truthful responses, fill-or-kill all or nothing, life cycle refined | 3 orders, 3 times in force, 2 prices, quantities 1 and 2, sums modulo 3, pool of 2, 3 logged calls |
| `trade_session` | what the client was told is and stays true; custody and uncrossed books under interleaved loops; every call and every request ends | 2 threads, 2 books and an unknown one, 3 orders (1 of the session, quantity 2), quantities 0 and 1 of the others, 3 times in force, market orders and orders of one account, pool of 2 |
| `books` | links, ends, counts, index and free slots agree; `BookSpec` refined; the walks find the first order by priority that is not the caller's; cached and computed quantities agree | 3 orders, 2 users, 2 prices, 3 slots, quantity 1, sums modulo 3 |
| `recovery` | what a restart finds again, from slots or log, and what the service then does with it, with a process that ends between two steps or inside a trade | 3 orders, one of them in book 0 and two in book 1, quantities 1 and 2, 3 slots, log of 3, 3 logged calls, 2 crashes |
| `lock_free` | pool: no slot owned twice or lost, retries end; byte ring: no byte overwritten, skipped, repeated or lost; logger: whole entries, once, in order, none left behind, no lost wake-up, shutdown returns | pool: 3 threads, 2 slots, calls begin below 5 CASes; ring: 4 bytes, 3 laps, pushes longer than the ring; logger: 2 producers, ring of 2, 4 entries |
| `path` | responses reach their connection only, in order, complete, on frame boundaries; contexts and buffers protected and recycled, across shutdown | 2 clients on one descriptor, ring of 16 units, 3 responses |

Runs that find a disagreement between the code and what the repository says of it
(the quotations are in `PROJECT.json`):

| run | what happens |
|---|---|
| `recovery_log` | replay rests the remainder of an IOC order, keeps the replaced order and drops the one that replaced it |
| `index_overlap` | `find` misses a key that is there, when the node it stands on is erased |
| `logger_lapped` | two producers a lap apart both find one slot free and write into it |
| `path_reconnect` | draining an old close erases the new connection on the same descriptor |
| `path_zc` | without SEND_ZC support a batch is released and then "sent again" |
| `path_shutdown` | shutdown does not wait for the last confirmation, and a context is deleted twice |

Why the bounds are enough to be interesting. Three orders give a taker, a maker and a
bystander of the same price; a pool of 2 is full while a call is under way; three slots
make a list with a middle; one descriptor for two clients forces reuse; 16 units hold two
batches but not the close behind them, and 16 is no multiple of 3, so that frames wrap.
In `engine_orders` two orders wrap the sum of the precheck, in `books` three orders of quantity 1
on one side do; with quantities 1 and 2 `books` does not end in reasonable time, so its
arrivals are never partly filled. `WalCap` and `TradeCap` are 1 in the engine's runs, so that
both rings wrap. In `recovery` the first process does not wrap the log (`recoverFromWal` reads
it from the first entry), and a service that was resumed writes over it from the first entry.
The scan moves the two orders of
book 1 into book 0, where the third may then take from both; with callers that name either
book for every order the instance has about 2.6 million states and passes, too many to keep. Two crashes allow one during the recovery from the other, or one in a service that was
resumed. A copy that a scan leaves behind and that offers too much later needs four orders:
the instance with 4 orders, 4 logged calls, 2 slots and quantity 1 has 759,000 states and
passes, and violates `NothingOfferedTwice` when `doubtful` does not count the copies
(`Copies`). Two log slots for two producers make the ring full and lapped. `books` with two
books that share the slots has 922,033 states and passes too; it takes too long to be kept
as a run. `MaxCalls`, `MaxOrders`, `MaxTag`, `MaxBytes`, `MaxFrames`, `MaxLogs`, `MaxServed`
and `MaxCrashes` bound the length of a history.

Symmetry is used for references and users, in runs without liveness
properties only. Deadlock is not checked where a legitimate end exists: the bound on calls,
a server that no client talks to any more, a logger that was shut down, a recovery that is
complete.

The type invariant of a module is proved (`MatchingEngine`, `OrderPool`, `SpscByteRing`) or is a
conjunct of the invariant about the same state: `IndexMatchesPool`,
`EntryNotTorn`, `BuffersExclusive`, `TraderToldTruth`, `CallsKeepPromise`.

### Where properties stop to hold

The properties say in their own text how far they reach. What lies beyond, and is the
behaviour of the code:

* **Fill-or-kill.** `FokAllOrNothing` needs one user per order, as both servers submit them:
  `canFullFill` counts the account's own resting orders, which the matching loop skips, so
  with accounts an order passes the precheck and is filled in part. The sum is a `uint32_t`;
  when it wraps the precheck refuses orders that could be filled.
* **Crossed books.** Self-trade prevention leaves the book crossed by two orders of one
  user; a replace with quantity 0 rests as an order of quantity 0.
* **Response path.** With a ring without room a direct send overtakes the ring and may end
  inside a frame; part of `RSP_CLOSE` may be written; after 10000 retries it is dropped, and
  descriptor and buffer with it. An error in a batch that wraps releases only its first
  part, and a SEND_ZC that cannot be submitted leaves the whole batch to be read as frames.
  `~TcpServer` deletes contexts whose close is not confirmed, twice (`path_shutdown`), and the
  Send thread confirms into deleted memory. After a failed accept none is armed again.
* **Replay of the log.** A `REPLACE` entry has only the new reference: the old order stays,
  the new one is lost. What an IOC order left over rests after replay (`recovery_log`).
  `ReplayRestores` is about logs without either (`Replayable`) that hold every call behind the
  books (`~broken`): after a restart the log is written over from its first entry, and a
  replay of the mixture gives other books. A replay that is interrupted while its shared
  memory survives is followed by a scan of the half-filled pool, and the rest of the log is
  not read.
* **Scan of the shared memory.** A cancelled or replaced order keeps its status in its freed
  slot and comes back, and so does a maker that was filled before its status was set, with
  quantity 0; all orders come back in book 0, in the order of their slots instead of their
  time, while their clients still name the book they submitted to; an interrupted scan leaves
  orders in two slots; the order of a call in progress is lost. `RestingSurvives` and
  `NothingOfferedTwice` state what does hold. A service with one order in two slots is not
  followed further.
* **Trade server.** `engine_mtx` is locked by the trade server only, although `main.cpp:152`
  says that it excludes the TCP server too: the engine's contract is an assumption of the
  model that the program does not enforce. `stop` joins a thread that may stay in `recv` as
  long as its client stays connected, although `tcp_trade_server.h:36` says that it is
  interrupted. Fills of a resting order are not reported to its owner; refusals other than
  a fill-or-kill's are acknowledged with `A`; a cancel of an unknown id has no answer.
* **Index.** Calls that overlap in one chain are not safe: a find may miss a key
  (`index_overlap`), two erases may lose a node, and an insert that links its node while treeify
  copies the chain is in neither map. The engine's contract, one thread per book, does not
  exclude them, since books share buckets. `OrderBook` therefore assumes an index that is a
  map. A node of a moved chain is never used again. `addOrder` does not look at the answer of
  a failed insert.
* **Logger.** A producer that is delayed inside `alloc` for a whole lap and one a lap ahead
  may both take the slot (`logger_lapped`). The other properties of the logger hold until then.

## 4. Fairness

* `OrderPool!FairSpec`: a thread inside a call is scheduled. A thread can lose its CAS only
  to a call that succeeds.
* `TradeServer!TradeSpec`: a thread inside a call of the engine is scheduled (the loops wait
  for nothing), and the session's thread sends the answer when the call has returned.
  Neither requests nor clients are fair.
* `SpscByteRing!RingFairSpec`: the Send thread polls the ring for ever.
* `Logger!LoggerFairSpec`: the consumer, each producer inside `log`, and main inside `shutdown` are
  scheduled. A producer on a full ring spins until the consumer has freed its slot.
* `ResponsePath!FairSpec`: both threads run, every wake-up of the event loop ends with a
  drain, and a connected client keeps reading. The last one is an assumption on the
  environment: the code spins on `EAGAIN` as long as a client does not read.

`MCLockFree!LockFreeSpec` has the fairness of `OrderPool`, `SpscByteRing` and `Logger`, each for
the behaviours in which that structure runs.

## 5. Proofs

For every value of the constants (any number of threads, books, orders, users and
quantities, any capacities), from the named assumptions of the modules only:

* `TypeCorrect`: `Spec => []TypeOK`. Quantities stay natural numbers because a trade takes
  the lesser of two remaining quantities and a partial cancel less than the remaining one.
* `OnlySelfCrosses`: `Spec => []CrossedOnlyBySelf`. The inductive invariant adds
  `ExhaustedIsFilled` (an order in a call whose quantity was used up by trades is marked
  filled, so it does not come to rest). When the loop stops with something left, every
  eligible maker is beyond the limit; the book then changes only by orders shrinking or
  leaving until the order rests, since no other thread works on the book.
* `OrdersInCustody`: `Spec => [](LiveInOnePlace /\ QuantityConserved)`, and its corollary
  `QuantityNeverLost`. The two are inductive together: conservation at a trade needs that
  maker and taker are different orders, which is custody, and custody at the end of a call
  needs the quantity.
* `EngineKeepsLifecycle`: `Spec => KeepsLifecycle`, the refinement of `OrderLifecycle`. The
  mapping gives every order the account `acct[r]`: its phase, what it still has to trade, and
  what it traded. The invariant `Custody` turns the open quantity into original less
  traded less cancelled (`OpenIsOwed`), so that a step is judged by the ledger alone
  (`View`). Every action then changes one account (`OneAccount`), or those of the two sides of
  a trade by the same quantity (`TwoAccounts`), or none.
* `SlotsNeverShared`, `SlotsNeverLost`, `FreeListIsStack` of the order pool, for any number of
  threads and slots. The invariant `PoolInv` relates the links to the history of pushes and
  pops; its heart is about a call that has read head and link: if the head still carries
  the tag it read, nothing was pushed or popped since, so the link it read is the one the
  CAS may install. That is what the tag is for (ABA).
* `RingCorrect`: `RingSpec => [](RingTypeOK /\ NeverOverfull /\ SpanIsNextBytes)` of the byte ring, and
  its corollary `RingNeverOverfull`.
  The invariant `RingInv` says where every unread byte and every byte already copied by
  the push in progress lies. The argument is modular arithmetic: positions of counters
  less than N apart differ (`PosDistinct`), a position advances with its counter
  (`PosShift`) and wraps once (`PosWrap`).

Only model-checked: liveness (out of the prover's reach); the sums of `BuysEqualSells` and
`ReportsMatchLedger`, which need induction over data; the priority and fill-or-kill
properties of the engine; the refinement of `BookSpec`; `OrderBook`,
`OrderMap`, `Recovery`, `TradeServer`, `Logger` and `ResponsePath`.

## 6. Not modelled

* Snapshots and checkpoints (`saveSnapshot`, `loadSnapshot`, `checkpointIfNeeded`): the program
  writes them and never reads them back. (`total_` of the log after a restart is modelled: it
  decides where the next entry is written.)
* A process that ends inside the copy of an order into its slot, or between the stores of one
  link operation: the slots are written whole.
* What a power failure leaves of the mapped log file, and the flush of the crash handler.
* Codecs: stateless extraction of fields from fixed-length messages. With them the
  accumulation of half messages in `drainBuffered`, whose only effect is which messages the
  engine sees.
* Book queries of the trade server (a read of the top of book) and frames with a bad checksum.
* Calls of two threads in one book: a data race for the C++ memory model, excluded by the
  contract of `matching_engine.h`.
* Metrics, log texts, option parsing, CPU pinning: nothing depends on them.
* Weak memory: the models are sequentially consistent. The rings and the pool use
  release/acquire pairs for exactly the hand-overs the models treat as steps.
* Spurious failure of `compare_exchange_weak` and the wrap of the 32-bit tag.
* The notification completions of SEND_ZC: an event inside the kernel that the code
  does not read.
