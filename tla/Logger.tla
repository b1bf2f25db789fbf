------------------------------- MODULE Logger -------------------------------
(***************************************************************************)
(* The logger (src/src/logger.cpp) over the multi-producer ring            *)
(* (src/include/mpsc_ring.h): any thread logs, one consumer thread writes  *)
(* the file and sleeps on an eventfd, and main shuts it down.  Every       *)
(* atomic access, the write of an entry and each system call is a step.    *)
(*                                                                         *)
(* An entry is known by the number its producer claimed.  A call that the  *)
(* level or the closed file turns away at once changes nothing.            *)
(*                                                                         *)
(* main calls shutdown after the threads that log have been joined.        *)
(***************************************************************************)
EXTENDS Integers, Sequences

CONSTANTS
  Producers,  \* the threads that log
  CAPACITY,   \* CAPACITY
  Busy,       \* UINT64_MAX as a seq
  MaxLogs     \* bound on the number of entries

ASSUME LoggerAssumption ==
  /\ CAPACITY \in Nat \ {0} /\ MaxLogs \in Nat
  /\ Busy \notin Nat

VARIABLES
  claim_idx,    \* claim_idx_
  seq,          \* seq of every slot
  data,         \* data of every slot
  read_cursor,  \* read_cursor_
  caller,         \* per producer: where it is in log(), and its handle
  writer,         \* where the consumer thread is
  main,         \* where main is in shutdown()
  stopped,      \* stopped_
  wake,         \* the counter of wake_fd_ is not zero
  file,         \* the entries written to the log file
  lapped        \* history: a claim was a lap ahead of one still inside alloc

claims == <<claim_idx, lapped>>
logger_vars == <<claims, seq, data, read_cursor, caller, writer, main, stopped, wake, file>>

Slot(n) == n % CAPACITY

-----------------------------------------------------------------------------
(* log(), in a producer p.                                                 *)

In(p, pc) == caller[p].pc = pc

LogGoto(p, pc) == caller' = [caller EXCEPT ![p].pc = pc]

\* The next claim falls on the slot of a producer that was delayed for a whole
\* lap and has not yet marked it.  The load and the store of alloc are two
\* accesses, so that both producers can find the slot free.
Laps ==
  \E p \in Producers :
    caller[p].pc \in {"spin", "mark"} /\ claim_idx - caller[p].handle >= CAPACITY

\* alloc(): the fetch_add.
claim(p) ==
  /\ In(p, "idle") /\ main = "up" /\ claim_idx < MaxLogs
  /\ claim_idx' = claim_idx + 1
  /\ lapped' = (lapped \/ Laps)
  /\ caller' = [caller EXCEPT ![p] = [pc |-> "spin", handle |-> claim_idx]]
  /\ UNCHANGED <<seq, data, read_cursor, writer, main, stopped, wake, file>>

\* Fault: the producer does not wait for the slot.
spin_once(p) ==
  /\ In(p, "spin")
  /\ LogGoto(p, "mark")
  /\ UNCHANGED <<claims, seq, data, read_cursor, writer, main, stopped, wake, file>>

\* alloc(): the load that ends the spin.
spin(p) ==
  /\ In(p, "spin") /\ seq[Slot(caller[p].handle)] = 0
  /\ LogGoto(p, "mark")
  /\ UNCHANGED <<claims, seq, data, read_cursor, writer, main, stopped, wake, file>>

\* Fault: the slot is published before it is written.
mark_published(p) ==
  /\ In(p, "mark")
  /\ seq' = [seq EXCEPT ![Slot(caller[p].handle)] = caller[p].handle + 1]
  /\ LogGoto(p, "fill")
  /\ UNCHANGED <<claims, data, read_cursor, writer, main, stopped, wake, file>>

mark(p) ==
  /\ In(p, "mark")
  /\ seq' = [seq EXCEPT ![Slot(caller[p].handle)] = Busy]
  /\ LogGoto(p, "fill")
  /\ UNCHANGED <<claims, data, read_cursor, writer, main, stopped, wake, file>>

\* The entry is formatted into the slot.
fill(p) ==
  /\ In(p, "fill")
  /\ data' = [data EXCEPT ![Slot(caller[p].handle)] = caller[p].handle + 1]
  /\ LogGoto(p, "commit")
  /\ UNCHANGED <<claims, seq, read_cursor, writer, main, stopped, wake, file>>

commit(p) ==
  /\ In(p, "commit")
  /\ seq' = [seq EXCEPT ![Slot(caller[p].handle)] = caller[p].handle + 1]
  /\ LogGoto(p, "notify")
  /\ UNCHANGED <<claims, data, read_cursor, writer, main, stopped, wake, file>>

\* Fault: the consumer is not woken.
notify_skipped(p) ==
  /\ In(p, "notify")
  /\ LogGoto(p, "idle")
  /\ UNCHANGED <<claims, seq, data, read_cursor, writer, main, stopped, wake, file>>

notify(p) ==
  /\ In(p, "notify")
  /\ wake' = TRUE
  /\ LogGoto(p, "idle")
  /\ UNCHANGED <<claims, seq, data, read_cursor, writer, main, stopped, file>>

-----------------------------------------------------------------------------
(* tryPop, the print and consume, by the consumer or by main in shutdown.  *)

HeadSlot == Slot(read_cursor - 1)

\* tryPop() returns an entry.
Ready == seq[HeadSlot] = read_cursor

print == file' = Append(file, data[HeadSlot])

consume ==
  /\ seq' = [seq EXCEPT ![HeadSlot] = 0]
  /\ read_cursor' = read_cursor + 1

\* consumerLoop: the test of stopped_.
consCheck ==
  /\ writer = "check"
  /\ writer' = IF stopped THEN "done" ELSE "pop"
  /\ UNCHANGED <<claims, seq, data, read_cursor, caller, main, stopped, wake, file>>

\* The outer tryPop: nothing to do sends the consumer to sleep; the inner
\* one, after an entry, back to the test of stopped_.
consPop ==
  /\ writer \in {"pop", "next"}
  /\ writer' = IF Ready THEN "print" ELSE IF writer = "pop" THEN "sleep" ELSE "check"
  /\ UNCHANGED <<claims, seq, data, read_cursor, caller, main, stopped, wake, file>>

\* read(wake_fd_) blocks while the counter is zero and resets it.
consRead ==
  /\ writer = "sleep" /\ wake
  /\ wake' = FALSE
  /\ writer' = "check"
  /\ UNCHANGED <<claims, seq, data, read_cursor, caller, main, stopped, file>>

consPrint ==
  /\ writer = "print"
  /\ print
  /\ writer' = "consume"
  /\ UNCHANGED <<claims, seq, data, read_cursor, caller, main, stopped, wake>>

consConsume ==
  /\ writer = "consume"
  /\ consume
  /\ writer' = "next"
  /\ UNCHANGED <<claims, data, caller, main, stopped, wake, file>>

-----------------------------------------------------------------------------
(* shutdown(), in main.                                                    *)

stop ==
  /\ main = "up" /\ \A p \in Producers : In(p, "idle")
  /\ stopped' = TRUE
  /\ main' = "wake"
  /\ UNCHANGED <<claims, seq, data, read_cursor, caller, writer, wake, file>>

\* Fault: the consumer is not woken.
wakeUp_skipped ==
  /\ main = "wake"
  /\ main' = "join"
  /\ UNCHANGED <<claims, seq, data, read_cursor, caller, writer, stopped, wake, file>>

wakeUp ==
  /\ main = "wake"
  /\ wake' = TRUE
  /\ main' = "join"
  /\ UNCHANGED <<claims, seq, data, read_cursor, caller, writer, stopped, file>>

join ==
  /\ main = "join" /\ writer = "done"
  /\ main' = "drain"
  /\ UNCHANGED <<claims, seq, data, read_cursor, caller, writer, stopped, wake, file>>

\* One round of the final loop; it ends by closing the file.
drain ==
  /\ main = "drain"
  /\ \/ Ready /\ print /\ consume /\ UNCHANGED main
     \/ ~Ready /\ main' = "closed" /\ UNCHANGED <<seq, read_cursor, file>>
  /\ UNCHANGED <<claims, data, caller, writer, stopped, wake>>

-----------------------------------------------------------------------------
LoggerInit ==
  /\ claim_idx = 0
  /\ seq = [s \in 0 .. CAPACITY - 1 |-> 0]
  /\ data = [s \in 0 .. CAPACITY - 1 |-> 0]
  /\ read_cursor = 1
  /\ lapped = FALSE
  /\ caller = [p \in Producers |-> [pc |-> "idle", handle |-> 0]]
  /\ writer = "check" /\ main = "up" /\ stopped = FALSE /\ wake = FALSE
  /\ file = <<>>

\* What producer p does inside log().
Log(p) == spin(p) \/ mark(p) \/ fill(p) \/ commit(p) \/ notify(p)

Consume == consCheck \/ consPop \/ consRead \/ consPrint \/ consConsume

Shutdown == wakeUp \/ join \/ drain

LoggerNext ==
  \/ \E p \in Producers : claim(p) \/ Log(p)
  \/ Consume
  \/ stop \/ Shutdown

LoggerSpec == LoggerInit /\ [][LoggerNext]_logger_vars

\* Every thread that can run is scheduled.
LoggerFairSpec ==
  /\ LoggerSpec /\ WF_logger_vars(Consume) /\ WF_logger_vars(Shutdown)
  /\ \A p \in Producers : WF_logger_vars(Log(p))

-----------------------------------------------------------------------------
(* Properties.                                                             *)

\* Program counters and numbers have their types; a slot is free, marked, or
\* published under a number that belongs to it.
LoggerTypeOK ==
  /\ claim_idx \in Nat /\ read_cursor \in Nat \ {0}
  /\ \A s \in 0 .. CAPACITY - 1 :
       /\ data[s] \in Nat
       /\ seq[s] \in {0, Busy} \cup {n \in 1 .. claim_idx : Slot(n - 1) = s}
  /\ caller \in [Producers ->
       [pc : {"idle", "spin", "mark", "fill", "commit", "notify"}, handle : Nat]]
  /\ writer \in {"check", "pop", "next", "sleep", "print", "consume", "done"}
  /\ main \in {"up", "wake", "join", "drain", "closed"}
  /\ stopped \in BOOLEAN /\ wake \in BOOLEAN /\ lapped \in BOOLEAN
  /\ file \in Seq(Nat)

\* While no producer is lapped inside alloc, the file holds the entries in the
\* order their slots were claimed, each one once and with its own text, however
\* producers overtake each other between alloc and commit and however often
\* the ring wraps.  When shutdown has closed it every entry ever logged is in
\* it: the consumer may see stopped_ with entries in the ring, and main writes
\* those.
FileInOrder ==
  ~lapped =>
  /\ \A i \in 1 .. Len(file) : file[i] = i
  /\ main = "closed" => Len(file) = claim_idx

\* While no producer is lapped, an entry is never read while it is written: a
\* producer that writes has marked its slot, and the consumer holds another
\* one.  Lapped or not, no slot is published under the number of another.
EntryNotTorn ==
  /\ LoggerTypeOK
  /\ ~lapped => \A p \in Producers :
       caller[p].pc \in {"fill", "commit"} =>
         /\ seq[Slot(caller[p].handle)] = Busy
         /\ writer \in {"print", "consume"} => Slot(caller[p].handle) # HeadSlot

\* Every entry logged reaches the file, unless a producer is lapped: no wake-up
\* is lost between the consumer's last look at the ring and its sleep, and no
\* producer waits for ever on a full ring.  (After a lap the consumer can wait
\* for the number of one producer in a slot that holds the number of another,
\* and then the ring fills up and every producer spins for ever.)
EveryEntryWritten ==
  \A n \in 1 .. MaxLogs : claim_idx >= n ~> Len(file) >= n \/ lapped

\* Shutdown returns once it is called: the consumer is woken and joined.
ShutdownReturns == stopped ~> main = "closed"

\* A slot has one writer: the producer that marked it, until it has published
\* the entry.  This is what taking a slot by a CAS would give; alloc takes a
\* number by a fetch_add and then marks the slot of that number by a store.
OneWriterPerSlot ==
  \A p, q \in Producers :
    /\ caller[p].pc \in {"fill", "commit"} /\ caller[q].pc \in {"fill", "commit"}
    /\ Slot(caller[p].handle) = Slot(caller[q].handle)
    => p = q

=============================================================================
