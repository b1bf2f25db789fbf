---------------------------- MODULE ResponsePath ----------------------------
(***************************************************************************)
(* The response path and the life of a connection: the IO+Matching thread  *)
(* (TcpServer over IoUringPoller), the Send thread of main.cpp, and the    *)
(* byte ring between them.                                                 *)
(*                                                                         *)
(* The IO thread accepts connections, turns what it receives into batches  *)
(* of 48-byte response frames, and pushes them behind a header frame that  *)
(* names the client's descriptor.  A connection is closed by the Send      *)
(* thread: the IO thread pushes RSP_CLOSE with a pointer to the flag       *)
(* close_acked of the connection's context, and recycles the context when  *)
(* it finds the flag set.                                                  *)
(*                                                                         *)
(* The ring is what module SpscByteRing proves it to be, a FIFO of bytes.  *)
(* Its unit here is 16 bytes: a frame is three units, and, as in the code, *)
(* the size of the ring, a power of two, is not a whole number of frames.  *)
(* What the engine answers is left open: a receive yields any number of    *)
(* frames up to MaxRsp.                                                    *)
(***************************************************************************)
EXTENDS Integers, FiniteSetsExt, SequencesExt, TLC

CONSTANTS
  Conns,       \* client connections, numbered in the order they are made
  None,        \* no connection
  Fds,         \* file descriptors a client socket can get
  MaxBuffers,  \* MAX_BUFFERS, the fixed receive buffers
  RingUnits,   \* RING_SIZE, in units
  MaxRsp,      \* bound on the frames answered to one receive
  MaxFrames,   \* bound on the frames answered to all receives
  ZcMin,       \* frames from which a batch is sent by SEND_ZC
  ZcWorks,     \* the kernel supports SEND_ZC
  MaySignal    \* SIGINT or SIGTERM may arrive

ASSUME PathAssumption ==
  /\ Conns \subseteq Nat /\ Fds \subseteq Nat \ {0} /\ MaxBuffers \in Nat /\ RingUnits \in Nat \ {0}
  /\ None \notin Conns \cup Fds
  /\ MaxRsp \in Nat /\ MaxFrames \in Nat /\ ZcMin \in Nat \ {0}
  /\ ZcWorks \in BOOLEAN /\ MaySignal \in BOOLEAN

VARIABLES
  owner,    \* the kernel's descriptor table: the connection behind each fd
  gone,     \* connections whose peer has reset: every send to them fails
  accept,   \* the accept request: armed, idle, failed, or done with a connection
  conns,    \* conns_, by fd
  ctx,      \* the ConnContext of every connection
  pending,  \* pending_closes_
  bufs,     \* buf_free_stack_
  ring,     \* the units in the ring, oldest first
  pos,      \* head_ % RING_SIZE, in units
  io,       \* where the IO thread is, for which connection, and (history)
            \* whether the ring ever had too little room for it, and whether
            \* the shutdown went on before every close was confirmed
  tx,       \* where the Send thread is, and (history) whether an error left
            \* part of a batch in the ring, and whether a client that was
            \* there lost responses by an error
  made,     \* history: how many responses were made for each connection
  got       \* history: the units sent on the socket of each connection

kernel == <<owner, gone, accept>>
tables == <<conns, ctx, pending, bufs>>
stream == <<ring, pos>>
vars == <<kernel, tables, stream, io, tx, made, got>>

-----------------------------------------------------------------------------
(* Frames and the ring.                                                    *)

FrameUnits == 3

Header(fd, n) == [type |-> "RSP_HEADER", fd |-> fd, conn |-> None, n |-> n]
CloseOf(c)    == [type |-> "RSP_CLOSE", fd |-> ctx[c].fd, conn |-> c, n |-> 0]
Response(c, k) == [type |-> "RSP_OK", fd |-> 0, conn |-> c, n |-> k]

Units(f) == [i \in 1 .. FrameUnits |-> [frame |-> f, part |-> i]]

\* Responses from + 1 .. from + n of connection c, as they lie in the vector.
BatchUnits(c, from, n) ==
  FlattenSeq([k \in 1 .. n |-> Units(Response(c, from + k))])

FreeSpace == RingUnits - Len(ring)

\* push writes as much as fits.
Pushed(units) == ring \o SubSeq(units, 1, Min({Len(units), FreeSpace}))

\* read_release(k) of the consumer.
Release(k) ==
  /\ ring' = SubSeq(ring, k + 1, Len(ring))
  /\ pos' = (pos + k) % RingUnits

Contiguous(k) == Min({k, Len(ring), RingUnits - pos})

-----------------------------------------------------------------------------
(* The kernel and the peers.                                               *)

Accept(st) == [st |-> st, conn |-> None]

\* A client connects while an accept is armed: the socket gets the lowest
\* free descriptor.  With none free the accept fails.
connect(c) ==
  LET free == {fd \in Fds : owner[fd] = None}
  IN
  /\ accept.st = "armed"
  /\ ctx[c].st = "none" /\ \A d \in Conns : d < c => ctx[d].st # "none"
  /\ IF free = {}
     THEN accept' = Accept("failed") /\ UNCHANGED owner
     ELSE accept' = [st |-> "done", conn |-> c] /\ owner' = [owner EXCEPT ![Min(free)] = c]
  /\ UNCHANGED <<gone, tables, stream, io, tx, made, got>>

\* The peer of an open connection resets it.
reset(c) ==
  /\ c \in {owner[fd] : fd \in Fds} \ gone
  /\ gone' = gone \cup {c}
  /\ UNCHANGED <<owner, accept, tables, stream, io, tx, made, got>>

\* send(fd, ...) can succeed only on an open socket whose peer is there.
CanSend(fd) == owner[fd] # None /\ owner[fd] \notin gone

-----------------------------------------------------------------------------
(* The event loop of TcpServer::start.  One wake-up handles any number of  *)
(* completions and then drains the pending closes, so that, seen from the  *)
(* other threads, completions and drains come in any order.                *)

Running == io.at = "run"

\* process_cqes and onAccept: a completed accept; accept is armed again.
onAccept ==
  /\ Running /\ accept.st = "done"
  /\ LET c  == accept.conn
         fd == CHOOSE f \in Fds : owner[f] = c
     IN  IF bufs = <<>>
         THEN /\ owner' = [owner EXCEPT ![fd] = None]
              /\ UNCHANGED <<conns, ctx, bufs>>
         ELSE /\ ctx' = [ctx EXCEPT ![c] =
                   [st |-> "live", fd |-> fd, buf |-> Last(bufs), recv |-> TRUE,
                    closing |-> FALSE, acked |-> FALSE]]
              /\ bufs' = Front(bufs)
              /\ conns' = [conns EXCEPT ![fd] = c]
              /\ UNCHANGED owner
  /\ accept' = Accept("armed")
  /\ UNCHANGED <<gone, pending, stream, io, tx, made, got>>

\* process_cqes skips a failed accept, and only onAccept arms the next one.
skipFailedAccept ==
  /\ Running /\ accept.st = "failed"
  /\ accept' = Accept("idle")
  /\ UNCHANGED <<owner, gone, tables, stream, io, tx, made, got>>

\* The completion of the receive on the socket of c, looked up by descriptor.
\* The completions that only arm the receive again (-EAGAIN, or data without
\* a whole message that is answered) change nothing.
Received(c) == Running /\ ctx[c].recv /\ ctx[c].st = "live"

\* The descriptor is not in conns_ or its connection is closing: dropped.
ignoreRecv(c) ==
  /\ Received(c)
  /\ conns[ctx[c].fd] \in {None} \cup {d \in Conns : ctx[d].closing}
  /\ ctx' = [ctx EXCEPT ![c].recv = FALSE]
  /\ UNCHANGED <<kernel, conns, pending, bufs, stream, io, tx, made, got>>

\* A batch and its header fit into the ring.
Fits(n) == FreeSpace >= FrameUnits + (n * FrameUnits)

\* onRecv with n responses, and the choice of pushResponses: the header goes
\* into the ring if the whole batch fits, else the batch is sent from here.
onRecv(c, n) ==
  /\ Received(c) /\ conns[ctx[c].fd] = c /\ ~ctx[c].closing
  /\ FoldSet(LAMBDA d, k : made[d] + k, n, Conns) <= MaxFrames
  /\ IF Fits(n)
     THEN /\ ring' = Pushed(Units(Header(ctx[c].fd, n)))
          /\ io' = [io EXCEPT !.at = "batch", !.conn = c,
                              !.data = BatchUnits(c, made[c], n)]
     ELSE /\ io' = [io EXCEPT !.at = "direct", !.conn = c, !.spilled = TRUE,
                              !.data = BatchUnits(c, made[c], n)]
          /\ UNCHANGED ring
  /\ made' = [made EXCEPT ![c] = @ + n]
  /\ UNCHANGED <<kernel, tables, pos, tx, got>>

\* The handler returns to the loop; `short` tells that a push did not fit.
RunAgain(short) ==
  io' = [at |-> "run", conn |-> None, data |-> <<>>, early |-> FALSE,
         spilled |-> io.spilled \/ short]

\* The second push of pushResponses; the receive is armed again.
pushBatch ==
  /\ io.at = "batch"
  /\ ring' = Pushed(io.data)
  /\ RunAgain(FALSE)
  /\ UNCHANGED <<kernel, tables, pos, tx, made, got>>

\* The direct send of pushResponses: some bytes go out, or it gives up (500
\* spins on EAGAIN, or an error).
directSend ==
  LET fd == ctx[io.conn].fd IN
  /\ io.at = "direct"
  /\ \/ \E k \in 1 .. Len(io.data) :
          /\ CanSend(fd)
          /\ got' = [got EXCEPT ![owner[fd]] = @ \o SubSeq(io.data, 1, k)]
          /\ IF k = Len(io.data) THEN RunAgain(FALSE)
             ELSE io' = [io EXCEPT !.data = SubSeq(@, k + 1, Len(@))]
     \/ RunAgain(FALSE) /\ UNCHANGED got
  /\ UNCHANGED <<kernel, tables, stream, tx, made>>

\* onRecv with an end of file or an error: closeConnection up to its push.
closeConnection(c) ==
  /\ Received(c) /\ conns[ctx[c].fd] = c /\ ~ctx[c].closing
  /\ ctx' = [ctx EXCEPT ![c].recv = FALSE, ![c].closing = TRUE, ![c].acked = FALSE]
  /\ io' = [io EXCEPT !.at = "close", !.conn = c, !.data = Units(CloseOf(c))]
  /\ UNCHANGED <<kernel, conns, pending, bufs, stream, tx, made, got>>

\* Fault: the IO thread closes the socket itself.
pushClose_atOnce ==
  /\ io.at = "close"
  /\ owner' = [owner EXCEPT ![ctx[io.conn].fd] = None]
  /\ ctx' = [ctx EXCEPT ![io.conn].acked = TRUE]
  /\ pending' = Append(pending, io.conn)
  /\ RunAgain(FALSE)
  /\ UNCHANGED <<gone, accept, conns, bufs, stream, tx, made, got>>

\* The push of RSP_CLOSE: retried while it writes nothing, 10000 times.
pushClose ==
  /\ io.at = "close"
  /\ ring' = Pushed(io.data)
  /\ pending' = Append(pending, io.conn)
  /\ RunAgain(FreeSpace < FrameUnits)
  /\ UNCHANGED <<kernel, conns, ctx, bufs, pos, tx, made, got>>

\* Fault: the flag is not looked at.
Confirmed_always(c) == TRUE

Confirmed(c) == ctx[c].acked

Acked == SelectSeq(pending, Confirmed)

\* Fault: a recycled connection stays in the list.
Unacked_all == pending

Unacked == SelectSeq(pending, LAMBDA c : ~Confirmed(c))

\* drainPendingClose: buffer, map entry and context of every acked close.
drainPendingClose ==
  /\ pending' = Unacked
  /\ bufs' = bufs \o [i \in 1 .. Len(Acked) |-> ctx[Acked[i]].buf]
  /\ conns' = [fd \in Fds |->
       IF \E i \in 1 .. Len(Acked) : ctx[Acked[i]].fd = fd THEN None ELSE conns[fd]]
  /\ ctx' = [c \in Conns |->
       IF \E i \in 1 .. Len(Acked) : Acked[i] = c
       THEN [ctx[c] EXCEPT !.st = "deleted"] ELSE ctx[c]]

drain ==
  /\ Running /\ Acked # <<>>
  /\ drainPendingClose
  /\ UNCHANGED <<kernel, stream, io, tx, made, got>>

-----------------------------------------------------------------------------
(* Shutdown: the end of start(), then the destructor.                      *)

\* The loop ends; no new connection is accepted.  (The first pass over the
\* connections parses only what the loop has left unparsed, part of a
\* message, and so answers nothing.)
stop ==
  /\ Running /\ MaySignal
  /\ io' = [io EXCEPT !.at = "stop"]
  /\ accept' = Accept("idle")
  /\ UNCHANGED <<owner, gone, tables, stream, tx, made, got>>

ToClose == {c \in Conns : \E fd \in Fds : conns[fd] = c /\ ~ctx[c].closing}

\* The second pass: RSP_CLOSE for a connection that is not yet closing.
stopClose(c) ==
  /\ io.at = "stop" /\ c \in ToClose
  /\ ring' = Pushed(Units(CloseOf(c)))
  /\ ctx' = [ctx EXCEPT ![c].closing = TRUE, ![c].acked = FALSE]
  /\ pending' = Append(pending, c)
  /\ io' = [io EXCEPT !.spilled = @ \/ FreeSpace < FrameUnits]
  /\ UNCHANGED <<kernel, conns, bufs, pos, tx, made, got>>

\* The ring is empty: drain, and start() returns.  The Send thread empties the
\* ring by its pop, before it closes the descriptor and sets the flag.
stopDrain ==
  /\ io.at = "stop" /\ ToClose = {} /\ ring = <<>>
  /\ drainPendingClose
  /\ io' = [io EXCEPT !.at = "destroy", !.early = Unacked # <<>>]
  /\ UNCHANGED <<kernel, stream, tx, made, got>>

\* ~TcpServer closes and deletes what conns_ holds, then what pending_closes_
\* holds; then main sets io_shutdown_done.
destroy ==
  LET mapped == {conns[fd] : fd \in Fds} \ {None}
      left   == Range(pending)
  IN
  /\ io.at = "destroy"
  /\ owner' = [fd \in Fds |->
       IF \E c \in mapped \cup left : ctx[c].fd = fd THEN None ELSE owner[fd]]
  /\ ctx' = [c \in Conns |->
       [ctx[c] EXCEPT !.st = IF c \in mapped \cap left THEN "deleted twice"
                             ELSE IF c \in mapped \cup left THEN "deleted" ELSE @]]
  /\ conns' = [fd \in Fds |-> None]
  /\ pending' = <<>>
  /\ io' = [io EXCEPT !.at = "done"]
  /\ UNCHANGED <<gone, accept, bufs, stream, tx, made, got>>

-----------------------------------------------------------------------------
(* The Send thread.                                                        *)

At(where, f) ==
  [tx EXCEPT !.at = where, !.fd = f.fd, !.conn = f.conn,
             !.left = f.n * FrameUnits, !.need = f.n * FrameUnits]

\* Back to the head of the loop.
Popping == At("pop", Header(0, 0))

\* pop(hdr, 48) and the dispatch on the frame.  What the thread does with a
\* header pieced together from parts of two frames is not followed further.
pop ==
  /\ tx.at = "pop" /\ io.at # "done" /\ ring # <<>>
  /\ LET k == Min({FrameUnits, Len(ring)})
         f == ring[1].frame
     IN
     /\ Release(k)
     /\ tx' = IF SubSeq(ring, 1, k) # Units(f) THEN At("garbled", f)
              ELSE IF f.type = "RSP_CLOSE" THEN At("close", f)
              ELSE IF f.type # "RSP_HEADER" THEN Popping
              ELSE At(IF tx.zc_ok /\ f.n >= ZcMin THEN "zc" ELSE "plain", f)
  /\ UNCHANGED <<kernel, tables, io, made, got>>

\* RSP_CLOSE: close the descriptor, then set the flag.
closeFd ==
  /\ tx.at = "close"
  /\ owner' = [owner EXCEPT ![tx.fd] = None]
  /\ tx' = [tx EXCEPT !.at = "ack"]
  /\ UNCHANGED <<gone, accept, tables, stream, io, made, got>>

\* Fault: the close is not confirmed.
ackClose_unset ==
  /\ tx.at = "ack"
  /\ tx' = Popping
  /\ UNCHANGED <<kernel, tables, stream, io, made, got>>

ackClose ==
  /\ tx.at = "ack"
  /\ ctx' = [ctx EXCEPT ![tx.conn].acked = TRUE]
  /\ tx' = Popping
  /\ UNCHANGED <<kernel, conns, pending, bufs, stream, io, made, got>>

\* Fault: a short send counts as the whole batch.
SentOff_short(k) ==
  /\ CanSend(tx.fd)
  /\ got' = [got EXCEPT ![owner[tx.fd]] = @ \o SubSeq(ring, 1, k)]
  /\ Release(k)
  /\ tx' = Popping

\* Fault: the last unit that was sent stays in the ring.
SentOff_behind(k) ==
  /\ CanSend(tx.fd)
  /\ got' = [got EXCEPT ![owner[tx.fd]] = @ \o SubSeq(ring, 1, k)]
  /\ Release(k - 1)
  /\ tx' = IF k = tx.left THEN Popping
           ELSE [tx EXCEPT !.left = @ - k]

\* k units of the batch leave on the socket.
SentOff(k) ==
  /\ CanSend(tx.fd)
  /\ got' = [got EXCEPT ![owner[tx.fd]] = @ \o SubSeq(ring, 1, k)]
  /\ Release(k)
  /\ tx' = IF k = tx.left THEN Popping
           ELSE [tx EXCEPT !.left = @ - k]

\* The thread gives the batch up on an error, which a client that is there can
\* meet too (once, as a bound); `rest` tells that part of the batch stays in
\* the ring.
GiveUp(rest) ==
  /\ ~(tx.failed /\ CanSend(tx.fd))
  /\ tx' = [Popping EXCEPT !.cut = @ \/ rest, !.failed = @ \/ CanSend(tx.fd)]

\* The plain send loop: on an error it releases the chunk, which ends where
\* the ring wraps, and leaves the rest of the batch in the ring.
plainSend ==
  /\ tx.at = "plain" /\ ring # <<>>
  /\ \/ \E k \in 1 .. Contiguous(tx.left) : SentOff(k)
     \/ /\ Release(Contiguous(tx.left))
        /\ GiveUp(Contiguous(tx.left) < tx.left)
        /\ UNCHANGED got
  /\ UNCHANGED <<kernel, tables, io, made>>

\* send_zc_all: a completion with an error releases the rest of the batch; a
\* failed submission returns at once and leaves it in the ring (the request
\* that stays in the submission queue is not followed); when SEND_ZC is not
\* supported the thread goes on to the plain send loop.
zcSend ==
  /\ tx.at = "zc" /\ ring # <<>>
  /\ \/ ZcWorks /\ \E k \in 1 .. Contiguous(tx.left) : SentOff(k)
     \/ ZcWorks /\ Release(tx.left) /\ GiveUp(FALSE) /\ UNCHANGED got
     \/ ZcWorks /\ GiveUp(TRUE) /\ UNCHANGED <<stream, got>>
     \/ /\ ~ZcWorks
        /\ Release(tx.left)
        /\ tx' = [tx EXCEPT !.at = "plain", !.left = tx.need, !.zc_ok = FALSE]
        /\ UNCHANGED got
  /\ UNCHANGED <<kernel, tables, io, made>>

-----------------------------------------------------------------------------
Init ==
  /\ owner = [fd \in Fds |-> None] /\ gone = {} /\ accept = Accept("armed")
  /\ conns = [fd \in Fds |-> None]
  /\ ctx = [c \in Conns |-> [st |-> "none", fd |-> 0, buf |-> 0, recv |-> FALSE,
                             closing |-> FALSE, acked |-> FALSE]]
  /\ pending = <<>>
  /\ bufs = [i \in 1 .. MaxBuffers |-> MaxBuffers - i]
  /\ ring = <<>> /\ pos = 0
  /\ io = [at |-> "run", conn |-> None, data |-> <<>>, spilled |-> FALSE,
           early |-> FALSE]
  /\ tx = [at |-> "pop", fd |-> 0, conn |-> None, left |-> 0, need |-> 0,
           zc_ok |-> TRUE, cut |-> FALSE, failed |-> FALSE]
  /\ made = [c \in Conns |-> 0]
  /\ got = [c \in Conns |-> <<>>]

\* What the IO thread does without waiting for the network: the rest of a
\* handler that has begun, the drain of every wake-up, and the shutdown.
IoStep ==
  \/ pushBatch \/ directSend \/ pushClose \/ drain
  \/ (\E c \in Conns : stopClose(c)) \/ stopDrain \/ destroy

SendStep == pop \/ closeFd \/ ackClose \/ plainSend \/ zcSend

Next ==
  \/ \E c \in Conns :
       \/ connect(c) \/ reset(c)
       \/ ignoreRecv(c) \/ closeConnection(c)
       \/ \E n \in 1 .. MaxRsp : onRecv(c, n)
  \/ onAccept \/ skipFailedAccept \/ stop
  \/ IoStep \/ SendStep

Spec == Init /\ [][Next]_vars

\* Both threads keep running, every wake-up ends in a drain, and a client
\* that is connected keeps reading, so that no send is refused for ever.
FairSpec == Spec /\ WF_<<io, pending>>(IoStep) /\ WF_tx(SendStep)

-----------------------------------------------------------------------------
(* Properties.                                                             *)

\* The variables keep their types; the ring never holds more than its size
\* and the buffer stack never more than the buffers there are; and a context
\* is deleted once, unless the shutdown overtakes the handshake.
TypeOK ==
  /\ owner \in [Fds -> Conns \cup {None}] /\ conns \in [Fds -> Conns \cup {None}]
  /\ gone \subseteq Conns /\ accept.st \in {"armed", "idle", "failed", "done"}
  /\ \A c \in Conns : ctx[c].st \in {"none", "live", "deleted"}
                                       \cup (IF io.early THEN {"deleted twice"} ELSE {})
  /\ pending \in Seq(Conns)
  /\ Len(bufs) <= MaxBuffers /\ Len(ring) <= RingUnits /\ pos \in 0 .. RingUnits - 1
  /\ tx.left \in 0 .. tx.need

\* What a client reads was made for it, and no part of it twice: the header's
\* descriptor still belongs to the connection the batch was made for when the
\* Send thread, or the direct send, uses it, whatever closes and reconnects
\* have happened since it was pushed.
DeliveredToOwner ==
  \A c \in Conns :
    /\ \A i \in 1 .. Len(got[c]) : got[c][i].frame.conn = c
    /\ IsInjective(got[c])

\* A client reads its responses in the order the engine made them, as long as
\* the ring had room (a batch that is sent directly overtakes the ring).
ResponsesInOrder ==
  ~io.spilled =>
  \A c \in Conns : \A i, j \in 1 .. Len(got[c]) :
    i < j => \/ got[c][i].frame.n < got[c][j].frame.n
             \/ /\ got[c][i].frame.n = got[c][j].frame.n
                /\ got[c][i].part < got[c][j].part

\* A receive buffer belongs to one connection: it is free, or it is held by
\* exactly one context that is not yet recycled, and the kernel receives only
\* into buffers that are held; neither the stack of free buffers nor the ring
\* outgrows its size.
BuffersExclusive ==
  /\ TypeOK
  /\ IsInjective(bufs)
  /\ \A c \in Conns : ctx[c].st = "live" =>
       /\ ctx[c].buf \notin Range(bufs)
       /\ \A d \in Conns \ {c} : ctx[d].st = "live" => ctx[d].buf # ctx[c].buf
  /\ \A c \in Conns : ctx[c].st = "deleted" /\ io.at = "run" => ~ctx[c].recv

\* The close handshake keeps the context alive as long as the Send thread may
\* still write to it: every RSP_CLOSE in the ring or in the Send thread's
\* hands points into a context that has not been deleted, until ~TcpServer
\* deletes the rest.
CloseTargetsLive ==
  io.at # "done" =>
  /\ \A i \in 1 .. Len(ring) :
       ring[i].frame.type = "RSP_CLOSE" => ctx[ring[i].frame.conn].st = "live"
  /\ tx.at \in {"close", "ack"} => ctx[tx.conn].st = "live"

\* A connection that is open and not closing has a receive in flight, or its
\* handler, which arms it again, is running, and conns_ will find it.
LiveConnArmed ==
  Running => \A c \in Conns :
    ctx[c].st = "live" /\ ~ctx[c].closing
      => ctx[c].recv /\ conns[ctx[c].fd] = c

\* ~TcpServer deletes each context once: when start() returns every close has
\* been confirmed, so that conns_ and pending_closes_ share none.
DeletedOnce == \A c \in Conns : ctx[c].st # "deleted twice"

\* The limits of the path: the ring had no room for a batch or a close, or an
\* error left part of a batch in it.
Disturbed == io.spilled \/ tx.cut

\* The Send thread finds whole frames in the ring: short sends, wrap-around,
\* resets and closes never leave it in the middle of one, up to those limits.
FramesIntact == tx.at = "garbled" => Disturbed

\* A connection that has begun to close and is not recycled, or not properly.
Closing ==
  \E c \in Conns : ctx[c].closing /\ ctx[c].st # "deleted" /\ ~Disturbed /\ ~io.early

\* A connection that starts to close is closed and its context deleted once,
\* by the drain or by the shutdown that overtakes it, up to those limits and
\* unless the shutdown goes on before the close is confirmed.
EveryCloseRecycled == []<>~Closing

\* Responses still to be sent to a client that is there.
Unsent ==
  \E c \in Conns \ gone :
    Len(got[c]) < made[c] * FrameUnits /\ ~Disturbed /\ ~tx.failed

\* Every response is sent to its client, unless the client resets or a send to
\* it fails, also when the server is stopped meanwhile, up to those limits.
EveryResponseSent == []<>~Unsent

=============================================================================
