----------------------------- MODULE MCLockFree -----------------------------
(***************************************************************************)
(* The lock-free structures of the service, for TLC: the free list of the  *)
(* OrderPool, the byte ring between the threads, and the logger over its   *)
(* ring.  They share no state, so that interleaving them would show nothing *)
(* and cost a product of state spaces: a behaviour of this module runs one *)
(* of them and leaves the others at rest.                                  *)
(***************************************************************************)
EXTENDS OrderPool, SpscByteRing, Logger

VARIABLE active   \* the structure that runs

all == <<vars, ring_vars, logger_vars, active>>

LockFreeInit ==
  /\ Init /\ RingInit /\ LoggerInit
  /\ active \in {"pool", "ring", "logger"}

LockFreeNext ==
  /\ \/ active = "pool" /\ Next /\ UNCHANGED <<ring_vars, logger_vars>>
     \/ active = "ring" /\ RingNext /\ UNCHANGED <<vars, logger_vars>>
     \/ active = "logger" /\ LoggerNext /\ UNCHANGED <<vars, ring_vars>>
  /\ UNCHANGED active

\* The fairness of FairSpec, RingFairSpec and LoggerFairSpec.
LockFreeSpec ==
  /\ LockFreeInit /\ [][LockFreeNext]_all
  /\ \A t \in Threads : WF_vars(active = "pool" /\ Step(t))
  /\ WF_ring_vars(active = "ring" /\ Consumer)
  /\ WF_logger_vars(active = "logger" /\ Consume)
  /\ WF_logger_vars(active = "logger" /\ Shutdown)
  /\ \A p \in Producers : WF_logger_vars(active = "logger" /\ Log(p))

=============================================================================
