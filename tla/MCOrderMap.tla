----------------------------- MODULE MCOrderMap -----------------------------
(* The instance of OrderMap for TLC: every key falls into one bucket. *)
EXTENDS OrderMap

CONSTANT b1

OneBucket == [k \in Keys |-> b1]

=============================================================================
