---------------------------- MODULE MCOrderBook -----------------------------
(***************************************************************************)
(* Instances of OrderBook for TLC.                                         *)
(***************************************************************************)
EXTENDS OrderBook

Symmetry == Permutations(Refs) \cup Permutations(Users)

=============================================================================
