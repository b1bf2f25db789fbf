-------------------------- MODULE MCMatchingEngine --------------------------
(***************************************************************************)
(* Instances of MatchingEngine for TLC.                                    *)
(***************************************************************************)
EXTENDS MatchingEngine, TLC

\* Both servers submit an order under its own reference as the user id.
UserPerOrder == [r \in Refs \cup {Zero} |-> {r}]

RefSymmetry == Permutations(Refs)

=============================================================================
