----------------------------- MODULE MCRecovery -----------------------------
(***************************************************************************)
(* Instance of Recovery for TLC.                                           *)
(***************************************************************************)
EXTENDS Recovery

CONSTANT r1

\* The servers submit an order under its own reference as the user id.
UserPerOrder == [r \in Refs \cup {Zero} |-> {r}]

OneBook == [r \in Refs |-> {0}]

\* One order in book 0, where a scan puts all of them, the others in book 1.
TwoBooks == [r \in Refs |-> IF r = r1 THEN {0} ELSE {1}]

RefSymmetry == Permutations(Refs \ {r1})

=============================================================================
