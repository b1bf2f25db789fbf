------------------------------ MODULE BookSpec ------------------------------
(***************************************************************************)
(* What the books promise the matching engine: a set of resting orders by  *)
(* reference.  An order enters under a reference that is not in a book,    *)
(* behind every order of its book; its quantity only goes down; it leaves  *)
(* whole.  No operation on one order changes another.                      *)
(***************************************************************************)
EXTENDS BookPriority

VARIABLE resting   \* [Refs -> Order \cup {NoOrder}]

Held == {r \in Refs : resting[r] # NoOrder}

Init == resting = [r \in Refs |-> NoOrder]

Add(r) ==
  /\ resting[r] = NoOrder
  /\ resting'[r] # NoOrder
  /\ resting'[r].remaining_qty + resting'[r].filled_qty = resting'[r].original_qty
  /\ \A s \in Held : resting[s].locate = resting'[r].locate
                       => resting[s].sequence < resting'[r].sequence
  /\ resting' = [resting EXCEPT ![r] = resting'[r]]

\* A trade moves quantity from remaining to filled; a partial cancel drops it.
Reduce(r, q) ==
  /\ resting[r] # NoOrder
  /\ q <= resting[r].remaining_qty
  /\ \E f \in {q, 0} :
       resting' = [resting EXCEPT ![r].remaining_qty = @ - q,
                                  ![r].filled_qty = @ + f]

Remove(r) ==
  /\ resting[r] # NoOrder
  /\ resting' = [resting EXCEPT ![r] = NoOrder]

Next ==
  \E r \in Refs :
    \/ Add(r) \/ Remove(r)
    \/ resting[r] # NoOrder
         /\ \E q \in 0 .. resting[r].remaining_qty : Reduce(r, q)

Spec == Init /\ [][Next]_resting

=============================================================================
