--------------------------- MODULE OrderLifecycle ---------------------------
(***************************************************************************)
(* What the exchange promises the owner of an order, whatever the prices,  *)
(* books and queues are: a reference is submitted once, its quantity is    *)
(* consumed by trades and withdrawals only, a trade takes the same amount  *)
(* from two live orders and exhausts one of them, and an order that is     *)
(* done stays done.                                                        *)
(***************************************************************************)
EXTENDS Integers

CONSTANTS
  Refs,        \* order references
  Quantities   \* the quantities orders are submitted with

VARIABLE acct   \* per reference: its phase, open quantity and traded quantity

Live(r) == acct[r].phase = "live"

Fresh(q) == [phase |-> "live", open |-> q, traded |-> 0]

Done(a) == [phase |-> "done", open |-> 0, traded |-> a.traded]

Traded(a, q) == [phase |-> a.phase, open |-> a.open - q, traded |-> a.traded + q]

Init == acct = [r \in Refs |-> [phase |-> "new", open |-> 0, traded |-> 0]]

Submit(r) ==
  /\ acct[r].phase = "new"
  /\ \E q \in Quantities : acct' = [acct EXCEPT ![r] = Fresh(q)]

\* The maker leaves at once when the trade exhausts it; the taker may still
\* have to be acknowledged.
Trade(taker, maker) ==
  LET q == IF acct[taker].open < acct[maker].open
           THEN acct[taker].open ELSE acct[maker].open
  IN
  /\ taker # maker /\ Live(taker) /\ Live(maker)
  /\ acct[taker].open > 0
  /\ acct' = [acct EXCEPT ![taker] = Traded(@, q),
                          ![maker] = IF acct[maker].open = q
                                     THEN Done(Traded(@, q)) ELSE Traded(@, q)]

\* Part of the open quantity is cancelled; something stays open.
Withdraw(r) ==
  /\ Live(r)
  /\ \E q \in 0 .. acct[r].open - 1 : acct' = [acct EXCEPT ![r].open = @ - q]

\* The order is acknowledged as filled, is cancelled, or loses its remainder.
Leave(r) == Live(r) /\ acct' = [acct EXCEPT ![r] = Done(@)]

\* A replace closes one reference and submits another in one step.
Amend(old, new) ==
  /\ Live(old) /\ acct[new].phase = "new"
  /\ \E q \in Quantities : acct' = [acct EXCEPT ![old] = Done(@), ![new] = Fresh(q)]

Next ==
  \/ \E r \in Refs : Submit(r) \/ Withdraw(r) \/ Leave(r)
  \/ \E r, s \in Refs : Trade(r, s) \/ Amend(r, s)

Spec == Init /\ [][Next]_acct

=============================================================================
