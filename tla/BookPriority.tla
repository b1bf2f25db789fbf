---------------------------- MODULE BookPriority ----------------------------
(***************************************************************************)
(* The vocabulary the matching engine, the order book and their abstract   *)
(* specifications share: the record of an order, and the price-time order  *)
(* in which a side of a book is consumed.  The C++ book keeps bids in a    *)
(* std::map sorted by descending price, asks by ascending price, and the   *)
(* orders of one price in a FIFO list.                                     *)
(*                                                                         *)
(* In this and the other modules an operator marked "Fault" is a wrong     *)
(* variant of the definition after it, seeded to show that a property      *)
(* fails when the code goes wrong that way; no specification uses it.      *)
(***************************************************************************)
EXTENDS Integers

CONSTANTS
  Refs,      \* order reference numbers; an opaque 64-bit id other than 0
  Users,     \* account ids an order can carry besides the reference numbers
  Zero,      \* the id 0, which processAdd refuses as a reference or a user
  NoOrder    \* absence of an order (a null Order pointer)

Sides == {"BUY", "SELL"}

Opposite(side) == IF side = "BUY" THEN "SELL" ELSE "BUY"

\* A replaced order carries its new reference as its user id, so references
\* and users are drawn from one space of 64-bit ids.
Ids == Refs \cup Users

Order ==
  [locate        : Nat,
   side          : Sides,
   price         : Nat,
   original_qty  : Nat,
   remaining_qty : Nat,
   filled_qty    : Nat,
   user_id       : Ids,
   sequence      : Nat,
   status        : {"OPEN", "PARTIALLY_FILLED", "FILLED"}]

ASSUME IdsAssumption ==
  /\ Zero \notin Ids
  /\ NoOrder \notin Order

\* Fault: equal prices do not trade.
Crosses_strict(o, m) ==
  IF o.side = "BUY" THEN o.price > m.price ELSE o.price < m.price

\* The limit of order o accepts a trade at the price of m, an order of the
\* opposite side (the complement of the loop's price break).
Crosses(o, m) ==
  IF o.side = "BUY" THEN o.price >= m.price ELSE o.price <= m.price

\* Fault: the newest order of a price goes first.
Ahead_lifo(m, n) ==
  \/ IF m.side = "SELL" THEN m.price < n.price ELSE m.price > n.price
  \/ m.price = n.price /\ m.sequence > n.sequence

\* m is consumed before n, an order of the same side of the same book: the
\* better price first, then the order that was appended to the level first.
Ahead(m, n) ==
  \/ IF m.side = "SELL" THEN m.price < n.price ELSE m.price > n.price
  \/ m.price = n.price /\ m.sequence < n.sequence

=============================================================================
