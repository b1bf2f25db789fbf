--------------------------- MODULE MCTradeServer ---------------------------
(***************************************************************************)
(* Instance of TradeServer for TLC.                                        *)
(***************************************************************************)
EXTENDS TradeServer, TLC

\* The other callers submit all their orders under the accounts of Users.
SharedUsers == [r \in Refs \cup {Zero} |-> Users]

=============================================================================
