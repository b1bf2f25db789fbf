------------------------------ MODULE MCLogger ------------------------------
(***************************************************************************)
(* The instance of Logger in which producers are delayed for a whole lap.  *)
(***************************************************************************)
EXTENDS Logger

=============================================================================
