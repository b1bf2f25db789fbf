--------------------------- MODULE MCResponsePath ---------------------------
(* Instances of ResponsePath for TLC. *)
EXTENDS ResponsePath

\* The descriptors a client socket can get; the kernel hands out the lowest.
OneFd == {1}
TwoFds == {1, 2}

=============================================================================
