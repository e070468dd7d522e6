--------------------------- MODULE MCRuntimeSocket ---------------------------
(* Calls and identities are model values.                                   *)
EXTENDS RuntimeSocket, TLC

CallSymmetry == Permutations(Calls)

=============================================================================
