--------------------------- MODULE MCBatchedClient ---------------------------
(***************************************************************************)
(* BatchedClient for TLC.                                                  *)
(***************************************************************************)
EXTENDS BatchedClientProps

\* Nothing distinguishes one connection of a bundle from another.
Symmetry == Permutations(Conn)
=============================================================================
