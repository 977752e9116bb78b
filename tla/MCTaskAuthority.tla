--------------------------- MODULE MCTaskAuthority ---------------------------
(* A small instance of TaskAuthority; session identities are interchangeable. *)
EXTENDS TaskAuthority, TLC

Symmetry == Permutations(Sessions)
=============================================================================
