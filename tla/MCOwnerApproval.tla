--------------------------- MODULE MCOwnerApproval ---------------------------
(* Processes and requests are interchangeable: two processes that may post    *)
(* the same challenge, or one that decides, revokes and decides again.        *)
EXTENDS OwnerApproval, TLC

MCSymmetry == Permutations(Callers) \cup Permutations(Requests)
=============================================================================
