-------------------------- MODULE MCWorkflowRuntime --------------------------
(* Two sessions that share request identifiers: the one retries what the    *)
(* other began, or interferes with it.                                      *)
EXTENDS WorkflowRuntime, TLC

MCSymmetry == Permutations(Sessions) \cup Permutations(Ids)
=============================================================================
