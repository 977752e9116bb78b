------------------------ MODULE MCDurableSnapshot ------------------------
(* Small instances of the durable checkpoints: writers and trees are model *)
(* values, interchangeable, and the bounds come from the configurations.   *)
EXTENDS DurableSnapshot, TLC

Symmetry ==
    Permutations(ArtifactTrees) \cup Permutations(Retaining) \cup Permutations(Writers \ Retaining)

\* The bound: once calls have overlapped, one artifact tree is enough.
Contained ==
    LET trees == {live.tree} \cup {m.tree : m \in committed \cup reserved}
                   \cup {work[w].content.tree : w \in {w \in Writers : work[w] # NoWork}}
    IN  overlapped => \A t, u \in trees : t = u
===========================================================================
