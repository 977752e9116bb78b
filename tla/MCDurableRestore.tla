------------------------- MODULE MCDurableRestore -------------------------
(* Small instances of the restore: restorers, snapshots, files and staged  *)
(* variants are interchangeable model values.                              *)
EXTENDS DurableRestore, TLC

Symmetry ==
    Permutations(Restorers) \cup Permutations(Snapshots)
        \cup Permutations(Files) \cup Permutations(Variants)
============================================================================
