------------------------- MODULE MCMemoryPromotion -------------------------
(* Small instances of memory promotion.                                    *)
EXTENDS MemoryPromotion, TLC

\* Tasks, snapshots and sessions are interchangeable.
Interchangeable ==
    Permutations(Tasks) \cup Permutations(Snapshots) \cup Permutations(Sessions)
============================================================================
