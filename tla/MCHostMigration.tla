-------------------------- MODULE MCHostMigration --------------------------
(* Small instances of the host migration.                                  *)
EXTENDS HostMigration, TLC

\* Files, versions and edits are interchangeable.
Interchangeable ==
    Permutations(Files) \cup Permutations(Versions) \cup Permutations(Edits)
============================================================================
