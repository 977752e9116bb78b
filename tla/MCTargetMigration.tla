------------------------- MODULE MCTargetMigration -------------------------
(* Small instances of the target migration.  Targets and homes are         *)
(* interchangeable, so the project starts on one of each.                  *)
EXTENDS TargetMigration

CONSTANTS A, h1

MCInit == Init /\ portfolio.target = A /\ home = h1
MCFairSpec == MCInit /\ [][Next]_vars /\ Fairness
============================================================================
