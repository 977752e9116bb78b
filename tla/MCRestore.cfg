SPECIFICATION Spec
CONSTANTS
    Restorers = {p}
    Snapshots = {s1, s2}
    Files = {f1, f2}
    Variants = {v1, v2}
    Linked = FALSE
    Foreign = TRUE
    MaxTrees = 2
    Absent = Absent
SYMMETRY Symmetry
INVARIANTS DatabaseOverWholeTree PartialIsRecorded
PROPERTIES KeepsOthers
