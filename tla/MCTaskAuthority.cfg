SPECIFICATION Spec
CONSTANTS
    Tasks = {t1}
    Sessions = {s1, s2, s3}
    ReadOnly = {t1}
    Producers = {}
    Stops = {"blocked"}
    MaxCycles = 2
    None = None
SYMMETRY Symmetry
INVARIANTS TypeOK HoldersAreVerified ClosureHasRecord
PROPERTIES ImplementsTaskLife
CHECK_DEADLOCK FALSE
