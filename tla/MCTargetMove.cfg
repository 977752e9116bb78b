SPECIFICATION MCFairSpec
CONSTANTS
    A = A
    h1 = h1
    Targets = {A, B}
    Homes = {h1, h2}
    Durable = TRUE
    MaxMoves = 1
    MaxEdits = 1
    MaxCrashes = 1
    MaxLosses = 1
    MaxTasks = 1
    MaxNeighbours = 1
    None = None
INVARIANTS TypeOK SplitHasJournal
PROPERTIES ImplementsProjectRoute EndsAsRecorded Converges
CHECK_DEADLOCK FALSE
