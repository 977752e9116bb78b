SPECIFICATION Spec
CONSTANTS
    Writers = {w1, w2}
    Retaining = {w1, w2}
    ArtifactTrees = {a, b}
    Minimum = 1
    HardLinks = FALSE
    Prompt = FALSE
    MaxDb = 1
    MaxInstant = 3
SYMMETRY Symmetry
CONSTRAINT Contained
INVARIANTS NewestSurvives ReachUnlessRaced LatestHoldsNewest
