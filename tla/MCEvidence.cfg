SPECIFICATION Spec
CONSTANTS
    Tasks = {p1, p2, r1}
    Producers = {p1, p2}
    Callers = {c1, c2}
    planned = planned
    other = other
    Files = {planned, other}
    old = old
    new = new
    Contents = {old, new}
    light = light
    strict = strict
    Plans = {light, strict}
    PathsOf <- MCPathsOf
    Independent = {strict}
    Passing <- MCPassing
    Start <- MCStart
    MaxEdits = 2
    None = None
SYMMETRY MCSymmetry
INVARIANTS TypeOK QualifiedStands
PROPERTIES ScopeKept OneProducerAtATime VerdictOfCandidate
CONSTRAINT Overlap
CHECK_DEADLOCK FALSE
