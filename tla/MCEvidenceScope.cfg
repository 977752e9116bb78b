SPECIFICATION Spec
CONSTANTS
    Tasks = {p1, p2, r1}
    Producers = {p1, p2}
    Callers = {c1}
    planned = planned
    other = other
    Files = {planned, other}
    old = old
    new = new
    Contents = {old, new}
    light = light
    strict = strict
    Plans = {strict}
    PathsOf <- MCPathsOf
    Independent = {strict}
    Passing <- MCPassing
    Start <- MCStart
    MaxEdits = 2
    None = None
SYMMETRY MCSymmetry
INVARIANT ScopeSinceAdmission
CONSTRAINT Overlap
CHECK_DEADLOCK FALSE
