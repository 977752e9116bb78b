SPECIFICATION Spec
CONSTANTS
    Files = {f1, f2, f3}
    Versions = {v1, v2}
    Edits = {e1}
    MaxFaults = 3
    None = None
SYMMETRY Interchangeable
INVARIANTS LaunchesWhole
PROPERTIES EditsKept
