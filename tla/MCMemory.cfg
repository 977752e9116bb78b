SPECIFICATION Spec
CONSTANTS
    Memories = {m1, m2}
    Legacy = {m2}
    Verifiable = {m1}
    Unsafe = {m1}
    Tasks = {t1, t2}
    Snapshots = {s1, s2}
    Sessions = {p1, p2}
    MaxEvents = 3
    MaxCalls = 3
    None = None
SYMMETRY Interchangeable
INVARIANTS PromotedOnAuthority SuspectNeedsOwner
CHECK_DEADLOCK FALSE
