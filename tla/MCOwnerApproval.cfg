SPECIFICATION Spec
CONSTANTS
    None = None
    Callers = {c1, c2}
    Requests = {r1, r2}
    MaxGeneration = 2
    MaxReplies = 1
SYMMETRY MCSymmetry
INVARIANTS ChallengeConsumedOnce CommittedAsShown OneReplyOneGrant
CHECK_DEADLOCK FALSE
