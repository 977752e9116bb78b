SPECIFICATION Spec
CONSTANTS
    Nothing = Nothing
    Sessions = {s1, s2}
    Ids = {q1, q2}
    Commands = {"request_delivery_approval", "revoke_delivery", "verify_delivery", "block"}
    Kinds = {"outcome_unknown"}
    MaxGeneration = 3
SYMMETRY MCSymmetry
INVARIANTS RuntimeTypeOK RetriesAreSafe DecidedOnCurrent
CHECK_DEADLOCK FALSE
