SPECIFICATION Spec
CONSTANTS
    light = light
    risky = risky
    strict = strict
    c1 = c1
    c2 = c2
    None = None
    Workflows = {w1}
    Plans = {light, risky, strict}
    Criteria = {c1, c2}
    Identities = {i1, i2}
    Tasks = {t1, t2}
    Destinations = {d1}
    Operations = {publish, merge}
    BlockKinds = {"missing_evidence", "unsafe", "outcome_unknown"}
    CheckLists <- MCCheckLists
    RiskOf <- MCRiskOf
    RigorOf <- MCRigorOf
    CriteriaOf <- MCCriteriaOf
    DestinationOf <- MCDestinationOf
    ChildrenOf <- MCChildrenOf
    ObligationsOf <- MCObligationsOf
    Reconcilable <- MCReconcilable
SYMMETRY MCSymmetry
INVARIANTS EvidenceBound DeliveryOnAuthority
PROPERTIES ImplementsDeliveryGrant UnknownOutcomeNeedsReadback NeverWeakened
CHECK_DEADLOCK FALSE
