SPECIFICATION Spec
CONSTANTS
    a = a
    b = b
    c = c
    leaf = leaf
    onA = onA
    onB = onB
    onC = onC
    c1 = c1
    None = None
    Workflows = {a, b, c}
    Plans = {leaf, onA, onB, onC}
    Criteria = {c1}
    Identities = {i1}
    Tasks = {t1}
    Destinations = {d1}
    Operations = {publish}
    BlockKinds = {"unsafe"}
    CheckLists <- MCCheckLists
    RiskOf <- MCRiskOf
    RigorOf <- MCRigorOf
    CriteriaOf <- MCCriteriaOf
    DestinationOf <- MCDestinationOf
    ChildrenOf <- MCChildrenOf
    ObligationsOf <- MCObligationsOf
    Reconcilable = {leaf, onA, onB, onC}
CONSTRAINT Bound
INVARIANTS ParentRestsOnChildren DependencyAcyclic
CHECK_DEADLOCK FALSE
