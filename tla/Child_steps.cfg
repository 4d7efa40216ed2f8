SPECIFICATION FairSpec
CONSTANTS
    w1 = w1
    w2 = w2
    c1 = c1
    c2 = c2
    c3 = c3
    None = None
    N = 2
    Workers = {w1, w2}
    Children = {c1, c2}
    MaxDeaths = 1
    Faults = {"cancel", "invalid", "fail"}
INVARIANTS
    ChildInv
    ChildrenInOrder
PROPERTIES
    StepIsSettled
    CancelReachesChild
CHECK_DEADLOCK FALSE
