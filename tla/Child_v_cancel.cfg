SPECIFICATION FairSpec
CONSTANTS
    w1 = w1
    w2 = w2
    c1 = c1
    c2 = c2
    c3 = c3
    None = None
    N = 1
    Workers = {w1}
    Children = {c1, c2}
    MaxDeaths = 0
    Faults = {"cancel"}
PROPERTIES
    CancelReturns
CHECK_DEADLOCK FALSE
