SPECIFICATION FairSpec
CONSTANTS
    a = a
    b = b
    c = c
    d = d
    None = None
    Jobs = {a, b, c, d}
    Needs <- DiamondNeeds
    Plan <- DiamondPlan
    Conditional = {b, d}
    Workers = {w1, w2}
    Clients = {c1}
    MaxAttempts = 2
    MaxCrashes = 0
    Faults = {"cancel", "workspace"}
INVARIANTS
    QueuedIsCarried
    NoDuplicateEntry
    IInv
PROPERTIES
    RunSettles
    CancelQuiesces
CHECK_DEADLOCK FALSE
