SPECIFICATION Spec
CONSTANTS
    a = a
    b = b
    c = c
    d = d
    None = None
    Jobs = {a, b}
    Needs <- ChainNeeds
    Plan <- GatedPlan
    Conditional = {b}
    Workers = {w1, w2}
    Clients = {c1, c2}
    MaxAttempts = 2
    MaxCrashes = 2
    Faults = {"cancel", "crash", "stop", "secrets", "workspace", "cache", "hasty", "stray"}
SYMMETRY Alike
INVARIANTS
    IInv
    OneExecutor
    StepsInOrder
PROPERTIES
    KeepsContract
CHECK_DEADLOCK FALSE
