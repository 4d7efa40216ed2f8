SPECIFICATION FairSpec
CONSTANTS
    p = p
    c1 = c1
    c2 = c2
    w1 = w1
    w2 = w2
    w3 = w3
    None = None
    Calls = {c1, c2}
    Plugins = {p}
    Plugin <- OfOne
    Workers = {w1, w2, w3}
    First = {w1}
    Min = 1
    Max = 2
    MaxQueue = 1
    PerPlugin = 2
    MaxDeaths = 1
    Faults = {"abort", "unready", "tree"}
INVARIANTS
    PoolInv
    OpenCallIsHeld
    OneHandler
PROPERTIES
    KeepsService
    CallsAreAnswered
    Recovers
CHECK_DEADLOCK FALSE
