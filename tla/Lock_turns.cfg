SPECIFICATION Spec
CONSTANTS
    None = None
    Callers = {p1, p2, p3}
    LockTTL = 5
    AcquireTimeout = 15
    MaxPause = 1
    MaxHold = 4
    MayCrash = TRUE
SYMMETRY Alike
INVARIANTS
    LockInv
    NobodyTimesOut
    KeyIsGivenBack
PROPERTIES
    UpdatesAreAtomic
CHECK_DEADLOCK FALSE
