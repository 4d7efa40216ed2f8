SPECIFICATION FairSpec
CONSTANTS
    None = None
    Entries = {e1, e2}
    Loops = {w1, w2}
    LookAhead = 1
    MaxDelay = 2
    KeyTTL = 0
    MaxTime = 2
    MayCrash = TRUE
INVARIANTS
    QueueInv
    NoInversion
PROPERTIES
    EachEntryOnce
    EntryServed
CHECK_DEADLOCK FALSE
