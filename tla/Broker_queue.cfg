SPECIFICATION FairSpec
CONSTANTS
    c1 = c1
    c2 = c2
    c3 = c3
    u1 = u1
    llm = llm
    db = db
    None = None
    Calls = {c1, c2, c3}
    Users = {u1}
    Resources = {llm, db}
    Resource <- Kinds
    Level <- AllNormal
    Slots = 2
    Rate = 2
    MaxRetries = 1
    Slow = {c1}
    Faults = {"unregister"}
INVARIANTS
    BrokerInv
    OpenIsSomewhere
    RunsHoldSlots
PROPERTIES
    KeepsService
    RequestsAreAnswered
CHECK_DEADLOCK FALSE
