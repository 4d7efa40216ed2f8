CONSTANTS
    k1 = k1
    k2 = k2
    c1 = c1
    None = None
    Conns = {k1, k2}
    Calls = {c1}
    Paces = {TRUE, FALSE}
SPECIFICATION Spec
INVARIANTS
    HostInv
    RecordIsExact
PROPERTIES
    KeepsService
    ExecutionsEnd
    GraceEnds
CHECK_DEADLOCK FALSE
