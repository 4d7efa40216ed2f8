CONSTANTS
    r1 = r1
    r2 = r2
    r3 = r3
    r4 = r4
    k = k
    l = l
    g = g
    None = None
    Requests = {r1, r2, r3, r4}
    Keys = {k, l}
    Groups = {g}
    Key <- KeyOfRequest
    Group <- GroupOfRequest
SPECIFICATION Spec
INVARIANTS
    AdmissionInv
    LockHolderIsAlone
PROPERTIES
    OneRunPerKey
CHECK_DEADLOCK FALSE
