CONSTANTS
    n1 = n1
    n2 = n2
    k1 = k1
    k2 = k2
    Node = {n1, n2}
    Connection = {k1, k2}
    Ttl = 2
    MaxSession = 2
SPECIFICATION AdmissionSpec
INVARIANTS
    StaleHasAReason
PROPERTIES
    CachesConverge
    BannedAreGone
CHECK_DEADLOCK FALSE
