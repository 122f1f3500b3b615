SPECIFICATION Spec
CONSTANTS
    Slot = {s1, s2}
    Requests <- MCRequests
    Token = {t1, t2}
    t1 = t1
    t2 = t2
    NoToken = NoToken
    ExpiresAt <- MCExpiresAt
    RolesOf <- MCRolesOf
    Rate = 1
    Burst = 1
    Ttl = 1
    MaxTime = 4
SYMMETRY MCSymmetry
INVARIANTS
    RateBound
    AuthorisedWhileValid
    GuardedLetsNobodyIn
