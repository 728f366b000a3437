SPECIFICATION PrivacySpec
CONSTANTS
    u1 = u1
    u2 = u2
    g1 = g1
    g2 = g2
    n1 = n1
    n2 = n2
    a1 = a1
    a2 = a2
    o1 = o1
    o2 = o2
    Users = {u1, u2}
    Ghosts = {g1, g2}
    Uids = {n1, n2}
    Requests = {r1, r2}
    Counterparties = {c1}
    Admins = {a1, a2}
    Operators = {o1, o2}
    Legacy = {r1}
    MIN_REQUIRED = 1
    ExpiredAllowed = TRUE
    Surrogate <- MCSurrogate
    NoUser = NoUser
    NoUid = NoUid
    NoRequest = NoRequest
    NoOperator = NoOperator
    NoErasure = NoErasure
SYMMETRY Symmetry
INVARIANTS
    CheckedOwnerStands
    ApprovedOnEvidence
    BoundByApproval
    ErasedIsSettled
    NoCircularWait
PROPERTIES
    DecidedOnce
    ErasedAsReviewed
CHECK_DEADLOCK FALSE
