SPECIFICATION PrivacySpec
CONSTANTS
    u1 = u1
    u2 = u2
    g1 = g1
    g2 = g2
    n1 = n1
    n2 = n2
    a1 = a1
    a2 = a2
    o1 = o1
    o2 = o2
    Users = {u1, u2}
    Ghosts = {g1, g2}
    Uids = {n1}
    Requests = {r1}
    Counterparties = {c1, c2}
    Admins = {a1}
    Operators = {o1, o2}
    Legacy = {}
    MIN_REQUIRED = 2
    ExpiredAllowed = FALSE
    Surrogate <- MCSurrogate
    NoUser = NoUser
    NoUid = NoUid
    NoRequest = NoRequest
    NoOperator = NoOperator
    NoErasure = NoErasure
PROPERTIES
    UnchangedIsErased
CHECK_DEADLOCK FALSE
