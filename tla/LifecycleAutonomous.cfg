\* Two bot instances, two lots and no operator.
SPECIFICATION Spec
CONSTANTS
    Lots = {l1, l2}
    NoLot = NoLot
    Loops = {p1, p2}
    Forcers = {}
    Finalizers = {}
    BatchLimit = 2
    MaxAttempts = 2
    Targets = 1
    LossyReplies = FALSE
    MaxPosts = 2
    MaxDecisions = 0
SYMMETRY Interchangeable
INVARIANTS
    NoBlindRetry
    OneSenderPerLot
    BoundToOwnPost
PROPERTIES
    PublicationKeepsPromise
CHECK_DEADLOCK FALSE
