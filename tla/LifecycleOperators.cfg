\* Operators, /force_publish and lost replies around one lot.
SPECIFICATION Spec
CONSTANTS
    Lots = {l1}
    NoLot = NoLot
    Loops = {p1}
    Forcers = {a1}
    Finalizers = {f1}
    BatchLimit = 1
    MaxAttempts = 2
    Targets = 2
    LossyReplies = TRUE
    MaxPosts = 2
    MaxDecisions = 1
INVARIANTS
    PublishedIffBound
    AttemptBudget
PROPERTIES
    MessageStable
    KnownToSchedule
CHECK_DEADLOCK FALSE
