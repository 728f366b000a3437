\* Two finalization loops, rounds reopened by an operator, crashes.
SPECIFICATION FairSpec
CONSTANTS
    Lots = {l1}
    NoLot = NoLot
    Loops = {p1}
    Forcers = {}
    Finalizers = {f1, f2}
    BatchLimit = 1
    MaxAttempts = 2
    Targets = 1
    LossyReplies = FALSE
    MaxPosts = 1
    MaxDecisions = 1
INVARIANTS
    OneAnnouncementPerRound
PROPERTIES
    PublicationSettles
    FinalizationSettles
CHECK_DEADLOCK FALSE
