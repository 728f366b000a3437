\* The owner opens /my_lots after the end of bidding and before the claim.
SPECIFICATION Spec
CONSTANTS
    Lots = {l1}
    NoLot = NoLot
    Loops = {p1}
    Forcers = {}
    Finalizers = {f1}
    BatchLimit = 1
    MaxAttempts = 2
    Targets = 1
    LossyReplies = FALSE
    MaxPosts = 1
    MaxDecisions = 0
PROPERTIES
    SingleFinalizationPath
CHECK_DEADLOCK FALSE
