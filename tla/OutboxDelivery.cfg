\* Two bot processes, a notification and a message of the daily list.
SPECIFICATION FairSpec
CONSTANTS
    Events = {e1}
    Scopes = {s1}
    Chats = {c1}
    Instances = {b1, b2}
    BatchLimit = 2
    Concurrency = 1
    MaxAttempts = 2
    MaxResets = 1
    MaxReviews = 1
INVARIANTS
    AcceptedOnce
    HonestVerdict
    NoneStranded
    OneDelivery
PROPERTIES
    ImplementsPromise
    EveryCommandSettles
CHECK_DEADLOCK FALSE
