CONSTANTS
    s1 = s1
    s2 = s2
    k1 = k1
    NoKey = NoKey
    Subscribers = {s1, s2}
    Keys = {k1}
    MaxPending = 1
    MaxPublished = 3
SPECIFICATION FairSpec
INVARIANTS
    NoLostWakeup
    NewestRetained
PROPERTIES
    FeedSpec
    CatchesUp
CHECK_DEADLOCK FALSE
