CONSTANTS
    k1 = k1
    k2 = k2
    NoKey = NoKey
    Keys = {k1, k2}
    Asks <- MCAsks
    TabLimit = 2
    MaxTabs = 3
    MaxSessions = 2
    MaxRequests = 3
SPECIFICATION FairSpec
INVARIANTS
    AttachedFollows
    NoHiddenGuest
    NoOrphanPage
PROPERTIES
    StoppedLeaves
    DisposeEnds
CHECK_DEADLOCK FALSE
