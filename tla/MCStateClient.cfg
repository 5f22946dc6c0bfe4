CONSTANTS
    Keys = {k1}
    None = None
    Undecodable <- BadVersions
    Dialects = {"same", "rejects", "differs"}
    MaxHolders = 2
    MaxIds = 2
    MaxVersion = 1
    MaxInFlight = 2
    MaxTroubles = 2
SPECIFICATION FairSpec
INVARIANTS
    ConnectionInv
    ServerAgrees
    NoResnapStorm
    NothingStale
PROPERTIES
    Fresh
CHECK_DEADLOCK FALSE
