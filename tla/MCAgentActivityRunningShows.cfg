CONSTANTS
    MaxPrompts = 2
    RetiredLimit = 1
    MaxInFlight = 2
    MaxAcks = 1
    MaxTroubles = 1
SPECIFICATION FairSpec
PROPERTIES
    RunningShows
CHECK_DEADLOCK FALSE
