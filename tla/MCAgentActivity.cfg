CONSTANTS
    MaxPrompts = 2
    RetiredLimit = 1
    MaxInFlight = 2
    MaxAcks = 1
    MaxTroubles = 1
SPECIFICATION FairSpec
INVARIANTS
    NoComeback
    ViewFollows
PROPERTIES
    WorkShows
    QuietInTheEnd
CHECK_DEADLOCK FALSE
