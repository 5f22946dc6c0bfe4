CONSTANTS
    Keys = {k1}
    None = None
    Undecodable <- BadVersions
    Dialects = {"same", "rejects", "differs"}
    MaxHolders = 1
    MaxIds = 2
    MaxVersion = 1
    MaxInFlight = 2
    MaxTroubles = 2
SPECIFICATION Spec
PROPERTY IncompatibleStays
CHECK_DEADLOCK FALSE
