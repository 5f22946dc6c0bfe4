CONSTANTS
    Ids = {1}
    ChannelLimit = 1
    MaxQueued = 1
    MaxVersion = 1
    MaxMessages = 2
    Payload <- MCPayload
SPECIFICATION FairSpec
INVARIANTS
    StaysDrained
    SleepsOnlyWhenCurrent
PROPERTIES
    ProtocolSpec
    Converges
    ResnapAnswered
    EndsAreTold
    ShutdownCompletes
CHECK_DEADLOCK FALSE
