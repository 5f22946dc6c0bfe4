CONSTANTS
    ReadSize = 2
    FrameSize = 2
    Interactive = 0
    CreditLimit = 2
    ChunkCapacity = 1
    MessageCapacity = 1
    AckThreshold = 2
    LoopReads = FALSE
    MaxOutput = 2
    MaxInput = 0
SPECIFICATION FairSpec
PROPERTIES
    CreditReturns
CHECK_DEADLOCK FALSE
