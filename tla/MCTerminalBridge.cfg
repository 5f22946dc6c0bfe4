CONSTANTS
    ReadSize = 2
    FrameSize = 3
    Interactive = 1
    CreditLimit = 3
    ChunkCapacity = 1
    MessageCapacity = 1
    AckThreshold = 2
    LoopReads = TRUE
    MaxOutput = 4
    MaxInput = 1
SPECIFICATION FairSpec
INVARIANTS
    CreditIsExact
    NoLostCredit
    NoByteLost
    LastWordsFirst
PROPERTIES
    OutputFlows
    NothingLeaks
    CreditReturns
CHECK_DEADLOCK FALSE
