CONSTANTS
    t1 = t1
    t2 = t2
    p1 = p1
    p2 = p2
    w1 = w1
    w2 = w2
    w3 = w3
    Nobody = Nobody
    Project = Project
    Threads = {t1, t2}
    InitialThreads = {t1}
    Processes = {p1, p2}
    Workers = {w1, w2, w3}
    Home <- HomeOf
    MayRun <- Asked
    MaxActs = 1
    MaxTroubles = 2
SPECIFICATION Spec
INVARIANT
    RecoverableOrphan
CHECK_DEADLOCK FALSE
