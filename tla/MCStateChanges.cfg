CONSTANTS
    AnyId = AnyId
    status = status
    browser = browser
    p1 = p1
    t1 = t1
    t2 = t2
    first = first
    second = second
    Subscriptions = {first, second}
    Topics = {status, browser}
    Projects = {p1}
    Threads = {t1, t2}
    Interest <- MCInterest
    Changes <- MCLiveChanges
    BrowserChanges <- MCBrowserChanges
    MaxWrites = 2
SPECIFICATION FairSpec
INVARIANTS
    NeverIdleAndStale
PROPERTIES
    EventuallySeen
CHECK_DEADLOCK FALSE
