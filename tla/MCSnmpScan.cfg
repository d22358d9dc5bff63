\* One job, pool size 0, a device that answers in every way and one of another community; a crash.
CONSTANTS
    None = None
    h1 = h1
    h2 = h2
    public = public
    Jobs = {j1}
    Hosts = {h1, h2}
    TargetIPs <- AllTargets
    Requests = {r1}
    Concurrency = 0
    DbFaults = FALSE
    MaxCrashes = 1
    Retries = 1
    Community <- MCCommunity
    Device <- MCDevice
    NoCommunity = NoCommunity
    Word = 4
SPECIFICATION NetFairSpec
CHECK_DEADLOCK FALSE
INVARIANTS
    SocketsWithinPool
    CancelStopsTraffic
    VerdictIsEarned
    IdentityIsDevices
PROPERTIES
    FinalIsFinal
    ImplementsJob
    JobEnds
    GoroutineEnds
