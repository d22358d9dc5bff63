\* What the comment of Run says: the job always ends in a terminal status.
CONSTANTS
    None = None
    j1 = j1
    j2 = j2
    h1 = h1
    h2 = h2
    Jobs = {j1}
    Hosts = {h1}
    TargetIPs <- SomeTargets
    Requests = {r1}
    Concurrency = 1
    DbFaults = FALSE
    MaxCrashes = 0
    MaxScans = 1
SPECIFICATION FairSpec
CHECK_DEADLOCK FALSE
PROPERTIES
    AlwaysTerminal
