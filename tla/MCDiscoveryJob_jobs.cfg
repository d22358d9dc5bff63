\* Two jobs that meet at one element, two pool slots each, two scans in all; a cancel request, statements that fail by themselves, a crash of one job at any moment.
CONSTANTS
    None = None
    j1 = j1
    j2 = j2
    h1 = h1
    h2 = h2
    Jobs = {j1, j2}
    Hosts = {h1, h2}
    TargetIPs <- SomeTargets
    Requests = {r1}
    Concurrency = 2
    DbFaults = TRUE
    MaxCrashes = 1
    MaxScans = 2
SPECIFICATION Spec
CONSTRAINTS
    FewScans
    CrashOfOneJob
CHECK_DEADLOCK FALSE
INVARIANTS
    TypeOK
    ResultElementExists
    CompletedIsComplete
    NoScanOutlivesJob
    AtMostOneLateScan
PROPERTIES
    FinalIsFinal
    ImplementsLifecycle
