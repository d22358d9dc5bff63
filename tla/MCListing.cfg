\* Three hosts, one cluster, pages of one row, of two or of all; two moments, so that timestamps collide.
CONSTANTS
    Hosts = {1, 2, 3}
    Clusters = {c1}
    None = None
    Unset = Unset
    NotANumber = NotANumber
    RawLimits <- MCRawLimits
    defaultPageLimit = 1
    maxPageLimit = 2
    MaxClock = 2
SPECIFICATION Spec
CONSTRAINT OneTable
CHECK_DEADLOCK FALSE
INVARIANTS
    NoneSkipped
    QuietWalkIsExact
    PageFits
    DeletedStaysHidden
