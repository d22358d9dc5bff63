\* Two requests of any kind on three rules, statements fail.
CONSTANTS
    None = None
    Requests = {q1, q2}
    RuleIds = {r1, r2, r3}
    Priorities <- MCPriorities
    MaxOrder = 2
    Orders <- ShortOrders
    PoolSize = 2
    DbFaults = TRUE
SPECIFICATION Spec
CHECK_DEADLOCK FALSE
SYMMETRY Symmetry
INVARIANTS
    TypeOK
    UniquePriorities
    NoSelfCollision
PROPERTIES
    AllOrNothing
