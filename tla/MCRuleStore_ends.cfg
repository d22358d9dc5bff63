\* Three requests compete for two connections and two rules; deadlocks and collisions.
CONSTANTS
    None = None
    Requests = {q1, q2, q3}
    RuleIds = {r1, r2}
    Priorities = {10, 20}
    MaxOrder = 2
    Orders <- FullOrders
    PoolSize = 2
    DbFaults = FALSE
SPECIFICATION FairSpec
CHECK_DEADLOCK FALSE
PROPERTIES
    RequestEnds
