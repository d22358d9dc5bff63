\* What the comment of Reorder says: no row holds a placeholder.
CONSTANTS
    None = None
    Requests = {q1}
    RuleIds = {r1, r2}
    Priorities <- MCPriorities
    MaxOrder = 2
    Orders <- ShortOrders
    PoolSize = 1
    DbFaults = FALSE
SPECIFICATION Spec
CHECK_DEADLOCK FALSE
INVARIANTS
    PlaceholderIsFree
