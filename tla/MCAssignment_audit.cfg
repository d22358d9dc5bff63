\* One assignment at a time, no failing statements, deletes at any moment.
CONSTANTS
    None = None
    n1 = n1  n2 = n2  k1 = k1  k2 = k2  r1 = r1  r2 = r2
    noRules = noRules  oneRule = oneRule  twoRules = twoRules  emptyKey = emptyKey
    Procs = {p1}
    Elements = {e1, e2}
    Names = {n1, n2}
    ClusterIds = {c1, c2}
    Keys = {k1, k2}
    RuleIds = {r1, r2}
    Policies = {noRules, twoRules, emptyKey}
    RuleOf <- MCRuleOf
    KeyOf <- MCKeyOf
    DbFaults = FALSE
SPECIFICATION Spec
CHECK_DEADLOCK FALSE
SYMMETRY Symmetry
INVARIANTS
    AuditAgrees
