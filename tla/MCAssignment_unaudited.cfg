\* What the package comment of assignment says: every update is audited.
CONSTANTS
    None = None
    n1 = n1  n2 = n2  k1 = k1  k2 = k2  r1 = r1  r2 = r2
    noRules = noRules  oneRule = oneRule  twoRules = twoRules  emptyKey = emptyKey
    Procs = {p1, p2}
    Elements = {e1}
    Names = {n1}
    ClusterIds = {c1, c2}
    Keys = {k1, k2}
    RuleIds = {r1, r2}
    Policies = {noRules, oneRule}
    RuleOf <- MCRuleOf
    KeyOf <- MCKeyOf
    DbFaults = FALSE
SPECIFICATION Spec
CHECK_DEADLOCK FALSE
PROPERTIES
    EveryUpdateAudited
