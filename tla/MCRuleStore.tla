---------------------------- MODULE MCRuleStore ----------------------------
(* Instances of RuleStore for TLC. *)
EXTENDS RuleStore, TLC

CONSTANT MaxOrder   \* bound: the length of a reorder list

ShortOrders == UNION {[1..n -> RuleIds] : n \in 0..MaxOrder}

\* All rules, in any order.
FullOrders == {o \in [1..Cardinality(RuleIds) -> RuleIds] :
                  \A m, n \in DOMAIN o : o[m] = o[n] => m = n}

\* A negative value, and the first two values a reorder gives out.
MCPriorities == {-1, 10, 20}

Symmetry == Permutations(Requests) \cup Permutations(RuleIds)
=============================================================================
