---------------------------- MODULE MCAssignment ----------------------------
(* Small instances of Assignment. *)
EXTENDS Assignment, TLC

CONSTANTS n1, n2, k1, k2, r1, r2, noRules, oneRule, twoRules, emptyKey

(* noRules matches nothing.  oneRule: r1 sends every name to k1.  twoRules: r2
   comes first and sends n1 to k2, r1 sends n2 to k1.  emptyKey: r1 matches
   and renders an empty key. *)
MCRuleOf == [q \in Policies |-> [n \in Names |->
    IF q = noRules THEN None ELSE IF q = twoRules /\ n = n1 THEN r2 ELSE r1]]

MCKeyOf == [q \in Policies |-> [n \in Names |->
    IF q \in {noRules, emptyKey} THEN None ELSE IF q = twoRules /\ n = n1 THEN k2 ELSE k1]]

\* Goroutines and generated ids are interchangeable; only invariants are
\* checked under it.
Symmetry == Permutations(Procs) \cup Permutations(ClusterIds)
=============================================================================
