-------------------------- MODULE AssignmentProofs --------------------------
(* Proofs about Assignment, for every set of goroutines, elements and rules. *)
EXTENDS Assignment, TLAPS

-----------------------------------------------------------------------------
(* Type correctness. *)

\* While Assign runs, its verdict is one of a policy for a name.
LEMMA VerdictType ==
    ASSUME TypeOK, NEW p \in Procs, pc[p] \in {"cluster", "update", "history"}
    PROVE  /\ pol[p] \in Policies /\ host[p] \in Names /\ el[p] \in Elements
           /\ Rule(p) \in RuleIds \cup {None}
           /\ Key(p) \in Keys \cup {None}
<1>1. pol[p] \in Policies /\ host[p] \in Names /\ el[p] \in Elements
  BY DEF TypeOK
<1> QED
  BY <1>1, ConstAssumption DEF Rule, Key

\* No statement of an assignment and no other handler leaves the types.
LEMMA TypeStep == TypeOK /\ [Next]_vars => TypeOK'
<1> SUFFICES ASSUME TypeOK, [Next]_vars PROVE TypeOK'
  OBVIOUS
<1> USE ConstAssumption DEF TypeOK, elementVars, clusterVars, ruleVars, histVars, procVars
<1>1. ASSUME NEW p \in Procs, DiscoveryLoad(p) PROVE TypeOK'
  BY <1>1 DEF DiscoveryLoad, Goto, PC
<1>2. ASSUME NEW p \in Procs, NEW e \in Elements, NEW n \in Names, UpsertDiscovered(p, e, n)
      PROVE TypeOK'
  <2>1. CASE Goto(p, "cluster") /\ Call(p, e, n)
    BY <1>2, <2>1 DEF UpsertDiscovered, Goto, Call, PC
  <2>2. CASE UNCHANGED <<pc, el, host>>
    BY <1>2, <2>2 DEF UpsertDiscovered
  <2> QED
    BY <1>2, <2>1, <2>2 DEF UpsertDiscovered
<1>3. ASSUME NEW p \in Procs, ScanEnd(p) PROVE TypeOK'
  BY <1>3 DEF ScanEnd, End, Goto, NoBatch, PC
<1>4. ASSUME NEW p \in Procs, NEW e \in Elements, CollectOne(p, e) PROVE TypeOK'
  BY <1>4 DEF CollectOne, Goto, PC
<1>5. ASSUME NEW p \in Procs, CollectAll(p) PROVE TypeOK'
  BY <1>5 DEF CollectAll, Goto, PC
<1>6. ASSUME NEW p \in Procs, CollectFails(p) PROVE TypeOK'
  BY <1>6 DEF CollectFails, End, Goto, NoBatch, PC
<1>7. ASSUME NEW p \in Procs, LoadRules(p) PROVE TypeOK'
  BY <1>7 DEF LoadRules, Goto, PC
<1>8. ASSUME NEW p \in Procs, NEW e \in Elements, PickTarget(p, e) PROVE TypeOK'
  BY <1>8 DEF PickTarget, Goto, Call, PC
<1>9. ASSUME NEW p \in Procs, BatchEnd(p) PROVE TypeOK'
  BY <1>9 DEF BatchEnd, End, Goto, NoBatch, PC
<1>10. ASSUME NEW p \in Procs, NoCluster(p) PROVE TypeOK'
  BY <1>10 DEF NoCluster, Goto, PC
<1>11. ASSUME NEW p \in Procs, NEW c \in ClusterIds, GetOrCreate(p, c) PROVE TypeOK'
  <2>1. clusters' \subseteq ClusterIds /\ clusterKey' \in [ClusterIds -> Keys \cup {None}]
    <3>1. Key(p) \in Keys \cup {None}
      BY <1>11, VerdictType DEF GetOrCreate
    <3> QED
      BY <1>11, <3>1 DEF GetOrCreate
  <2>2. CASE Return(p)
    BY <1>11, <2>1, <2>2 DEF GetOrCreate, Return, SetCid, Call, Goto, PC
  <2>3. CASE Goto(p, "update") /\ SetCid(p, c) /\ UNCHANGED <<el, host>>
    BY <1>11, <2>1, <2>3 DEF GetOrCreate, SetCid, Goto, PC
  <2> QED
    BY <1>11, <2>2, <2>3 DEF GetOrCreate
<1>12. ASSUME NEW p \in Procs, UpdateAssignment(p) PROVE TypeOK'
  <2>1. /\ cluster' \in [Elements -> ClusterIds \cup {None}]
        /\ lastRule' \in [Elements -> RuleIds \cup {None}]
        /\ assignment' \in [Elements -> {"unassigned", "assigned"}]
    <3>1. Rule(p) \in RuleIds \cup {None} /\ el[p] \in Elements
      BY <1>12, VerdictType DEF UpdateAssignment
    <3>2. CASE UNCHANGED <<cluster, lastRule, assignment>>
      BY <3>2
    <3>3. CASE /\ cluster' = [cluster EXCEPT ![el[p]] = cid[p]]
               /\ lastRule' = [lastRule EXCEPT ![el[p]] = Rule(p)]
               /\ assignment' = [assignment EXCEPT ![el[p]] = AssignmentStatus(p)]
      BY <3>1, <3>3 DEF AssignmentStatus
    <3> QED
      BY <1>12, <3>2, <3>3 DEF UpdateAssignment
  <2>2. CASE Return(p)
    BY <1>12, <2>1, <2>2 DEF UpdateAssignment, Return, SetCid, Call, Goto, PC
  <2>3. CASE Goto(p, "history") /\ UNCHANGED <<el, host, cid>>
    BY <1>12, <2>1, <2>3 DEF UpdateAssignment, Goto, PC
  <2> QED
    BY <1>12, <2>2, <2>3 DEF UpdateAssignment
<1>13. ASSUME NEW p \in Procs, InsertHistory(p) PROVE TypeOK'
  <2>1. Rule(p) \in RuleIds \cup {None} /\ Key(p) \in Keys \cup {None}
    BY <1>13, VerdictType DEF InsertHistory
  <2>2. CASE UNCHANGED histVars
    BY <1>13, <2>2 DEF InsertHistory, Return, SetCid, Call, Goto, PC
  <2>3. CASE AddHistory(p)
    <3>1. histKeys' \subseteq ClusterIds \X (Keys \cup {None})
      BY <2>1, <2>3 DEF AddHistory
    <3>2. histRules' \subseteq RuleIds
      BY <2>1, <2>3 DEF AddHistory
    <3>3. lastRow' \in [Elements -> (ClusterIds \cup {None}) \X (RuleIds \cup {None})]
      BY <2>1, <2>3 DEF AddHistory
    <3> QED
      BY <1>13, <3>1, <3>2, <3>3 DEF InsertHistory, Return, SetCid, Call, Goto, PC
  <2> QED
    BY <1>13, <2>2, <2>3 DEF InsertHistory
<1>14. ASSUME NEW e \in Elements, SoftDelete(e) PROVE TypeOK'
  BY <1>14 DEF SoftDelete
<1>15. ASSUME NEW c \in ClusterIds, Rename(c) PROVE TypeOK'
  BY <1>15 DEF Rename
<1>16. ASSUME NEW c \in ClusterIds, DeleteCluster(c) PROVE TypeOK'
  BY <1>16 DEF DeleteCluster
<1>17. ASSUME NEW r \in RuleIds, CreateRule(r) PROVE TypeOK'
  BY <1>17 DEF CreateRule
<1>18. ASSUME NEW r \in RuleIds, DeleteRule(r) PROVE TypeOK'
  BY <1>18 DEF DeleteRule
<1>19. ASSUME EditRules PROVE TypeOK'
  BY <1>19 DEF EditRules
<1>20. CASE UNCHANGED vars
  BY <1>20 DEF vars
<1> QED
  BY <1>1, <1>2, <1>3, <1>4, <1>5, <1>6, <1>7, <1>8, <1>9, <1>10, <1>11, <1>12, <1>13,
     <1>14, <1>15, <1>16, <1>17, <1>18, <1>19, <1>20
     DEF Next, Discovery, Redistribute, Assign

\* Every variable stays in its type for ever.
THEOREM TypeCorrect == Spec => []TypeOK
<1>1. Init => TypeOK
  BY ConstAssumption DEF Init, TypeOK, NoBatch, PC, Used
<1> QED
  BY <1>1, TypeStep, PTL DEF Spec
-----------------------------------------------------------------------------
(* The inductive invariant: the foreign keys, the unique lookup key, and    *)
(* what an assignment in progress knows about the cluster it holds.         *)

\* From GetOrCreate on, Assign holds the id of a cluster that was created
\* with the key it rendered, or none when there is no key.
CallInv == \A p \in Procs :
    /\ pc[p] \notin {"update", "history"} => cid[p] = None
    /\ pc[p] \in {"update", "history"} =>
          IF cid[p] = None THEN Key(p) = None
                           ELSE Key(p) # None /\ clusterKey[cid[p]] = Key(p)

\* A row of clusters has a key.
KeyInv == \A c \in clusters : clusterKey[c] # None

IndInv == /\ TypeOK /\ CallInv /\ KeyInv /\ NoDanglingReference /\ OneClusterPerKey
          /\ AssignedIffClustered /\ RowIsOneVerdict /\ HistoryKeyIsClusterKey

\* With one goroutine and no failing statements: the element it has updated
\* and not yet audited still is what it wrote, so that the foreign keys hold
\* the cluster and the rule until the audit row is there.
PendingAudit == \A p \in Procs : pc[p] = "history" =>
    cluster[el[p]] = cid[p] /\ lastRule[el[p]] = Rule(p)

\* GetOrCreate never changes the key of an id that has one.
LEMMA KeysStay ==
    ASSUME TypeOK, NEW p \in Procs, NEW c \in ClusterIds, GetOrCreate(p, c)
    PROVE  \A d \in ClusterIds : clusterKey[d] # None => clusterKey'[d] = clusterKey[d]
<1>1. clusterKey[c] \in {None, Key(p)}
  BY DEF GetOrCreate, ClusterFor
<1> QED
  BY <1>1 DEF GetOrCreate, TypeOK

\* What UpdateAssignment leaves when it takes effect: only a verdict whose
\* cluster and rule are still there.
Written(p) == /\ FkOK(cid[p], Rule(p))
              /\ cluster' = [cluster EXCEPT ![el[p]] = cid[p]]
              /\ lastRule' = [lastRule EXCEPT ![el[p]] = Rule(p)]
              /\ assignment' = [assignment EXCEPT ![el[p]] = AssignmentStatus(p)]

\* UpdateAssignment writes all three columns, or none of them.
LEMMA UpdateOutcome ==
    ASSUME NEW p \in Procs, UpdateAssignment(p)
    PROVE  UNCHANGED <<cluster, lastRule, assignment>> \/ Written(p)
  BY DEF UpdateAssignment, Exec, Written

\* The same for the audit row.
Audited(p) == FkOK(cid[p], Rule(p)) /\ AddHistory(p)

\* InsertHistory adds one row that its foreign keys allow, or none.
LEMMA AuditOutcome ==
    ASSUME NEW p \in Procs, InsertHistory(p)
    PROVE  UNCHANGED histVars \/ Audited(p)
  BY DEF InsertHistory, Exec, Audited

\* Every statement of an assignment and every other handler keeps the
\* invariant.
LEMMA IndInvStep == IndInv /\ [Next]_vars => IndInv'
<1> SUFFICES ASSUME IndInv, [Next]_vars PROVE IndInv'
  OBVIOUS
<1> USE ConstAssumption DEF IndInv, elementVars, clusterVars, ruleVars, histVars, procVars, Goto
<1>0. TypeOK /\ TypeOK'
  BY TypeStep
<1> USE <1>0 DEF TypeOK
<1>1. ASSUME NEW p \in Procs, DiscoveryLoad(p) PROVE IndInv'
  <2>1. /\ KeyInv' /\ NoDanglingReference' /\ OneClusterPerKey'
       /\ AssignedIffClustered' /\ RowIsOneVerdict' /\ HistoryKeyIsClusterKey'
    BY <1>1 DEF KeyInv, NoDanglingReference, OneClusterPerKey, AssignedIffClustered,
       RowIsOneVerdict, HistoryKeyIsClusterKey, FkOK, DiscoveryLoad
  <2>2. CallInv'
    BY <1>1 DEF CallInv, Key, DiscoveryLoad
  <2> QED
    BY <2>1, <2>2
<1>2. ASSUME NEW p \in Procs, NEW e \in Elements, NEW n \in Names, UpsertDiscovered(p, e, n)
      PROVE IndInv'
  <2>1. /\ KeyInv' /\ NoDanglingReference' /\ OneClusterPerKey'
       /\ AssignedIffClustered' /\ RowIsOneVerdict' /\ HistoryKeyIsClusterKey'
    BY <1>2 DEF KeyInv, NoDanglingReference, OneClusterPerKey, AssignedIffClustered,
       RowIsOneVerdict, HistoryKeyIsClusterKey, FkOK, UpsertDiscovered
  <2>2. CallInv'
    BY <1>2 DEF CallInv, Key, UpsertDiscovered, Call
  <2> QED
    BY <2>1, <2>2
<1>3. ASSUME NEW p \in Procs, ScanEnd(p) PROVE IndInv'
  <2>1. /\ KeyInv' /\ NoDanglingReference' /\ OneClusterPerKey'
       /\ AssignedIffClustered' /\ RowIsOneVerdict' /\ HistoryKeyIsClusterKey'
    BY <1>3 DEF KeyInv, NoDanglingReference, OneClusterPerKey, AssignedIffClustered,
       RowIsOneVerdict, HistoryKeyIsClusterKey, FkOK, ScanEnd
  <2>2. CallInv'
    BY <1>3 DEF CallInv, Key, ScanEnd, End
  <2> QED
    BY <2>1, <2>2
<1>4. ASSUME NEW p \in Procs, NEW e \in Elements, CollectOne(p, e) PROVE IndInv'
  <2>1. /\ KeyInv' /\ NoDanglingReference' /\ OneClusterPerKey'
       /\ AssignedIffClustered' /\ RowIsOneVerdict' /\ HistoryKeyIsClusterKey'
    BY <1>4 DEF KeyInv, NoDanglingReference, OneClusterPerKey, AssignedIffClustered,
       RowIsOneVerdict, HistoryKeyIsClusterKey, FkOK, CollectOne
  <2>2. CallInv'
    BY <1>4 DEF CallInv, Key, CollectOne
  <2> QED
    BY <2>1, <2>2
<1>5. ASSUME NEW p \in Procs, CollectAll(p) PROVE IndInv'
  <2>1. /\ KeyInv' /\ NoDanglingReference' /\ OneClusterPerKey'
       /\ AssignedIffClustered' /\ RowIsOneVerdict' /\ HistoryKeyIsClusterKey'
    BY <1>5 DEF KeyInv, NoDanglingReference, OneClusterPerKey, AssignedIffClustered,
       RowIsOneVerdict, HistoryKeyIsClusterKey, FkOK, CollectAll
  <2>2. CallInv'
    BY <1>5 DEF CallInv, Key, CollectAll
  <2> QED
    BY <2>1, <2>2
<1>6. ASSUME NEW p \in Procs, CollectFails(p) PROVE IndInv'
  <2>1. /\ KeyInv' /\ NoDanglingReference' /\ OneClusterPerKey'
       /\ AssignedIffClustered' /\ RowIsOneVerdict' /\ HistoryKeyIsClusterKey'
    BY <1>6 DEF KeyInv, NoDanglingReference, OneClusterPerKey, AssignedIffClustered,
       RowIsOneVerdict, HistoryKeyIsClusterKey, FkOK, CollectFails
  <2>2. CallInv'
    BY <1>6 DEF CallInv, Key, CollectFails, End
  <2> QED
    BY <2>1, <2>2
<1>7. ASSUME NEW p \in Procs, LoadRules(p) PROVE IndInv'
  <2>1. /\ KeyInv' /\ NoDanglingReference' /\ OneClusterPerKey'
       /\ AssignedIffClustered' /\ RowIsOneVerdict' /\ HistoryKeyIsClusterKey'
    BY <1>7 DEF KeyInv, NoDanglingReference, OneClusterPerKey, AssignedIffClustered,
       RowIsOneVerdict, HistoryKeyIsClusterKey, FkOK, LoadRules
  <2>2. CallInv'
    BY <1>7 DEF CallInv, Key, LoadRules
  <2> QED
    BY <2>1, <2>2
<1>8. ASSUME NEW p \in Procs, NEW e \in Elements, PickTarget(p, e) PROVE IndInv'
  <2>1. /\ KeyInv' /\ NoDanglingReference' /\ OneClusterPerKey'
       /\ AssignedIffClustered' /\ RowIsOneVerdict' /\ HistoryKeyIsClusterKey'
    BY <1>8 DEF KeyInv, NoDanglingReference, OneClusterPerKey, AssignedIffClustered,
       RowIsOneVerdict, HistoryKeyIsClusterKey, FkOK, PickTarget
  <2>2. CallInv'
    BY <1>8 DEF CallInv, Key, PickTarget, Call
  <2> QED
    BY <2>1, <2>2
<1>9. ASSUME NEW p \in Procs, BatchEnd(p) PROVE IndInv'
  <2>1. /\ KeyInv' /\ NoDanglingReference' /\ OneClusterPerKey'
       /\ AssignedIffClustered' /\ RowIsOneVerdict' /\ HistoryKeyIsClusterKey'
    BY <1>9 DEF KeyInv, NoDanglingReference, OneClusterPerKey, AssignedIffClustered,
       RowIsOneVerdict, HistoryKeyIsClusterKey, FkOK, BatchEnd
  <2>2. CallInv'
    BY <1>9 DEF CallInv, Key, BatchEnd, End
  <2> QED
    BY <2>1, <2>2
<1>10. ASSUME NEW p \in Procs, NoCluster(p) PROVE IndInv'
  <2>1. /\ KeyInv' /\ NoDanglingReference' /\ OneClusterPerKey'
       /\ AssignedIffClustered' /\ RowIsOneVerdict' /\ HistoryKeyIsClusterKey'
    BY <1>10 DEF KeyInv, NoDanglingReference, OneClusterPerKey, AssignedIffClustered,
       RowIsOneVerdict, HistoryKeyIsClusterKey, FkOK, NoCluster
  <2>2. CallInv'
    BY <1>10 DEF CallInv, Key, NoCluster
  <2> QED
    BY <2>1, <2>2
<1>11. ASSUME NEW p \in Procs, NEW c \in ClusterIds, GetOrCreate(p, c) PROVE IndInv'
  <2>1. AssignedIffClustered'
    BY <1>11 DEF AssignedIffClustered, GetOrCreate
  <2>2. CallInv'
    <3>1. \A q \in Procs : q # p => pc'[q] = pc[q] /\ cid'[q] = cid[q] /\ host'[q] = host[q]
      <4>1. CASE Return(p)
        BY <4>1 DEF Return, SetCid, Call
      <4>2. CASE Goto(p, "update") /\ SetCid(p, c) /\ UNCHANGED <<el, host>>
        BY <4>2 DEF SetCid
      <4> QED
        BY <1>11, <4>1, <4>2 DEF GetOrCreate
    <3>2. pol' = pol
      BY <1>11 DEF GetOrCreate
    <3>3. \/ pc'[p] \in {"next", "scan"} /\ cid'[p] = None
          \/ /\ pc'[p] = "update" /\ cid'[p] = c /\ host'[p] = host[p]
             /\ clusterKey'[c] = Key(p)
      <4>1. CASE Return(p)
        BY <1>11, <4>1 DEF GetOrCreate, Return, SetCid, Call
      <4>2. CASE /\ Goto(p, "update") /\ SetCid(p, c) /\ UNCHANGED <<el, host>>
                 /\ clusterKey' = [clusterKey EXCEPT ![c] = Key(p)]
        BY <4>2 DEF SetCid
      <4> QED
        BY <1>11, <4>1, <4>2 DEF GetOrCreate, Exec
    <3>4. Key(p) # None /\ c # None
      BY <1>11 DEF GetOrCreate
    <3>5. ASSUME NEW q \in Procs, q # p, pc[q] \in {"update", "history"}, cid[q] # None
          PROVE  clusterKey'[cid[q]] = Key(q)
      BY <1>11, <3>5, KeysStay DEF CallInv
    <3> QED
      BY <3>1, <3>2, <3>3, <3>4, <3>5 DEF CallInv, Key
  <2>3. KeyInv'
    BY <1>11 DEF KeyInv, GetOrCreate
  <2>4. NoDanglingReference'
    BY <1>11 DEF NoDanglingReference, FkOK, GetOrCreate
  <2>5. OneClusterPerKey'
    <3>1. CASE UNCHANGED <<clusters, clusterKey>>
      BY <3>1 DEF OneClusterPerKey
    <3>2. CASE /\ clusters' = clusters \cup {c}
               /\ clusterKey' = [clusterKey EXCEPT ![c] = Key(p)]
      BY <1>11, <3>2 DEF OneClusterPerKey, GetOrCreate, ClusterFor
    <3> QED
      BY <1>11, <3>1, <3>2 DEF GetOrCreate
  <2>6. RowIsOneVerdict'
    <3>1. \A e \in Elements : cluster[e] # None => clusterKey'[cluster[e]] = clusterKey[cluster[e]]
      BY <1>11, KeysStay DEF KeyInv, NoDanglingReference, FkOK
    <3> QED
      BY <1>11, <3>1 DEF RowIsOneVerdict, GetOrCreate
  <2>7. HistoryKeyIsClusterKey'
    <3> SUFFICES ASSUME NEW d \in ClusterIds, NEW n \in Keys, <<d, n>> \in histKeys
                 PROVE  clusterKey'[d] = n
      BY <1>11 DEF HistoryKeyIsClusterKey, GetOrCreate, histVars
    <3>1. clusterKey[d] = n /\ n # None
      BY ConstAssumption DEF HistoryKeyIsClusterKey
    <3> QED
      BY <1>11, <3>1, KeysStay
  <2> QED
    BY <2>1, <2>2, <2>3, <2>4, <2>5, <2>6, <2>7
<1>12. ASSUME NEW p \in Procs, UpdateAssignment(p) PROVE IndInv'
  <2>1. KeyInv' /\ OneClusterPerKey' /\ HistoryKeyIsClusterKey'
    BY <1>12 DEF KeyInv, OneClusterPerKey, HistoryKeyIsClusterKey, UpdateAssignment
  <2>2. CallInv'
    <3>1. CASE Return(p)
      BY <1>12, <3>1 DEF CallInv, Key, UpdateAssignment, Return, SetCid, Call
    <3>2. CASE Goto(p, "history") /\ UNCHANGED <<el, host, cid>>
      BY <1>12, <3>2 DEF CallInv, Key, UpdateAssignment
    <3> QED
      BY <1>12, <3>1, <3>2 DEF UpdateAssignment
  <2>3. NoDanglingReference'
    <3>1. CASE UNCHANGED <<cluster, lastRule, assignment>>
      BY <1>12, <3>1 DEF NoDanglingReference, FkOK, UpdateAssignment
    <3>2. CASE Written(p)
      BY <1>12, <3>2 DEF NoDanglingReference, FkOK, UpdateAssignment, Written
    <3> QED
      BY <1>12, <3>1, <3>2, UpdateOutcome
  <2>4. AssignedIffClustered'
    <3>1. CASE UNCHANGED <<cluster, lastRule, assignment>>
      BY <3>1 DEF AssignedIffClustered
    <3>2. CASE Written(p)
      BY <3>2 DEF AssignedIffClustered, Written, AssignmentStatus
    <3> QED
      BY <1>12, <3>1, <3>2, UpdateOutcome
  <2>5. RowIsOneVerdict'
    <3>1. CASE UNCHANGED <<cluster, lastRule, assignment>>
      BY <1>12, <3>1 DEF RowIsOneVerdict, UpdateAssignment
    <3>2. CASE Written(p)
      <4>1. pol[p] \in Policies /\ host[p] \in Names
        BY <1>12 DEF UpdateAssignment
      <4>2. Key(p) = IF cid[p] = None THEN None ELSE clusterKey[cid[p]]
        BY <1>12 DEF UpdateAssignment, CallInv
      <4> QED
        <5> SUFFICES ASSUME NEW e \in Elements, lastRule'[e] # None \/ cluster'[e] # None
                     PROVE \E q \in Policies, n \in Names :
                              /\ RuleOf[q][n] = lastRule'[e]
                              /\ KeyOf[q][n] = IF cluster'[e] = None THEN None
                                               ELSE clusterKey'[cluster'[e]]
          BY DEF RowIsOneVerdict
        <5>1. clusterKey' = clusterKey
          BY <1>12 DEF UpdateAssignment
        <5>2. CASE e = el[p]
          <6>1. lastRule'[e] = RuleOf[pol[p]][host[p]] /\ cluster'[e] = cid[p]
            BY <3>2, <5>2 DEF Written, Rule
          <6> QED
            BY <4>1, <4>2, <5>1, <6>1 DEF Key
        <5>3. CASE e # el[p]
          <6>1. lastRule'[e] = lastRule[e] /\ cluster'[e] = cluster[e]
            BY <3>2, <5>3 DEF Written
          <6> QED
            BY <5>1, <6>1 DEF RowIsOneVerdict
        <5> QED
          BY <5>2, <5>3
    <3> QED
      BY <1>12, <3>1, <3>2, UpdateOutcome
  <2> QED
    BY <2>1, <2>2, <2>3, <2>4, <2>5
<1>13. ASSUME NEW p \in Procs, InsertHistory(p) PROVE IndInv'
  <2>1. /\ KeyInv' /\ OneClusterPerKey' /\ AssignedIffClustered'
       /\ RowIsOneVerdict'
    BY <1>13 DEF KeyInv, OneClusterPerKey, AssignedIffClustered, RowIsOneVerdict,
       InsertHistory
  <2>2. CallInv'
    BY <1>13 DEF CallInv, Key, InsertHistory, Return, SetCid, Call
  <2>3. NoDanglingReference'
    <3>1. CASE UNCHANGED histVars
      BY <1>13, <3>1 DEF NoDanglingReference, FkOK, InsertHistory
    <3>2. CASE Audited(p)
      BY <1>13, <3>2 DEF NoDanglingReference, FkOK, InsertHistory, Audited, AddHistory
    <3> QED
      BY <1>13, <3>1, <3>2, AuditOutcome
  <2>4. HistoryKeyIsClusterKey'
    <3>1. CASE UNCHANGED histVars
      BY <1>13, <3>1 DEF HistoryKeyIsClusterKey, InsertHistory
    <3>2. CASE Audited(p)
      BY <1>13, <3>2 DEF HistoryKeyIsClusterKey, CallInv, InsertHistory, Audited, AddHistory
    <3> QED
      BY <1>13, <3>1, <3>2, AuditOutcome
  <2> QED
    BY <2>1, <2>2, <2>3, <2>4
<1>14. ASSUME NEW e \in Elements, SoftDelete(e) PROVE IndInv'
  <2>1. /\ CallInv' /\ KeyInv' /\ NoDanglingReference'
       /\ OneClusterPerKey' /\ AssignedIffClustered' /\ RowIsOneVerdict' /\ HistoryKeyIsClusterKey'
    BY <1>14 DEF CallInv, KeyInv, NoDanglingReference, OneClusterPerKey,
       AssignedIffClustered, RowIsOneVerdict, HistoryKeyIsClusterKey, Key, FkOK, SoftDelete
  <2> QED
    BY <2>1
<1>15. ASSUME NEW c \in ClusterIds, Rename(c) PROVE IndInv'
  <2>1. /\ CallInv' /\ KeyInv' /\ NoDanglingReference'
       /\ OneClusterPerKey' /\ AssignedIffClustered' /\ RowIsOneVerdict' /\ HistoryKeyIsClusterKey'
    BY <1>15 DEF CallInv, KeyInv, NoDanglingReference, OneClusterPerKey,
       AssignedIffClustered, RowIsOneVerdict, HistoryKeyIsClusterKey, Key, FkOK, Rename
  <2> QED
    BY <2>1
<1>16. ASSUME NEW c \in ClusterIds, DeleteCluster(c) PROVE IndInv'
  <2>1. /\ CallInv' /\ AssignedIffClustered' /\ RowIsOneVerdict'
       /\ HistoryKeyIsClusterKey'
    BY <1>16 DEF CallInv, AssignedIffClustered, RowIsOneVerdict, HistoryKeyIsClusterKey,
       Key, DeleteCluster
  <2>2. KeyInv'
    BY <1>16 DEF KeyInv, DeleteCluster, ClusterReferenced
  <2>3. NoDanglingReference'
    BY <1>16 DEF NoDanglingReference, FkOK, DeleteCluster, ClusterReferenced
  <2>4. OneClusterPerKey'
    BY <1>16 DEF OneClusterPerKey, DeleteCluster, ClusterReferenced
  <2> QED
    BY <2>1, <2>2, <2>3, <2>4
<1>17. ASSUME NEW r \in RuleIds, CreateRule(r) PROVE IndInv'
  <2>1. /\ CallInv' /\ KeyInv' /\ OneClusterPerKey'
       /\ AssignedIffClustered' /\ RowIsOneVerdict' /\ HistoryKeyIsClusterKey'
    BY <1>17 DEF CallInv, KeyInv, OneClusterPerKey, AssignedIffClustered, RowIsOneVerdict,
       HistoryKeyIsClusterKey, Key, CreateRule
  <2>2. NoDanglingReference'
    BY <1>17 DEF NoDanglingReference, FkOK, CreateRule
  <2> QED
    BY <2>1, <2>2
<1>18. ASSUME NEW r \in RuleIds, DeleteRule(r) PROVE IndInv'
  <2>1. /\ CallInv' /\ KeyInv' /\ OneClusterPerKey'
       /\ AssignedIffClustered' /\ RowIsOneVerdict' /\ HistoryKeyIsClusterKey'
    BY <1>18 DEF CallInv, KeyInv, OneClusterPerKey, AssignedIffClustered, RowIsOneVerdict,
       HistoryKeyIsClusterKey, Key, DeleteRule
  <2>2. NoDanglingReference'
    BY <1>18 DEF NoDanglingReference, FkOK, DeleteRule
  <2> QED
    BY <2>1, <2>2
<1>19. ASSUME EditRules PROVE IndInv'
  <2>1. /\ CallInv' /\ KeyInv' /\ NoDanglingReference'
       /\ OneClusterPerKey' /\ AssignedIffClustered' /\ RowIsOneVerdict' /\ HistoryKeyIsClusterKey'
    BY <1>19 DEF CallInv, KeyInv, NoDanglingReference, OneClusterPerKey,
       AssignedIffClustered, RowIsOneVerdict, HistoryKeyIsClusterKey, Key, FkOK, EditRules
  <2> QED
    BY <2>1
<1>20. CASE UNCHANGED vars
  BY <1>20 DEF CallInv, KeyInv, NoDanglingReference, OneClusterPerKey, AssignedIffClustered,
     RowIsOneVerdict, HistoryKeyIsClusterKey, Key, FkOK, vars
<1> QED
  BY <1>1, <1>2, <1>3, <1>4, <1>5, <1>6, <1>7, <1>8, <1>9, <1>10, <1>11, <1>12, <1>13,
     <1>14, <1>15, <1>16, <1>17, <1>18, <1>19, <1>20
     DEF Next, Discovery, Redistribute, Assign

\* The invariant holds in every reachable state.
THEOREM IndInvHolds == Spec => []IndInv
<1>1. Init => IndInv
  <2>1. Init => TypeOK
    BY ConstAssumption DEF Init, TypeOK, NoBatch, PC, Used
  <2>2. Init => CallInv /\ KeyInv /\ OneClusterPerKey /\ AssignedIffClustered
    BY DEF Init, CallInv, KeyInv, OneClusterPerKey, AssignedIffClustered
  <2>3. Init => NoDanglingReference /\ RowIsOneVerdict /\ HistoryKeyIsClusterKey
    BY DEF Init, NoDanglingReference, FkOK, RowIsOneVerdict, HistoryKeyIsClusterKey
  <2> QED
    BY <2>1, <2>2, <2>3 DEF IndInv
<1> QED
  BY <1>1, IndInvStep, PTL DEF Spec

\* No element and no audit row ever names a cluster or a rule that is gone.
THEOREM NoDanglingReferenceHolds == Spec => []NoDanglingReference
<1>1. IndInv => NoDanglingReference
  BY DEF IndInv
<1> QED
  BY <1>1, IndInvHolds, PTL

\* Goroutines that render one key share one cluster, and the key an audit row
\* records stays the key of the cluster it names.
THEOREM KeysIdentifyClusters == Spec => [](OneClusterPerKey /\ HistoryKeyIsClusterKey)
<1>1. IndInv => OneClusterPerKey /\ HistoryKeyIsClusterKey
  BY DEF IndInv
<1> QED
  BY <1>1, IndInvHolds, PTL

\* However assignments interleave, an element row is what one of them decided.
THEOREM RowsAreVerdicts == Spec => [](RowIsOneVerdict /\ AssignedIffClustered)
<1>1. IndInv => RowIsOneVerdict /\ AssignedIffClustered
  BY DEF IndInv
<1> QED
  BY <1>1, IndInvHolds, PTL

-----------------------------------------------------------------------------
(* The audit trail of assignments that do not overlap. *)

\* With at most one goroutine assigning at a time and no failing statements,
\* every step keeps the latest audit row equal to the element row: the foreign
\* keys hold the cluster and the rule of a written verdict, so that its audit
\* row cannot be refused.
LEMMA AuditStep ==
    ASSUME ~DbFaults, \A p, q \in Procs : p = q,
           IndInv, PendingAudit, AuditAgrees, [Next]_vars
    PROVE  PendingAudit' /\ AuditAgrees'
<1> USE DEF IndInv, TypeOK, elementVars, clusterVars, ruleVars, histVars, procVars
<1>1. ASSUME NEW p \in Procs, UpdateAssignment(p) PROVE PendingAudit' /\ AuditAgrees'
  <2>1. CASE Written(p) /\ Goto(p, "history") /\ UNCHANGED <<el, host, cid>>
    <3>1. PendingAudit'
      BY <1>1, <2>1 DEF PendingAudit, UpdateAssignment, Written, Goto, Rule
    <3>2. AuditAgrees'
      BY <1>1, <2>1 DEF AuditAgrees, UpdateAssignment, Written, Goto
    <3> QED
      BY <3>1, <3>2
  <2>2. CASE UNCHANGED <<cluster, lastRule, assignment>> /\ Return(p)
    BY <1>1, <2>2 DEF PendingAudit, AuditAgrees, UpdateAssignment, Return, Goto
  <2> QED
    BY <1>1, <2>1, <2>2 DEF UpdateAssignment, Exec, Written
<1>2. ASSUME NEW p \in Procs, InsertHistory(p) PROVE PendingAudit' /\ AuditAgrees'
  <2>1. cluster[el[p]] = cid[p] /\ lastRule[el[p]] = Rule(p) /\ el[p] \in Elements
    BY <1>2 DEF PendingAudit, InsertHistory
  <2>2. FkOK(cid[p], Rule(p))
    BY <2>1 DEF NoDanglingReference
  <2>3. Audited(p) /\ Return(p) /\ UNCHANGED <<cluster, lastRule>>
    BY <1>2, <2>2 DEF InsertHistory, Exec, Audited
  <2>4. PendingAudit'
    BY <2>3 DEF PendingAudit, Return, Goto
  <2>5. AuditAgrees'
    BY <1>2, <2>1, <2>3 DEF AuditAgrees, Audited, AddHistory, InsertHistory
  <2> QED
    BY <2>4, <2>5
<1>3. ASSUME UNCHANGED <<cluster, lastRule, lastRow>>,
             \A p \in Procs : pc[p] # "history" /\ pc'[p] # "history"
      PROVE  PendingAudit' /\ AuditAgrees'
  BY <1>3 DEF PendingAudit, AuditAgrees
<1>4. ASSUME UNCHANGED <<cluster, lastRule, lastRow, pc, pol, el, host, cid>>
      PROVE  PendingAudit' /\ AuditAgrees'
  BY <1>4 DEF PendingAudit, AuditAgrees, Rule
<1>5. ASSUME NEW p \in Procs, NEW c \in ClusterIds, GetOrCreate(p, c)
      PROVE  PendingAudit' /\ AuditAgrees'
  <2>1. CASE Return(p)
    BY <1>3, <1>5, <2>1 DEF GetOrCreate, Return, Goto
  <2>2. CASE Goto(p, "update")
    BY <1>3, <1>5, <2>2 DEF GetOrCreate, Goto
  <2> QED
    BY <1>5, <2>1, <2>2 DEF GetOrCreate
<1>6. ASSUME NEW p \in Procs, NEW e \in Elements, NEW n \in Names, UpsertDiscovered(p, e, n)
      PROVE  PendingAudit' /\ AuditAgrees'
  <2>1. CASE Goto(p, "cluster")
    BY <1>3, <1>6, <2>1 DEF UpsertDiscovered, Goto
  <2>2. CASE UNCHANGED <<pc, el, host>>
    BY <1>4, <1>6, <2>2 DEF UpsertDiscovered
  <2> QED
    BY <1>6, <2>1, <2>2 DEF UpsertDiscovered
<1>7. ASSUME NEW p \in Procs, \/ DiscoveryLoad(p) \/ ScanEnd(p) \/ CollectAll(p)
                              \/ CollectFails(p) \/ LoadRules(p) \/ BatchEnd(p) \/ NoCluster(p)
      PROVE  PendingAudit' /\ AuditAgrees'
  BY <1>3, <1>7 DEF DiscoveryLoad, ScanEnd, CollectAll, CollectFails, LoadRules, BatchEnd,
     NoCluster, End, Goto
<1>8. ASSUME NEW p \in Procs, NEW e \in Elements, CollectOne(p, e) \/ PickTarget(p, e)
      PROVE  PendingAudit' /\ AuditAgrees'
  BY <1>3, <1>8 DEF CollectOne, PickTarget, Goto
<1>9. ASSUME \/ \E e \in Elements : SoftDelete(e)
             \/ \E c \in ClusterIds : Rename(c) \/ DeleteCluster(c)
             \/ \E r \in RuleIds : CreateRule(r) \/ DeleteRule(r)
             \/ EditRules \/ UNCHANGED vars
      PROVE  PendingAudit' /\ AuditAgrees'
  BY <1>4, <1>9 DEF SoftDelete, Rename, DeleteCluster, CreateRule, DeleteRule, EditRules, vars
<1> QED
  BY <1>1, <1>2, <1>5, <1>6, <1>7, <1>8, <1>9 DEF Next, Discovery, Redistribute, Assign

\* When assignments do not overlap and statements do not fail, the latest audit
\* row of every element says what the element row says, whatever clusters,
\* rules and elements are deleted meanwhile.
THEOREM AuditAgreesHolds ==
    ASSUME ~DbFaults, \A p, q \in Procs : p = q
    PROVE  Spec => []AuditAgrees
<1>1. Init => PendingAudit /\ AuditAgrees
  BY DEF Init, PendingAudit, AuditAgrees
<1>2. IndInv /\ PendingAudit /\ AuditAgrees /\ [Next]_vars => PendingAudit' /\ AuditAgrees'
  BY AuditStep
<1> QED
  BY <1>1, <1>2, IndInvHolds, PTL DEF Spec
=============================================================================
