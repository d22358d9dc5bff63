----------------------------- MODULE Assignment -----------------------------
(***************************************************************************)
(* Elements, clusters, rules and the audit history in PostgreSQL, under    *)
(* concurrent assignments: discovery scans and the single and bulk         *)
(* redistribute handlers all call assignment.Service.Assign, which is      *)
(* three statements without a transaction, while other handlers delete     *)
(* elements, clusters and rules and edit rules.                            *)
(*   src/internal/assignment/assignment.go, src/internal/api/http/         *)
(*   elements.go, clusters.go, rules.go, the repositories of               *)
(*   src/internal/storage/postgres and the schema in src/migrations.       *)
(* Evaluating rules is abstracted to policies: the verdict the enabled     *)
(* rules, in priority order, give for each host name.                      *)
(***************************************************************************)
EXTENDS Integers, FiniteSets

CONSTANTS Procs,       \* goroutines that assign: scans and request handlers
          Elements,    \* devices, by ip_address
          Names,       \* values of sysName
          ClusterIds,  \* primary keys of clusters, never used twice
          Keys,        \* non-empty rendered cluster keys
          RuleIds,     \* primary keys of rules, never used twice
          Policies,    \* possible contents of the rules table
          RuleOf,      \* RuleOf[q][n]: the rule that matches n first, or None
          KeyOf,       \* KeyOf[q][n]: the key it renders, None when empty
          DbFaults,    \* TRUE iff a statement may fail for no reason of its own
          None

ASSUME ConstAssumption ==
    /\ RuleOf \in [Policies -> [Names -> RuleIds \cup {None}]]
    /\ KeyOf \in [Policies -> [Names -> Keys \cup {None}]]
    /\ \A q \in Policies, n \in Names : RuleOf[q][n] = None => KeyOf[q][n] = None
    /\ \E q \in Policies : \A n \in Names : RuleOf[q][n] = None
    /\ DbFaults \in BOOLEAN
    /\ None \notin RuleIds \cup Keys \cup ClusterIds \cup Names \cup Elements

VARIABLES
    \* network_elements
    name,        \* name[e]: sys_name, None while the row does not exist
    deleted,     \* the elements with deleted_at set
    cluster,     \* cluster[e]: cluster_id or None
    lastRule,    \* lastRule[e]: last_rule_id or None
    assignment,  \* assignment[e]: assignment_status
    \* clusters
    clusters,    \* the ids that have a row
    clusterKey,  \* clusterKey[c]: lookup_key, kept after a delete; None while c is unused
    renamed,     \* the clusters whose display_name is not their lookup_key
    \* rules
    rules,       \* the ids that have a row
    usedRules,   \* the ids that ever had one
    policy,      \* what the table's enabled rules decide
    \* assignment_history
    histKeys,    \* the pairs <<cluster_id, rendered_cluster_key>> of its rows
    histRules,   \* the rule ids of its rows
    lastRow,     \* lastRow[e]: <<cluster_id, rule_id>> of e's latest row
    \* the goroutines
    pc,
    pol,         \* pol[p]: the rules as p loaded them
    batch,       \* batch[p]: the names p read of the elements it still has to assign
    el, host,    \* el[p], host[p]: the arguments elementID and hostname of Assign
    cid,         \* cid[p]: the local variable clusterID of Assign
    back         \* back[p]: where p goes on after Assign

elementVars == <<name, deleted, cluster, lastRule, assignment>>
clusterVars == <<clusters, clusterKey, renamed>>
ruleVars    == <<rules, usedRules, policy>>
histVars    == <<histKeys, histRules, lastRow>>
procVars    == <<pc, pol, batch, el, host, cid, back>>
vars == <<elementVars, clusterVars, ruleVars, histVars, procVars>>

-----------------------------------------------------------------------------
PC == {"idle", "scan", "collect", "rules", "next", "cluster", "update", "history"}

NoBatch == [e \in Elements |-> None]

Live == {e \in Elements : name[e] # None} \ deleted

Used(q) == {RuleOf[q][n] : n \in Names} \ {None}

\* Mutant: the rules as they are now.
Rule_Fresh(p) == RuleOf[policy][host[p]]

\* ruleengine.Evaluate on what p loaded.
Rule(p) == RuleOf[pol[p]][host[p]]
Key(p)  == KeyOf[pol[p]][host[p]]

\* The foreign keys of an element or history row that names c and r.
FkOK(c, r) == c \in clusters \cup {None} /\ r \in rules \cup {None}

\* One statement: it takes effect and says so, it fails (always when it
\* violates a foreign key), or it takes effect and the reply is lost, as when
\* the client of the request disconnects.  A statement that the server carries
\* out long after its caller gave up is one more goroutine, which waits at its
\* statement: nothing a goroutine does later depends on one that has failed.
Exec(ok, applied, err) ==
    \/ ok /\ applied /\ ~err
    \/ (~ok \/ DbFaults) /\ ~applied /\ err
    \/ ok /\ DbFaults /\ applied /\ err

Goto(p, l) == pc' = [pc EXCEPT ![p] = l]

\* Mutant: the host name of the previous call.
Call_StaleHost(p, e, n) == el' = [el EXCEPT ![p] = e] /\ UNCHANGED host

\* The arguments and locals of Assign live as long as the call.
Call(p, e, n) == /\ el' = [el EXCEPT ![p] = e]
                 /\ host' = [host EXCEPT ![p] = n]
SetCid(p, c)  == cid' = [cid EXCEPT ![p] = c]
Return(p)     == Goto(p, back[p]) /\ Call(p, None, None) /\ SetCid(p, None)

\* The goroutine's request or job is over.
End(p) == /\ Goto(p, "idle")
          /\ pol' = [pol EXCEPT ![p] = None]
          /\ back' = [back EXCEPT ![p] = "none"]
          /\ batch' = [batch EXCEPT ![p] = NoBatch]

Init ==
    /\ name = [e \in Elements |-> None] /\ deleted = {}
    /\ cluster = [e \in Elements |-> None]
    /\ lastRule = [e \in Elements |-> None]
    /\ assignment = [e \in Elements |-> "unassigned"]
    /\ clusters = {} /\ clusterKey = [c \in ClusterIds |-> None] /\ renamed = {}
    /\ rules = {} /\ usedRules = {}
    /\ policy \in {q \in Policies : Used(q) = {}}
    /\ histKeys = {} /\ histRules = {}
    /\ lastRow = [e \in Elements |-> <<None, None>>]
    /\ pc = [p \in Procs |-> "idle"] /\ pol = [p \in Procs |-> None]
    /\ batch = [p \in Procs |-> NoBatch]
    /\ el = [p \in Procs |-> None] /\ host = [p \in Procs |-> None]
    /\ cid = [p \in Procs |-> None]
    /\ back = [p \in Procs |-> "none"]

-----------------------------------------------------------------------------
(* Discovery: Orchestrator.Run loads the rules once, scanOne upserts and   *)
(* assigns.                                                                *)

DiscoveryLoad(p) ==
    /\ pc[p] = "idle"
    /\ pol' = [pol EXCEPT ![p] = policy]
    /\ back' = [back EXCEPT ![p] = "scan"]
    /\ Goto(p, "scan")
    /\ UNCHANGED <<elementVars, clusterVars, ruleVars, histVars, batch, el, host, cid>>

\* ElementRepo.UpsertDiscovered: a new row is unassigned; an old one gets its
\* name refreshed, and stays deleted if it was.  On an error scanOne returns.
UpsertDiscovered(p, e, n) ==
    /\ pc[p] = "scan"
    /\ name' = [name EXCEPT ![e] = n]
    /\ \/ Goto(p, "cluster") /\ Call(p, e, n)
       \/ DbFaults /\ UNCHANGED <<pc, el, host>>
    /\ UNCHANGED <<deleted, cluster, lastRule, assignment, clusterVars, ruleVars, histVars,
                   pol, batch, cid, back>>

\* The job's last scan is over.
ScanEnd(p) ==
    /\ pc[p] = "scan"
    /\ End(p)
    /\ UNCHANGED <<elementVars, clusterVars, ruleVars, histVars, el, host, cid>>

-----------------------------------------------------------------------------
(* ElementsHandler.RedistributeSingle and RedistributeBulk. *)

\* elements.Get of one of the requested ids, the only one of a single
\* redistribute.
CollectOne(p, e) ==
    /\ pc[p] \in {"idle", "collect"}
    /\ e \in Live
    /\ batch' = [batch EXCEPT ![p][e] = name[e]]
    /\ back' = [back EXCEPT ![p] = "next"]
    /\ Goto(p, "collect")
    /\ UNCHANGED <<elementVars, clusterVars, ruleVars, histVars, pol, el, host, cid>>

\* elements.List without a limit, for a bulk redistribute of everything.
CollectAll(p) ==
    /\ pc[p] = "idle"
    /\ batch' = [batch EXCEPT ![p] = [e \in Elements |-> IF e \in Live THEN name[e] ELSE None]]
    /\ back' = [back EXCEPT ![p] = "next"]
    /\ Goto(p, "rules")
    /\ UNCHANGED <<elementVars, clusterVars, ruleVars, histVars, pol, el, host, cid>>

\* A requested id that is not there, or a failed query, ends the request.
CollectFails(p) ==
    /\ pc[p] \in {"collect", "rules"}
    /\ pc[p] = "collect" \/ DbFaults
    /\ End(p)
    /\ UNCHANGED <<elementVars, clusterVars, ruleVars, histVars, el, host, cid>>

\* rules.ListEnabledOrdered, after the elements were read.
LoadRules(p) ==
    /\ pc[p] \in {"collect", "rules"}
    /\ pol' = [pol EXCEPT ![p] = policy]
    /\ Goto(p, "next")
    /\ UNCHANGED <<elementVars, clusterVars, ruleVars, histVars, batch, el, host, cid, back>>

\* The loop over the collected elements.
PickTarget(p, e) ==
    /\ pc[p] = "next"
    /\ batch[p][e] # None
    /\ Call(p, e, batch[p][e])
    /\ batch' = [batch EXCEPT ![p][e] = None]
    /\ Goto(p, "cluster")
    /\ UNCHANGED <<elementVars, clusterVars, ruleVars, histVars, pol, cid, back>>

\* The loop is over, and the request answered.
BatchEnd(p) ==
    /\ pc[p] = "next"
    /\ batch[p] = NoBatch
    /\ End(p)
    /\ UNCHANGED <<elementVars, clusterVars, ruleVars, histVars, el, host, cid>>

-----------------------------------------------------------------------------
(* assignment.Service.Assign. *)

\* Mutant: no unique constraint on lookup_key.
ClusterFor_New(k, c) == clusterKey[c] = None

\* The cluster row of key k: the one it has, or a new one.
ClusterFor(k, c) ==
    \/ c \in clusters /\ clusterKey[c] = k
    \/ clusterKey[c] = None /\ \A d \in clusters : clusterKey[d] # k

\* An empty key: no cluster.
NoCluster(p) ==
    /\ pc[p] = "cluster"
    /\ Key(p) = None
    /\ Goto(p, "update")
    /\ UNCHANGED <<elementVars, clusterVars, ruleVars, histVars, pol, batch, el, host, cid, back>>

\* ClusterRepo.GetOrCreateByLookupKey
GetOrCreate(p, c) ==
    /\ pc[p] = "cluster"
    /\ Key(p) # None
    /\ ClusterFor(Key(p), c)
    /\ \E applied, err \in BOOLEAN :
          /\ Exec(TRUE, applied, err)
          /\ clusters' = IF applied THEN clusters \cup {c} ELSE clusters
          /\ clusterKey' = IF applied THEN [clusterKey EXCEPT ![c] = Key(p)] ELSE clusterKey
          /\ IF err THEN Return(p)
                    ELSE Goto(p, "update") /\ SetCid(p, c) /\ UNCHANGED <<el, host>>
    /\ UNCHANGED <<elementVars, renamed, ruleVars, histVars, pol, batch, back>>

\* Assigned means that there is a cluster.
AssignmentStatus(p) == IF cid[p] = None THEN "unassigned" ELSE "assigned"

\* ElementRepo.UpdateAssignment: deleted elements are updated like others.
UpdateAssignment(p) ==
    /\ pc[p] = "update"
    /\ \E applied, err \in BOOLEAN :
          /\ Exec(FkOK(cid[p], Rule(p)), applied, err)
          /\ IF applied
                THEN /\ cluster' = [cluster EXCEPT ![el[p]] = cid[p]]
                     /\ lastRule' = [lastRule EXCEPT ![el[p]] = Rule(p)]
                     /\ assignment' = [assignment EXCEPT ![el[p]] = AssignmentStatus(p)]
                ELSE UNCHANGED <<cluster, lastRule, assignment>>
          /\ IF err THEN Return(p)
                    ELSE Goto(p, "history") /\ UNCHANGED <<el, host, cid>>
    /\ UNCHANGED <<name, deleted, clusterVars, ruleVars, histVars, pol, batch, back>>

\* Mutant: a verdict without a rule is not recorded.
AddHistory_MatchedOnly(p) ==
    /\ histKeys' = histKeys \cup IF cid[p] = None THEN {} ELSE {<<cid[p], Key(p)>>}
    /\ histRules' = histRules \cup ({Rule(p)} \ {None})
    /\ lastRow' = [lastRow EXCEPT ![el[p]] = IF Rule(p) = None THEN @ ELSE <<cid[p], Rule(p)>>]

\* The audit row of the verdict, matched or not.
AddHistory(p) ==
    /\ histKeys' = histKeys \cup IF cid[p] = None THEN {} ELSE {<<cid[p], Key(p)>>}
    /\ histRules' = histRules \cup ({Rule(p)} \ {None})
    /\ lastRow' = [lastRow EXCEPT ![el[p]] = <<cid[p], Rule(p)>>]

\* HistoryRepo.Insert.
InsertHistory(p) ==
    /\ pc[p] = "history"
    /\ \E applied, err \in BOOLEAN :
          /\ Exec(FkOK(cid[p], Rule(p)), applied, err)
          /\ IF applied THEN AddHistory(p) ELSE UNCHANGED histVars
    /\ Return(p)
    /\ UNCHANGED <<elementVars, clusterVars, ruleVars, pol, batch, back>>

-----------------------------------------------------------------------------
(* The other handlers: one statement each. *)

\* ElementRepo.SoftDelete
SoftDelete(e) ==
    /\ e \in Live
    /\ deleted' = deleted \cup {e}
    /\ UNCHANGED <<name, cluster, lastRule, assignment, clusterVars, ruleVars, histVars, procVars>>

\* ClusterRepo.Rename: the lookup key stays what it was.
Rename(c) ==
    /\ c \in clusters
    /\ renamed' = renamed \cup {c}
    /\ UNCHANGED <<elementVars, clusters, clusterKey, ruleVars, histVars, procVars>>

\* Mutant: the audit rows do not reference clusters.
ClusterReferenced_Members(c) == \E e \in Elements : cluster[e] = c

\* What the foreign keys on clusters hold on to.
ClusterReferenced(c) ==
    \/ \E e \in Elements : cluster[e] = c
    \/ \E k \in Keys : <<c, k>> \in histKeys

\* ClusterRepo.Delete: refused with ErrClusterNotEmpty while referenced.
DeleteCluster(c) ==
    /\ c \in clusters
    /\ ~ClusterReferenced(c)
    /\ clusters' = clusters \ {c}
    /\ renamed' = renamed \ {c}
    /\ UNCHANGED <<elementVars, clusterKey, ruleVars, histVars, procVars>>

\* RuleRepo.Create
CreateRule(r) ==
    /\ r \notin usedRules
    /\ rules' = rules \cup {r}
    /\ usedRules' = usedRules \cup {r}
    /\ \E q \in Policies : Used(q) \subseteq rules' /\ policy' = q
    /\ UNCHANGED <<elementVars, clusterVars, histVars, procVars>>

\* RuleRepo.Update and Reorder, as far as assignments can tell.
EditRules ==
    /\ \E q \in Policies : Used(q) \subseteq rules /\ policy' = q
    /\ UNCHANGED <<elementVars, clusterVars, rules, usedRules, histVars, procVars>>

\* RuleRepo.Delete: refused by the foreign keys while an element or a
\* history row names the rule.
DeleteRule(r) ==
    /\ r \in rules \ histRules
    /\ \A e \in Elements : lastRule[e] # r
    /\ rules' = rules \ {r}
    /\ \E q \in Policies : Used(q) \subseteq rules' /\ policy' = q
    /\ UNCHANGED <<elementVars, clusterVars, usedRules, histVars, procVars>>

-----------------------------------------------------------------------------
Discovery(p) == \/ DiscoveryLoad(p) \/ ScanEnd(p)
                \/ \E e \in Elements, n \in Names : UpsertDiscovered(p, e, n)

Redistribute(p) == \/ CollectAll(p) \/ CollectFails(p) \/ LoadRules(p) \/ BatchEnd(p)
                   \/ \E e \in Elements : CollectOne(p, e) \/ PickTarget(p, e)

Assign(p) == \/ NoCluster(p) \/ UpdateAssignment(p) \/ InsertHistory(p)
             \/ \E c \in ClusterIds : GetOrCreate(p, c)

Next ==
    \/ \E p \in Procs : Discovery(p) \/ Redistribute(p) \/ Assign(p)
    \/ \E e \in Elements : SoftDelete(e)
    \/ \E c \in ClusterIds : Rename(c) \/ DeleteCluster(c)
    \/ \E r \in RuleIds : CreateRule(r) \/ DeleteRule(r)
    \/ EditRules

Spec == Init /\ [][Next]_vars

-----------------------------------------------------------------------------
(* Correctness. *)

\* The variables keep their types, and Assign never runs without an element,
\* a host name and loaded rules.
TypeOK ==
    /\ name \in [Elements -> Names \cup {None}]
    /\ deleted \subseteq Elements
    /\ cluster \in [Elements -> ClusterIds \cup {None}]
    /\ lastRule \in [Elements -> RuleIds \cup {None}]
    /\ assignment \in [Elements -> {"unassigned", "assigned"}]
    /\ clusters \subseteq ClusterIds /\ renamed \subseteq ClusterIds
    /\ clusterKey \in [ClusterIds -> Keys \cup {None}]
    /\ rules \subseteq RuleIds /\ usedRules \subseteq RuleIds
    /\ policy \in Policies
    /\ histKeys \subseteq ClusterIds \X (Keys \cup {None}) /\ histRules \subseteq RuleIds
    /\ lastRow \in [Elements -> (ClusterIds \cup {None}) \X (RuleIds \cup {None})]
    /\ pc \in [Procs -> PC] /\ pol \in [Procs -> Policies \cup {None}]
    /\ batch \in [Procs -> [Elements -> Names \cup {None}]]
    /\ el \in [Procs -> Elements \cup {None}] /\ host \in [Procs -> Names \cup {None}]
    /\ cid \in [Procs -> ClusterIds \cup {None}]
    /\ back \in [Procs -> {"next", "scan", "none"}]
    /\ \A p \in Procs :
          /\ pc[p] \in {"cluster", "update", "history"} => el[p] \in Elements /\ host[p] \in Names
          /\ pc[p] \notin {"idle", "collect", "rules"} => pol[p] \in Policies
          /\ pc[p] # "idle" => back[p] # "none"

\* The schema's foreign keys, through deletes that race with assignments
\* which hold ids they read earlier: no row names a cluster or a rule that
\* is gone.
NoDanglingReference ==
    /\ \A e \in Elements : FkOK(cluster[e], lastRule[e])
    /\ \A c \in ClusterIds, k \in Keys : <<c, k>> \in histKeys => c \in clusters
    /\ histRules \subseteq rules

\* GetOrCreateByLookupKey, "exactly one cluster row": concurrent assignments
\* that render the same key agree on one cluster.
OneClusterPerKey ==
    \A c, d \in clusters : clusterKey[c] = clusterKey[d] => c = d

\* An element is "assigned" exactly when it has a cluster, whichever of the
\* racing assignments wrote last.
AssignedIffClustered ==
    \A e \in Elements : assignment[e] = "assigned" <=> cluster[e] # None

\* The rule and the cluster of an element come from one verdict of the rule
\* engine: a row never mixes two assignments, and the cluster still has the
\* key the rule rendered.
RowIsOneVerdict ==
    \A e \in Elements : lastRule[e] # None \/ cluster[e] # None =>
        \E q \in Policies, n \in Names :
            /\ RuleOf[q][n] = lastRule[e]
            /\ KeyOf[q][n] = IF cluster[e] = None THEN None ELSE clusterKey[cluster[e]]

\* "Renaming never touches lookup_key": the key in an audit row is for ever
\* the key of the cluster it names.
HistoryKeyIsClusterKey ==
    \A c \in ClusterIds, k \in Keys : <<c, k>> \in histKeys => clusterKey[c] = k

\* With one assignment at a time, the latest audit row of an element says
\* what the element row says, matched or not.
AuditAgrees ==
    \A e \in Elements :
        (\A p \in Procs : pc[p] = "history" => el[p] # e) =>
            lastRow[e] = <<cluster[e], lastRule[e]>>

\* The package comment of assignment: it "updates the element, and writes an
\* audit history row - always".
EveryUpdateAudited ==
    [][\A p \in Procs : pc[p] = "history" /\ pc'[p] # "history" =>
           lastRow'[el[p]] = <<cid[p], Rule(p)>>]_vars
=============================================================================
