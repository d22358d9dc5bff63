----------------------------- MODULE RuleStore -----------------------------
(***************************************************************************)
(* The rules table under concurrent requests: create, update, delete and   *)
(* reorder.  The order of evaluation of the rules is their priority, which *)
(* is UNIQUE; a reorder is a transaction that writes every listed row      *)
(* twice.                                                                  *)
(*   src/internal/storage/postgres/rule_repo.go, src/internal/api/http/    *)
(*   rules.go, and the table in src/migrations/0001_init.up.sql.           *)
(* PostgreSQL is modelled as these statements use it at its default level, *)
(* READ COMMITTED: readers see committed rows; a writer locks its row, and *)
(* waits for a transaction that has locked the row, or has put its new     *)
(* priority into the index or taken it out of a row; a cycle of waiting    *)
(* transactions is broken by failing a statement.                          *)
(***************************************************************************)
EXTENDS Integers, Sequences, FiniteSets

CONSTANTS Requests,    \* the requests that write, a goroutine each
          RuleIds,     \* primary keys, generated once each
          Priorities,  \* values of "priority" in request bodies, any integers
          Orders,      \* lists "rule_ids" of reorder requests
          PoolSize,    \* connections of the pool
          DbFaults,    \* TRUE iff clients disconnect and connections break
          None

ASSUME ConstAssumption ==
    /\ Priorities \subseteq Int
    /\ Orders \subseteq Seq(RuleIds)
    /\ PoolSize \in Nat \ {0}
    /\ DbFaults \in BOOLEAN
    /\ None \notin Int
    /\ None \notin RuleIds

VARIABLES
    priority,  \* priority[r] in the committed row of r, None without a row
    known,     \* the ids that ever had a committed row
    conn,      \* the requests that hold a connection of the pool
    pc,
    op,        \* op[p]: what request p is about
    ids,       \* ids[p]: the rules it names, in the order of the request
    arg,       \* arg[p]: the priority in its body
    k,         \* k[p]: the number of its current statement
    locked,    \* locked[p]: the rows its transaction has locked
    dirty,     \* dirty[p]: the rows it has written, not yet committed
    new,       \* new[p][r]: the priority it gave to a dirty row, None: deleted
    touched    \* touched[p]: the index entries it made or made obsolete

reqVars == <<op, ids, arg>>
txVars  == <<locked, dirty, new, touched>>
vars == <<priority, known, conn, pc, op, ids, arg, k, locked, dirty, new, touched>>

-----------------------------------------------------------------------------
Ops == {"none", "create", "update", "delete", "reorder"}
PC  == {"idle", "begin", "lock", "write", "commit", "rollback", "ok", "failed"}

Unwritten == [r \in RuleIds |-> None]

\* The statements of a request: two passes over the list for a reorder.
Last(p) == IF op[p] = "reorder" THEN 2 * Len(ids[p]) ELSE 1

RowAt(p, n) == IF n <= Len(ids[p]) THEN ids[p][n] ELSE ids[p][n - Len(ids[p])]

\* Mutant: the first pass writes the final values.
ValueAt_Direct(p, n) ==
    CASE op[p] # "reorder"  -> arg[p]
      [] n <= Len(ids[p])   -> 10 * n
      [] OTHER              -> 10 * (n - Len(ids[p]))

\* A placeholder in the first pass, the final priority in the second.
ValueAt(p, n) ==
    CASE op[p] # "reorder"  -> arg[p]
      [] n <= Len(ids[p])   -> -n
      [] OTHER              -> 10 * (n - Len(ids[p]))

Row(p)   == RowAt(p, k[p])
Value(p) == ValueAt(p, k[p])

\* The table as p's transaction sees it.
View(p, r) == IF r \in dirty[p] THEN new[p][r] ELSE priority[r]

\* Mutant: no UNIQUE (priority).
Collides_Never(p, r) == FALSE

\* UNIQUE (priority): another row r has the value p is about to write.
Collides(p, r) == r # Row(p) /\ Value(p) # None /\ View(p, r) = Value(p)

\* Whose end p's statement has to wait for.
WaitsFor(p) ==
    {q \in Requests \ {p} :
        \/ pc[p] = "lock" /\ priority[Row(p)] # None /\ Row(p) \in locked[q]
        \/ pc[p] = "write" /\ Value(p) \in touched[q]}

\* p is on a cycle of waiting transactions.
Deadlocked(p) ==
    \E S \in SUBSET Requests :
        /\ p \in S
        /\ \A q \in S : WaitsFor(q) \cap S # {}
        /\ \A q \in S : \E s \in S : q \in WaitsFor(s)

-----------------------------------------------------------------------------
Init ==
    /\ priority \in {f \in [RuleIds -> Priorities \cup {None}] :
                        \A r, s \in RuleIds : f[r] = f[s] /\ f[r] # None => r = s}
    /\ known \in {S \in SUBSET RuleIds : \A r \in RuleIds : priority[r] # None => r \in S}
    /\ conn = {}
    /\ pc = [p \in Requests |-> "idle"]
    /\ op = [p \in Requests |-> "none"]
    /\ ids = [p \in Requests |-> <<>>]
    /\ arg = [p \in Requests |-> None]
    /\ k = [p \in Requests |-> 1]
    /\ locked = [p \in Requests |-> {}]
    /\ dirty = [p \in Requests |-> {}]
    /\ new = [p \in Requests |-> Unwritten]
    /\ touched = [p \in Requests |-> {}]

Goto(p, l) == pc' = [pc EXCEPT ![p] = l]

-----------------------------------------------------------------------------
(* The handlers, up to their call of the repository. *)

Request(p, o, list, v) ==
    /\ pc[p] = "idle"
    /\ op' = [op EXCEPT ![p] = o]
    /\ ids' = [ids EXCEPT ![p] = list]
    /\ arg' = [arg EXCEPT ![p] = v]
    /\ Goto(p, "begin")
    /\ UNCHANGED <<priority, known, conn, k, txVars>>

\* A new id: the database generates it.
Create(p) ==
    \E r \in RuleIds \ known, v \in Priorities :
        /\ \A q \in Requests : op[q] = "create" => ids[q] # <<r>>
        /\ Request(p, "create", <<r>>, v)

\* The clients know the ids of rules that exist or once did.
Update(p)  == \E r \in known, v \in Priorities : Request(p, "update", <<r>>, v)
Delete(p)  == \E r \in known : Request(p, "delete", <<r>>, None)
Reorder(p) == \E list \in Orders \cap Seq(known) : Request(p, "reorder", list, None)

-----------------------------------------------------------------------------
(* The statements of RuleRepo. *)

\* Mutant: one statement too many.
Advance_OneMore(p) ==
    /\ k' = [k EXCEPT ![p] = @ + 1]
    /\ Goto(p, IF k[p] > Last(p) THEN "commit" ELSE "lock")

\* The next statement, or the commit after the last one.
Advance(p) ==
    /\ k' = [k EXCEPT ![p] = @ + 1]
    /\ Goto(p, IF k[p] >= Last(p) THEN "commit" ELSE "lock")

\* A connection from the pool; a reorder with an empty list has no statement.
Begin(p) ==
    /\ pc[p] = "begin"
    /\ Cardinality(conn) < PoolSize
    /\ conn' = conn \cup {p}
    /\ Goto(p, CASE Last(p) = 0 -> "commit" [] op[p] = "create" -> "write" [] OTHER -> "lock")
    /\ UNCHANGED <<priority, known, reqVars, k, txVars>>

\* WHERE id = $1 finds nothing: the statement has no effect.
NoRow(p) ==
    /\ pc[p] = "lock"
    /\ priority[Row(p)] = None
    /\ Advance(p)
    /\ UNCHANGED <<priority, known, conn, reqVars, txVars>>

LockRow(p) ==
    /\ pc[p] = "lock"
    /\ priority[Row(p)] # None
    /\ WaitsFor(p) = {}
    /\ locked' = [locked EXCEPT ![p] = @ \cup {Row(p)}]
    /\ Goto(p, "write")
    /\ UNCHANGED <<priority, known, conn, reqVars, k, dirty, new, touched>>

\* Mutant: db.Exec instead of tx.Exec, every statement commits by itself.
WriteRow_NoTx(p) ==
    /\ pc[p] = "write"
    /\ WaitsFor(p) = {}
    /\ \A r \in RuleIds : ~Collides(p, r)
    /\ priority' = [priority EXCEPT ![Row(p)] = Value(p)]
    /\ Advance(p)
    /\ UNCHANGED <<known, conn, reqVars, txVars>>

\* The new version of the row and its index entry.
WriteRow(p) ==
    /\ pc[p] = "write"
    /\ WaitsFor(p) = {}
    /\ \A r \in RuleIds : ~Collides(p, r)
    /\ locked' = [locked EXCEPT ![p] = @ \cup {Row(p)}]
    /\ dirty' = [dirty EXCEPT ![p] = @ \cup {Row(p)}]
    /\ new' = [new EXCEPT ![p][Row(p)] = Value(p)]
    /\ touched' = [touched EXCEPT ![p] = @ \cup ({View(p, Row(p)), Value(p)} \ {None})]
    /\ Advance(p)
    /\ UNCHANGED <<priority, known, conn, reqVars>>

\* Whatever the transaction held is free again.
Release(p) ==
    /\ locked' = [locked EXCEPT ![p] = {}]
    /\ dirty' = [dirty EXCEPT ![p] = {}]
    /\ new' = [new EXCEPT ![p] = Unwritten]
    /\ touched' = [touched EXCEPT ![p] = {}]

\* The server fails the statement and aborts the transaction at once: a
\* duplicate priority, a rule that is still referenced, or a deadlock.
StatementFails(p) ==
    /\ \/ pc[p] = "write" /\ WaitsFor(p) = {} /\ \E r \in RuleIds : Collides(p, r)
       \/ pc[p] = "write" /\ op[p] = "delete"
       \/ Deadlocked(p)
    /\ Release(p)
    /\ Goto(p, "rollback")
    /\ UNCHANGED <<priority, known, conn, reqVars, k>>

\* The client is gone, or the connection: the call returns an error, and the
\* server has not heard of it yet.
Fault(p) ==
    /\ DbFaults
    /\ pc[p] \in {"begin", "lock", "write", "commit"}
    /\ Goto(p, "rollback")
    /\ UNCHANGED <<priority, known, conn, reqVars, k, txVars>>

\* Mutant: no deferred Rollback.
Rollback_Missing(p) ==
    /\ pc[p] = "rollback"
    /\ Goto(p, "failed")
    /\ UNCHANGED <<priority, known, conn, reqVars, k, txVars>>

\* The deferred Rollback, and the answer 500.
Rollback(p) ==
    /\ pc[p] = "rollback"
    /\ Release(p)
    /\ conn' = conn \ {p}
    /\ Goto(p, "failed")
    /\ UNCHANGED <<priority, known, reqVars, k>>

\* Commit; an answer that is lost makes the request fail all the same.
Commit(p) ==
    /\ pc[p] = "commit"
    /\ priority' = [r \in RuleIds |-> View(p, r)]
    /\ known' = known \cup dirty[p]
    /\ Release(p)
    /\ \/ Goto(p, "ok") /\ conn' = conn \ {p}
       \/ DbFaults /\ Goto(p, "rollback") /\ UNCHANGED conn
    /\ UNCHANGED <<reqVars, k>>

Step(p) == \/ Begin(p) \/ NoRow(p) \/ LockRow(p) \/ WriteRow(p) \/ StatementFails(p)
           \/ Rollback(p) \/ Commit(p)

Next == \E p \in Requests :
            Create(p) \/ Update(p) \/ Delete(p) \/ Reorder(p) \/ Step(p) \/ Fault(p)

Spec == Init /\ [][Next]_vars

\* Every goroutine is scheduled, the pool serves who waits, the server ends
\* every wait that can end.  Requests are not owed, nor faults.
FairSpec == Spec /\ \A p \in Requests : WF_vars(Step(p))

-----------------------------------------------------------------------------
(* Correctness. *)

\* The variables keep their types, and a statement is one of its request.
TypeOK ==
    /\ priority \in [RuleIds -> Int \cup {None}]
    /\ known \subseteq RuleIds
    /\ conn \subseteq Requests
    /\ pc \in [Requests -> PC]
    /\ op \in [Requests -> Ops]
    /\ ids \in [Requests -> Seq(RuleIds)]
    /\ arg \in [Requests -> Int \cup {None}]
    /\ k \in [Requests -> Nat \ {0}]
    /\ locked \in [Requests -> SUBSET RuleIds]
    /\ dirty \in [Requests -> SUBSET RuleIds]
    /\ new \in [Requests -> [RuleIds -> Int \cup {None}]]
    /\ touched \in [Requests -> SUBSET Int]
    /\ \A p \in Requests : pc[p] \in {"lock", "write"} => k[p] <= Last(p)

\* UNIQUE (priority): the order in which ListEnabledOrdered returns the rules
\* is determined, at every moment between and during concurrent reorders.
UniquePriorities ==
    \A r, s \in RuleIds : priority[r] = priority[s] /\ priority[r] # None => r = s

\* The places of r in the list of a reorder; the last one counts.
Places(p, r) == {n \in DOMAIN ids[p] : ids[p][n] = r}
Wanted(p, r, v) == \E n \in Places(p, r) : v = 10 * n /\ \A m \in Places(p, r) : m <= n

\* The transaction of Reorder: a reader sees all of a request or nothing of
\* it.  The committed table changes by one row, or to the whole order that
\* one request asks for; a placeholder never shows, whatever fails.
Moves(p, r) == op[p] = "reorder" /\ priority[r] # None /\ Places(p, r) # {}
WholeRequest(p) ==
    \A r \in RuleIds :
        /\ Moves(p, r) => Wanted(p, r, priority'[r])
        /\ ~Moves(p, r) => \/ priority'[r] = priority[r]
                           \/ op[p] # "reorder" /\ ids[p] = <<r>>
AllOrNothing ==
    [][priority' # priority => \E p \in Requests : pc[p] = "commit" /\ WholeRequest(p)]_vars

\* What the two passes are for ("a direct swap ... can collide mid-update"):
\* a reorder never collides with a rule of its own list, except one that
\* came with a negative priority and is not moved yet.
NoSelfCollision ==
    \A p \in Requests : pc[p] = "write" /\ op[p] = "reorder" =>
        \A n \in DOMAIN ids[p] : Collides(p, ids[p][n]) =>
            ids[p][n] \notin dirty[p] /\ priority[ids[p][n]] < 0

\* Every request is answered: deadlocks are broken, and a failed transaction
\* gives back its locks and its connection.
RequestEnds == \A p \in Requests : pc[p] = "begin" ~> pc[p] \in {"ok", "failed"}

\* The comment of Reorder: "a negative placeholder no existing row can hold".
PlaceholderIsFree ==
    \A p \in Requests : pc[p] = "write" /\ op[p] = "reorder" /\ k[p] <= Len(ids[p]) =>
        \A r \in RuleIds : ~Collides(p, r)
=============================================================================
