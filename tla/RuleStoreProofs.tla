-------------------------- MODULE RuleStoreProofs --------------------------
(* Proofs about RuleStore, for any number of requests, rules and priorities. *)
EXTENDS RuleStore, TLAPS

\* A request that is inserting a row nobody else knows of.
Creating(p) ==
    op[p] = "create" /\ (pc[p] \in {"begin", "write", "commit"} \/ locked[p] # {})

RequestInv ==
    /\ \A p \in Requests :
          /\ op[p] \in {"create", "update", "delete"} => \E r \in RuleIds : ids[p] = <<r>>
          /\ pc[p] # "idle" => op[p] # "none"
          /\ pc[p] = "lock" => op[p] # "create"
          /\ pc[p] = "idle" => op[p] = "none"
          /\ pc[p] \in {"idle", "begin"} => locked[p] = {} /\ k[p] = 1
          /\ Creating(p) => ids[p][1] \notin known
          /\ op[p] # "create" => ids[p] \in Seq(known)
    /\ \A p, q \in Requests : op[p] = "create" /\ op[q] = "create" /\ p # q => ids[p] # ids[q]
    /\ \A r \in RuleIds : priority[r] # None => r \in known

LockInv ==
    /\ \A p, q \in Requests : p # q => locked[p] \cap locked[q] = {}
    /\ \A p \in Requests :
          /\ dirty[p] \subseteq locked[p]
          /\ \A r \in locked[p] :
                IF op[p] = "create" THEN r = ids[p][1] ELSE priority[r] # None
          /\ pc[p] = "write" /\ op[p] # "create" => Row(p) \in locked[p]

IndexInv ==
    /\ \A p, q \in Requests : p # q => touched[p] \cap touched[q] = {}
    /\ \A p \in Requests : \A r \in dirty[p] : new[p][r] # None => new[p][r] \in touched[p]
    /\ \A p \in Requests, r \in RuleIds : priority[r] \in touched[p] => r \in dirty[p]

UniqueViews ==
    \A p \in Requests, r, s \in RuleIds : View(p, r) = View(p, s) /\ View(p, r) # None => r = s

IndInv == TypeOK /\ RequestInv /\ LockInv /\ IndexInv /\ UniquePriorities /\ UniqueViews

Pass(p) ==
    /\ pc[p] = "commit" => k[p] = Last(p) + 1
    /\ pc[p] \in {"lock", "write", "commit"} =>
          /\ \A n \in 1..(k[p] - 1) :
                op[p] # "create" /\ priority[RowAt(p, n)] # None => RowAt(p, n) \in dirty[p]
          /\ \A r \in dirty[p] : \E n \in 1..(k[p] - 1) :
                /\ RowAt(p, n) = r
                /\ new[p][r] = ValueAt(p, n)
                /\ \A m \in (n + 1)..(k[p] - 1) : RowAt(p, m) # r

PassInv == \A p \in Requests : Pass(p)

-----------------------------------------------------------------------------
\* Every statement of RuleRepo names a rule of its request and a priority.
LEMMA Statements ==
    ASSUME TypeOK, RequestInv, NEW p \in Requests, pc[p] # "idle", NEW n \in 1..Last(p)
    PROVE  /\ RowAt(p, n) \in RuleIds
           /\ ValueAt(p, n) \in Int \cup {None}
           /\ op[p] # "create" => RowAt(p, n) \in known
           /\ op[p] = "create" => RowAt(p, n) = ids[p][1]
<1>1. ids[p] \in Seq(RuleIds) /\ Len(ids[p]) \in Nat /\ arg[p] \in Int \cup {None}
  BY DEF TypeOK
<1>2. op[p] \in {"create", "update", "delete", "reorder"}
  BY DEF TypeOK, RequestInv, Ops
<1>3. op[p] # "create" => ids[p] \in Seq(known)
  BY DEF RequestInv
<1>4. op[p] # "reorder" => n = 1 /\ \E r \in RuleIds : ids[p] = <<r>>
  BY <1>2 DEF RequestInv, Last
<1>5. n \in 1..Len(ids[p]) \/ n - Len(ids[p]) \in 1..Len(ids[p])
  <2>1. CASE op[p] = "reorder"
    <3>1. n <= 2 * Len(ids[p]) BY <2>1 DEF Last
    <3> QED BY <3>1, <1>1
  <2>2. CASE op[p] # "reorder"
    <3>1. PICK r \in RuleIds : ids[p] = <<r>> BY <2>2, <1>4
    <3>2. Len(ids[p]) = 1 BY <3>1
    <3> QED BY <3>2, <2>2, <1>4
  <2> QED BY <2>1, <2>2
<1>6. RowAt(p, n) \in RuleIds /\ (op[p] # "create" => RowAt(p, n) \in known)
  BY <1>1, <1>3, <1>5 DEF RowAt
<1>7. ValueAt(p, n) \in Int \cup {None}
  BY <1>1 DEF ValueAt
<1>8. op[p] = "create" => RowAt(p, n) = ids[p][1]
  BY <1>4 DEF RowAt
<1> QED BY <1>6, <1>7, <1>8

\* So does the current one.
LEMMA Statement ==
    ASSUME TypeOK, RequestInv, NEW p \in Requests, pc[p] \in {"lock", "write"}
    PROVE  /\ Row(p) \in RuleIds
           /\ Value(p) \in Int \cup {None}
           /\ op[p] # "create" => Row(p) \in known
           /\ op[p] = "create" => Row(p) = ids[p][1]
<1>1. Last(p) \in Nat /\ k[p] \in 1..Last(p)
  BY DEF TypeOK, Last
<1> QED BY <1>1, Statements DEF Row, Value

\* Every action of RuleStore keeps the types.
LEMMA TypeStep ==
    TypeOK /\ RequestInv /\ [Next]_vars => TypeOK'
<1> SUFFICES ASSUME TypeOK, RequestInv, [Next]_vars PROVE TypeOK'
  OBVIOUS
<1> USE ConstAssumption
<1>0. CASE UNCHANGED vars
  BY <1>0 DEF TypeOK, vars, Last
<1>r. ASSUME NEW p \in Requests, NEW o \in Ops, NEW list \in Seq(RuleIds), NEW v \in Int \cup {None},
             Request(p, o, list, v)
      PROVE  TypeOK'
  BY <1>r DEF TypeOK, Request, Goto, txVars, Last, PC
<1>k. known \subseteq RuleIds
  BY DEF TypeOK
<1>1. ASSUME NEW p \in Requests, Create(p) PROVE TypeOK'
  <2>1. PICK r \in RuleIds, v \in Priorities : Request(p, "create", <<r>>, v)
    BY <1>1 DEF Create
  <2>2. <<r>> \in Seq(RuleIds) OBVIOUS
  <2> QED BY <2>1, <2>2, <1>r DEF Ops
<1>2. ASSUME NEW p \in Requests, Update(p) PROVE TypeOK'
  <2>1. PICK r \in known, v \in Priorities : Request(p, "update", <<r>>, v)
    BY <1>2 DEF Update
  <2>2. <<r>> \in Seq(RuleIds) BY <1>k
  <2> QED BY <2>1, <2>2, <1>r DEF Ops
<1>3. ASSUME NEW p \in Requests, Delete(p) PROVE TypeOK'
  <2>1. PICK r \in known : Request(p, "delete", <<r>>, None)
    BY <1>3 DEF Delete
  <2>2. <<r>> \in Seq(RuleIds) BY <1>k
  <2> QED BY <2>1, <2>2, <1>r DEF Ops
<1>4. ASSUME NEW p \in Requests, Reorder(p) PROVE TypeOK'
  <2>1. PICK list \in Orders : Request(p, "reorder", list, None)
    BY <1>4 DEF Reorder
  <2> QED BY <2>1, <1>r DEF Ops
<1>5. ASSUME NEW p \in Requests, Begin(p) PROVE TypeOK'
  <2>1. k[p] = 1 BY <1>5 DEF RequestInv, Begin
  <2>2. Last(p) \in Nat BY DEF Last, TypeOK
  <2> QED BY <1>5, <2>1, <2>2 DEF TypeOK, Begin, Goto, reqVars, txVars, Last, PC
<1>6. ASSUME NEW p \in Requests, Advance(p), UNCHANGED reqVars
      PROVE  /\ pc' \in [Requests -> PC] /\ k' \in [Requests -> Nat \ {0}]
             /\ \A q \in Requests : pc'[q] \in {"lock", "write"} => k'[q] <= Last(q)'
  <2>1. Last(p) \in Nat BY DEF Last, TypeOK
  <2> QED BY <1>6, <2>1 DEF TypeOK, Advance, Goto, reqVars, PC, Last
<1>7. ASSUME NEW p \in Requests, NoRow(p) PROVE TypeOK'
  BY <1>7, <1>6 DEF TypeOK, NoRow, reqVars, txVars, Last
<1>8. ASSUME NEW p \in Requests, LockRow(p) PROVE TypeOK'
  BY <1>8, Statement DEF TypeOK, LockRow, Goto, reqVars, Last, PC
<1>9. ASSUME NEW p \in Requests, WriteRow(p) PROVE TypeOK'
  <2>1. Row(p) \in RuleIds /\ Value(p) \in Int \cup {None}
    BY <1>9, Statement DEF WriteRow
  <2>2. View(p, Row(p)) \in Int \cup {None}
    BY <2>1 DEF View, TypeOK
  <2>3. new' \in [Requests -> [RuleIds -> Int \cup {None}]]
    BY <1>9, <2>1 DEF WriteRow, TypeOK
  <2>4. touched' \in [Requests -> SUBSET Int]
    BY <1>9, <2>1, <2>2 DEF WriteRow, TypeOK
  <2>5. locked' \in [Requests -> SUBSET RuleIds] /\ dirty' \in [Requests -> SUBSET RuleIds]
    BY <1>9, <2>1 DEF WriteRow, TypeOK
  <2> QED BY <1>9, <1>6, <2>3, <2>4, <2>5 DEF TypeOK, WriteRow, reqVars, Last
<1>10. ASSUME NEW p \in Requests, Release(p)
       PROVE  /\ locked' \in [Requests -> SUBSET RuleIds] /\ dirty' \in [Requests -> SUBSET RuleIds]
              /\ new' \in [Requests -> [RuleIds -> Int \cup {None}]]
              /\ touched' \in [Requests -> SUBSET Int]
  BY <1>10 DEF Release, TypeOK, Unwritten
<1>11. ASSUME NEW p \in Requests, StatementFails(p) PROVE TypeOK'
  BY <1>11, <1>10 DEF TypeOK, StatementFails, Goto, reqVars, Last, PC
<1>12. ASSUME NEW p \in Requests, Rollback(p) PROVE TypeOK'
  BY <1>12, <1>10 DEF TypeOK, Rollback, Goto, reqVars, Last, PC
<1>13. ASSUME NEW p \in Requests, Fault(p) PROVE TypeOK'
  BY <1>13 DEF TypeOK, Fault, Goto, reqVars, txVars, Last, PC
<1>14. ASSUME NEW p \in Requests, Commit(p) PROVE TypeOK'
  <2>1. priority' \in [RuleIds -> Int \cup {None}]
    BY <1>14 DEF Commit, View, TypeOK
  <2>2. known' \subseteq RuleIds BY <1>14 DEF Commit, TypeOK
  <2>3. conn' \subseteq Requests /\ pc' \in [Requests -> PC]
        /\ \A q \in Requests : pc'[q] \in {"lock", "write"} => pc[q] = pc'[q]
    BY <1>14 DEF Commit, TypeOK, Goto, PC
  <2> QED BY <1>14, <1>10, <2>1, <2>2, <2>3 DEF TypeOK, Commit, reqVars, Last
<1> QED
  BY <1>0, <1>1, <1>2, <1>3, <1>4, <1>5, <1>7, <1>8, <1>9, <1>11, <1>12, <1>13, <1>14
  DEF Next, Step

\* What a step does to the rows: nothing, a write, an abort or a commit.
LEMMA RowEffects ==
    ASSUME [Next]_vars
    PROVE  \/ UNCHANGED <<priority, dirty, new, touched>>
           \/ \E p \in Requests : \/ WriteRow(p)
                                  \/ Release(p) /\ UNCHANGED priority
                                  \/ Commit(p)
  BY DEF Next, vars, Create, Update, Delete, Reorder, Request, Step, Begin, NoRow, LockRow,
         StatementFails, Rollback, Fault, txVars

\* Index entries: an entry belongs to one open transaction or to none, and a
\* committed priority in it is that of a row the transaction has written.
LEMMA IndexStep ==
    IndInv /\ [Next]_vars => IndexInv'
<1> SUFFICES ASSUME IndInv, [Next]_vars PROVE IndexInv'
  OBVIOUS
<1> USE ConstAssumption DEF IndInv
<1>1. CASE UNCHANGED <<priority, dirty, new, touched>>
  BY <1>1 DEF IndexInv
<1>2. ASSUME NEW p \in Requests, WriteRow(p) PROVE IndexInv'
  <2>1. Row(p) \in RuleIds /\ Value(p) \in Int \cup {None}
        /\ (op[p] # "create" => Row(p) \in known) /\ (op[p] = "create" => Row(p) = ids[p][1])
    BY <1>2, Statement DEF WriteRow
  <2>2. \A q \in Requests \ {p} : Value(p) \notin touched[q]
    BY <1>2 DEF WriteRow, WaitsFor
  <2>3. \A r \in RuleIds \ {Row(p)} : Value(p) # None => View(p, r) # Value(p)
    BY <1>2 DEF WriteRow, Collides
  <2>4. \A q \in Requests \ {p} : Row(p) \notin locked[q] \/ op[p] = "create"
    BY <1>2, <2>1 DEF WriteRow, LockInv
  <2>5. op[p] = "create" => priority[Row(p)] = None
    BY <1>2, <2>1 DEF WriteRow, RequestInv, Creating
  <2>6. ASSUME NEW q \in Requests \ {p}, View(p, Row(p)) # None
        PROVE  View(p, Row(p)) \notin touched[q]
    <3>1. CASE Row(p) \in dirty[p]
      BY <3>1, <2>6, <2>1 DEF View, IndexInv
    <3>2. CASE Row(p) \notin dirty[p]
      <4>1. op[p] # "create" /\ View(p, Row(p)) = priority[Row(p)]
        BY <3>2, <2>5, <2>6 DEF View
      <4>2. Row(p) \notin dirty[q]
        BY <4>1, <2>4 DEF LockInv
      <4> QED BY <4>1, <4>2, <2>1 DEF IndexInv
    <3> QED BY <3>1, <3>2
  <2>7. /\ touched' = [touched EXCEPT ![p] = @ \cup ({View(p, Row(p)), Value(p)} \ {None})]
        /\ dirty' = [dirty EXCEPT ![p] = @ \cup {Row(p)}]
        /\ new' = [new EXCEPT ![p][Row(p)] = Value(p)]
        /\ priority' = priority
    BY <1>2 DEF WriteRow
  <2>8. \A q, s \in Requests : q # s => touched'[q] \cap touched'[s] = {}
    <3>1. touched \in [Requests -> SUBSET Int] BY DEF TypeOK
    <3>2. \A q \in Requests \ {p} : touched'[q] = touched[q] BY <2>7, <3>1
    <3>3. touched'[p] = touched[p] \cup ({View(p, Row(p)), Value(p)} \ {None}) BY <2>7, <3>1
    <3>4. \A q \in Requests \ {p} : touched'[p] \cap touched'[q] = {}
      BY <3>2, <3>3, <2>2, <2>6 DEF IndexInv
    <3> QED BY <3>2, <3>4 DEF IndexInv
  <2>9. \A q \in Requests : \A r \in dirty'[q] : new'[q][r] # None => new'[q][r] \in touched'[q]
    BY <2>7, <2>1 DEF IndexInv, TypeOK
  <2>10. \A q \in Requests, r \in RuleIds : priority'[r] \in touched'[q] => r \in dirty'[q]
    <3> SUFFICES ASSUME NEW r \in RuleIds, priority[r] \in touched'[p], r # Row(p)
                 PROVE  r \in dirty[p]
      BY <2>7, <2>1 DEF IndexInv, TypeOK
    <3>1. CASE priority[r] \in touched[p] BY <3>1 DEF IndexInv
    <3>2. CASE priority[r] = Value(p) /\ Value(p) # None BY <3>2, <2>3 DEF View
    <3>3. CASE priority[r] = View(p, Row(p)) /\ priority[r] # None
      <4>1. CASE r \in dirty[p] BY <4>1
      <4>2. CASE r \notin dirty[p]
        <5>1. View(p, r) = View(p, Row(p)) /\ View(p, r) # None BY <4>2, <3>3 DEF View
        <5> QED BY <5>1, <2>1 DEF UniqueViews
      <4> QED BY <4>1, <4>2
    <3> QED BY <2>7, <3>1, <3>2, <3>3 DEF TypeOK
  <2> QED BY <2>8, <2>9, <2>10 DEF IndexInv
<1>3. ASSUME NEW p \in Requests, Release(p), UNCHANGED priority PROVE IndexInv'
  BY <1>3 DEF Release, IndexInv, TypeOK
<1>4. ASSUME NEW p \in Requests, Commit(p) PROVE IndexInv'
  <2>1. \A r \in RuleIds : priority'[r] = View(p, r)
    BY <1>4 DEF Commit
  <2>2. Release(p)
    BY <1>4 DEF Commit
  <2>3. \A q \in Requests, r \in RuleIds : priority'[r] \in touched'[q] => r \in dirty'[q]
    <3> SUFFICES ASSUME NEW q \in Requests \ {p}, NEW r \in RuleIds, View(p, r) \in touched[q]
                 PROVE  r \in dirty[q]
      BY <2>1, <2>2 DEF Release, TypeOK
    <3>1. CASE r \in dirty[p]
      <4>1. new[p][r] \in touched[q] /\ new[p][r] # None BY <3>1 DEF View, TypeOK
      <4> QED BY <4>1, <3>1 DEF IndexInv
    <3>2. CASE r \notin dirty[p] BY <3>2 DEF View, IndexInv
    <3> QED BY <3>1, <3>2
  <2> QED BY <2>2, <2>3 DEF Release, IndexInv, TypeOK
<1> QED BY <1>1, <1>2, <1>3, <1>4, RowEffects

\* UNIQUE (priority), in the committed table and in every transaction's view.
LEMMA UniqueStep ==
    IndInv /\ [Next]_vars => UniquePriorities' /\ UniqueViews'
<1> SUFFICES ASSUME IndInv, [Next]_vars PROVE UniquePriorities' /\ UniqueViews'
  OBVIOUS
<1> USE ConstAssumption DEF IndInv
<1>1. CASE UNCHANGED <<priority, dirty, new, touched>>
  BY <1>1 DEF UniquePriorities, UniqueViews, View
<1>2. ASSUME NEW p \in Requests, WriteRow(p) PROVE UniquePriorities' /\ UniqueViews'
  <2>1. Row(p) \in RuleIds BY <1>2, Statement DEF WriteRow
  <2>2. \A q \in Requests, r \in RuleIds :
            View(q, r)' = IF q = p /\ r = Row(p) THEN Value(p) ELSE View(q, r)
    BY <1>2, <2>1 DEF WriteRow, View, TypeOK
  <2>3. \A r \in RuleIds \ {Row(p)} : Value(p) # None => View(p, r) # Value(p)
    BY <1>2 DEF WriteRow, Collides
  <2>4. UniqueViews' BY <2>1, <2>2, <2>3 DEF UniqueViews
  <2> QED BY <1>2, <2>4 DEF UniquePriorities, WriteRow
<1>3. ASSUME NEW p \in Requests, Release(p), UNCHANGED priority
      PROVE  UniquePriorities' /\ UniqueViews'
  <2>1. \A q \in Requests, r \in RuleIds :
            View(q, r)' = IF q = p THEN priority[r] ELSE View(q, r)
    BY <1>3 DEF Release, View, TypeOK
  <2> QED BY <1>3, <2>1 DEF UniquePriorities, UniqueViews
<1>4. ASSUME NEW p \in Requests, Commit(p) PROVE UniquePriorities' /\ UniqueViews'
  <2>1. \A r \in RuleIds : priority'[r] = View(p, r)
    BY <1>4 DEF Commit
  <2>2. UniquePriorities'
    BY <2>1 DEF UniquePriorities, UniqueViews
  <2>3. \A q \in Requests, r \in RuleIds :
            View(q, r)' = IF q # p /\ r \in dirty[q] THEN new[q][r] ELSE View(p, r)
    BY <1>4, <2>1 DEF Commit, Release, View, TypeOK
  <2>4. ASSUME NEW q \in Requests \ {p}, NEW r \in dirty[q], NEW s \in RuleIds \ dirty[q],
               new[q][r] # None
        PROVE  new[q][r] # View(p, s)
    <3>1. r \in RuleIds /\ new[q][r] \in touched[q] BY <2>4 DEF IndexInv, TypeOK
    <3>2. CASE s \in dirty[p]
      <4> SUFFICES ASSUME new[q][r] = new[p][s] PROVE FALSE BY <3>2 DEF View
      <4>1. new[p][s] \in touched[p] BY <2>4, <3>2 DEF IndexInv
      <4> QED BY <4>1, <3>1 DEF IndexInv
    <3>3. CASE s \notin dirty[p]
      <4>1. View(p, s) = View(q, s) /\ View(q, r) = new[q][r] BY <3>3, <2>4 DEF View
      <4> QED BY <4>1, <3>1, <2>4 DEF UniqueViews
    <3> QED BY <3>2, <3>3
  <2>5. UniqueViews'
    <3> SUFFICES ASSUME NEW q \in Requests, NEW r \in RuleIds, NEW s \in RuleIds,
                        View(q, r)' = View(q, s)', View(q, r)' # None
                 PROVE  r = s
      BY DEF UniqueViews
    <3>1. CASE q = p
      <4>1. View(p, r) = View(p, s) /\ View(p, r) # None BY <3>1, <2>3
      <4> QED BY <4>1 DEF UniqueViews
    <3>2. CASE q # p
      <4>1. CASE r \in dirty[q] /\ s \in dirty[q]
        BY <4>1, <3>2, <2>3 DEF UniqueViews, View
      <4>2. CASE r \notin dirty[q] /\ s \notin dirty[q]
        BY <4>2, <3>2, <2>3 DEF UniqueViews
      <4>3. CASE r \in dirty[q] /\ s \notin dirty[q]
        BY <4>3, <3>2, <2>3, <2>4
      <4>4. CASE r \notin dirty[q] /\ s \in dirty[q]
        BY <4>4, <3>2, <2>3, <2>4
      <4> QED BY <4>1, <4>2, <4>3, <4>4
    <3> QED BY <3>1, <3>2
  <2> QED BY <2>2, <2>5
<1> QED BY <1>1, <1>2, <1>3, <1>4, RowEffects

\* Requests: their arguments stay as the handler passed them, and an id that
\* is being inserted is known to nobody else.
LEMMA RequestStep ==
    IndInv /\ [Next]_vars => RequestInv'
<1> SUFFICES ASSUME IndInv, [Next]_vars PROVE RequestInv'
  OBVIOUS
<1> USE ConstAssumption DEF IndInv
<1>0. CASE UNCHANGED vars
  BY <1>0 DEF RequestInv, Creating, vars
<1>1. ASSUME NEW p \in Requests, Create(p) PROVE RequestInv'
  BY <1>1 DEF Create, Request, Goto, txVars, RequestInv, Creating, TypeOK
<1>2. ASSUME NEW p \in Requests, Update(p) PROVE RequestInv'
  BY <1>2 DEF Update, Request, Goto, txVars, RequestInv, Creating, TypeOK
<1>3. ASSUME NEW p \in Requests, Delete(p) PROVE RequestInv'
  BY <1>3 DEF Delete, Request, Goto, txVars, RequestInv, Creating, TypeOK
<1>4. ASSUME NEW p \in Requests, Reorder(p) PROVE RequestInv'
  BY <1>4 DEF Reorder, Request, Goto, txVars, RequestInv, Creating, TypeOK
<1>5. ASSUME NEW p \in Requests, Begin(p) PROVE RequestInv'
  BY <1>5 DEF Begin, Goto, reqVars, txVars, RequestInv, Creating, TypeOK
<1>6. ASSUME NEW p \in Requests, NoRow(p) PROVE RequestInv'
  BY <1>6 DEF NoRow, Advance, Goto, reqVars, txVars, RequestInv, Creating, TypeOK
<1>7. ASSUME NEW p \in Requests, LockRow(p) PROVE RequestInv'
  BY <1>7 DEF LockRow, Goto, reqVars, RequestInv, Creating, TypeOK
<1>8. ASSUME NEW p \in Requests, WriteRow(p) PROVE RequestInv'
  BY <1>8 DEF WriteRow, Advance, Goto, reqVars, RequestInv, Creating, TypeOK, Last
<1>9. ASSUME NEW p \in Requests, StatementFails(p) PROVE RequestInv'
  <2>1. pc[p] \in {"lock", "write"}
    BY <1>9 DEF StatementFails, Deadlocked, WaitsFor
  <2> QED BY <1>9, <2>1 DEF StatementFails, Release, Goto, reqVars, RequestInv, Creating, TypeOK
<1>10. ASSUME NEW p \in Requests, Rollback(p) PROVE RequestInv'
  BY <1>10 DEF Rollback, Release, Goto, reqVars, RequestInv, Creating, TypeOK
<1>11. ASSUME NEW p \in Requests, Fault(p) PROVE RequestInv'
  BY <1>11 DEF Fault, Goto, reqVars, txVars, RequestInv, Creating, TypeOK
<1>12. ASSUME NEW p \in Requests, Commit(p) PROVE RequestInv'
  <2>1. \A r \in RuleIds : priority'[r] # None => r \in known'
    BY <1>12 DEF Commit, View, RequestInv, TypeOK
  <2>2. \A q \in Requests : Creating(q)' => Creating(q) /\ q # p
    BY <1>12 DEF Commit, Release, Goto, reqVars, Creating, TypeOK
  <2>3. ASSUME NEW q \in Requests \ {p}, Creating(q) PROVE ids[q][1] \notin dirty[p]
    <3>1. PICK r \in RuleIds : ids[q] = <<r>>
      BY <2>3 DEF RequestInv, Creating
    <3>2. r \notin known /\ priority[r] = None
      BY <2>3, <3>1 DEF RequestInv
    <3>3. op[p] = "create" => r # ids[p][1]
      BY <2>3, <3>1 DEF RequestInv, Creating
    <3> QED BY <3>1, <3>2, <3>3 DEF LockInv
  <2>4. \A q \in Requests : Creating(q)' => ids'[q][1] \notin known'
    BY <1>12, <2>2, <2>3 DEF Commit, reqVars, RequestInv
  <2>5. known \subseteq known'
    BY <1>12 DEF Commit
  <2> QED
    BY <1>12, <2>1, <2>4, <2>5 DEF Commit, Release, Goto, reqVars, RequestInv, TypeOK
<1> QED
  BY <1>0, <1>1, <1>2, <1>3, <1>4, <1>5, <1>6, <1>7, <1>8, <1>9, <1>10, <1>11, <1>12
  DEF Next, Step

\* Row locks: no two transactions hold the same row, and what one has written
\* it has locked.
LEMMA LockStep ==
    IndInv /\ [Next]_vars => LockInv'
<1> SUFFICES ASSUME IndInv, [Next]_vars PROVE LockInv'
  OBVIOUS
<1> USE ConstAssumption DEF IndInv
<1>0. CASE UNCHANGED vars
  BY <1>0 DEF LockInv, vars, Row, RowAt
<1>r. ASSUME NEW p \in Requests, NEW o, NEW list, NEW v, Request(p, o, list, v) PROVE LockInv'
  BY <1>r DEF Request, Goto, txVars, LockInv, RequestInv, Row, RowAt, TypeOK
<1>5. ASSUME NEW p \in Requests, Begin(p) PROVE LockInv'
  BY <1>5 DEF Begin, Goto, reqVars, txVars, LockInv, Row, RowAt, TypeOK
<1>6. ASSUME NEW p \in Requests, NoRow(p) PROVE LockInv'
  BY <1>6 DEF NoRow, Advance, Goto, reqVars, txVars, LockInv, Row, RowAt, TypeOK
<1>7. ASSUME NEW p \in Requests, LockRow(p) PROVE LockInv'
  <2>1. Row(p) \in RuleIds /\ op[p] # "create" /\ \A q \in Requests \ {p} : Row(p) \notin locked[q]
    BY <1>7, Statement DEF LockRow, WaitsFor, RequestInv
  <2> QED BY <1>7, <2>1 DEF LockRow, Goto, reqVars, LockInv, Row, RowAt, TypeOK
<1>8. ASSUME NEW p \in Requests, WriteRow(p) PROVE LockInv'
  <2>1. Row(p) \in RuleIds /\ (op[p] = "create" => Row(p) = ids[p][1])
    BY <1>8, Statement DEF WriteRow
  <2>2. \A q \in Requests \ {p} : Row(p) \notin locked[q]
    BY <1>8, <2>1 DEF WriteRow, LockInv, RequestInv, Creating
  <2> QED
    BY <1>8, <2>1, <2>2 DEF WriteRow, Advance, Goto, reqVars, LockInv, Row, RowAt, TypeOK
<1>9. ASSUME NEW p \in Requests, StatementFails(p) PROVE LockInv'
  BY <1>9 DEF StatementFails, Release, Goto, reqVars, LockInv, Row, RowAt, TypeOK
<1>10. ASSUME NEW p \in Requests, Rollback(p) PROVE LockInv'
  BY <1>10 DEF Rollback, Release, Goto, reqVars, LockInv, Row, RowAt, TypeOK
<1>11. ASSUME NEW p \in Requests, Fault(p) PROVE LockInv'
  BY <1>11 DEF Fault, Goto, reqVars, txVars, LockInv, Row, RowAt, TypeOK
<1>12. ASSUME NEW p \in Requests, Commit(p) PROVE LockInv'
  <2>1. \A q \in Requests \ {p}, r \in RuleIds : r \in locked[q] => priority'[r] = priority[r]
    BY <1>12 DEF Commit, View, LockInv
  <2> QED
    BY <1>12, <2>1 DEF Commit, Release, Goto, reqVars, LockInv, Row, RowAt, TypeOK
<1> QED
  BY <1>0, <1>r, <1>5, <1>6, <1>7, <1>8, <1>9, <1>10, <1>11, <1>12
  DEF Next, Step, Create, Update, Delete, Reorder

\* The inductive invariant of RuleStore.
THEOREM IndInvHolds == Spec => []IndInv
<1>1. Init => IndInv
  <2> SUFFICES ASSUME Init PROVE IndInv
    OBVIOUS
  <2> USE ConstAssumption DEF Init
  <2>1. priority \in [RuleIds -> Int \cup {None}] /\ UniquePriorities
    BY DEF UniquePriorities
  <2>2. TypeOK
    BY <2>1 DEF TypeOK, Unwritten, PC, Ops
  <2>3. RequestInv
    BY DEF RequestInv, Creating
  <2>4. LockInv /\ IndexInv
    BY DEF LockInv, IndexInv
  <2>5. UniqueViews
    BY <2>1 DEF UniqueViews, UniquePriorities, View
  <2> QED BY <2>1, <2>2, <2>3, <2>4, <2>5 DEF IndInv
<1>2. IndInv /\ [Next]_vars => IndInv'
  BY TypeStep, RequestStep, LockStep, IndexStep, UniqueStep DEF IndInv
<1> QED BY <1>1, <1>2, PTL DEF Spec

\* A request whose own state does not change keeps its place, whatever a
\* commit of another one does to the table.
LEMMA PassOther ==
    ASSUME IndInv, PassInv, [Next]_vars, NEW q \in Requests,
           pc'[q] = pc[q], op'[q] = op[q], ids'[q] = ids[q], arg'[q] = arg[q], k'[q] = k[q],
           dirty'[q] = dirty[q], new'[q] = new[q],
           priority' = priority \/ \E p \in Requests \ {q} : Commit(p)
    PROVE  Pass(q)'
<1> USE DEF IndInv
<1>1. /\ Last(q)' = Last(q)
      /\ \A n : RowAt(q, n)' = RowAt(q, n)
      /\ \A n : ValueAt(q, n)' = ValueAt(q, n)
  BY DEF Last, RowAt, ValueAt
<1>2. ASSUME pc[q] \in {"lock", "write", "commit"}, op[q] # "create", NEW n \in 1..(k[q] - 1),
             priority'[RowAt(q, n)] # None
      PROVE  priority[RowAt(q, n)] # None
  <2>1. Last(q) \in Nat /\ n \in 1..Last(q)
    BY <1>2 DEF TypeOK, Last, PassInv, Pass
  <2>2. RowAt(q, n) \in RuleIds /\ RowAt(q, n) \in known
    BY <2>1, <1>2, Statements
  <2>3. CASE priority' = priority BY <2>3, <1>2
  <2>4. ASSUME NEW p \in Requests \ {q}, Commit(p) PROVE priority[RowAt(q, n)] # None
    <3>1. priority'[RowAt(q, n)] = View(p, RowAt(q, n)) /\ pc[p] = "commit"
      BY <2>4, <2>2 DEF Commit
    <3>2. CASE RowAt(q, n) \in dirty[p]
      BY <3>1, <3>2, <2>2 DEF LockInv, RequestInv, Creating
    <3>3. CASE RowAt(q, n) \notin dirty[p] BY <3>1, <3>3, <1>2 DEF View
    <3> QED BY <3>2, <3>3
  <2> QED BY <2>3, <2>4
<1>3. Pass(q) BY DEF PassInv
<1> QED BY <1>1, <1>2, <1>3 DEF Pass

\* Where a transaction is in its list: what it has written so far, and with
\* which of its statements.
LEMMA PassStep ==
    IndInv /\ PassInv /\ [Next]_vars => PassInv'
<1> SUFFICES ASSUME IndInv, PassInv, [Next]_vars, NEW q \in Requests PROVE Pass(q)'
  BY DEF PassInv
<1> USE DEF IndInv
<1>p. Pass(q) BY DEF PassInv
<1>0. CASE UNCHANGED vars
  BY <1>0, PassOther DEF vars
<1>r. ASSUME NEW p \in Requests, NEW o, NEW list, NEW v, Request(p, o, list, v) PROVE Pass(q)'
  <2>1. CASE q = p BY <2>1, <1>r DEF Request, Goto, Pass, TypeOK
  <2>2. CASE q # p BY <2>2, <1>r, PassOther DEF Request, Goto, txVars, TypeOK
  <2> QED BY <2>1, <2>2
<1>5. ASSUME NEW p \in Requests, Begin(p) PROVE Pass(q)'
  <2>1. CASE q = p
    <3>1. dirty'[q] = {} /\ k'[q] = 1
      BY <2>1, <1>5 DEF Begin, txVars, LockInv, RequestInv
    <3>2. pc'[q] = "commit" => Last(q)' = 0
      BY <2>1, <1>5 DEF Begin, Goto, reqVars, Last, TypeOK
    <3> QED BY <3>1, <3>2 DEF Pass
  <2>2. CASE q # p BY <2>2, <1>5, PassOther DEF Begin, Goto, reqVars, txVars, TypeOK
  <2> QED BY <2>1, <2>2
<1>6. ASSUME NEW p \in Requests, Advance(p), UNCHANGED reqVars, pc[p] \in {"lock", "write"}
      PROVE  /\ k'[p] = k[p] + 1 /\ k[p] \in Nat \ {0} /\ pc'[p] \in {"lock", "commit"}
             /\ pc'[p] = "commit" => k'[p] = Last(p)' + 1
             /\ \A n : RowAt(p, n)' = RowAt(p, n) /\ ValueAt(p, n)' = ValueAt(p, n)
  <2>1. Last(p) \in Nat /\ k[p] <= Last(p) BY <1>6 DEF TypeOK, Last
  <2>2. Last(p)' = Last(p) BY <1>6 DEF Last, reqVars
  <2>3. \A n : RowAt(p, n)' = RowAt(p, n) /\ ValueAt(p, n)' = ValueAt(p, n)
    BY <1>6 DEF RowAt, ValueAt, reqVars
  <2> QED BY <1>6, <2>1, <2>2, <2>3 DEF Advance, Goto, TypeOK
<1>7. ASSUME NEW p \in Requests, NoRow(p) PROVE Pass(q)'
  <2>1. CASE q = p
    <3>1. \A r \in dirty[q] : r # RowAt(q, k[q])
      BY <2>1, <1>7 DEF NoRow, LockInv, RequestInv, Row
    <3>2. priority' = priority /\ dirty' = dirty /\ new' = new /\ op' = op /\ priority[RowAt(q, k[q])] = None
      BY <2>1, <1>7 DEF NoRow, reqVars, txVars, Row
    <3>3. pc[q] = "lock" BY <2>1, <1>7 DEF NoRow
    <3>4. Advance(q) /\ UNCHANGED reqVars
      BY <2>1, <1>7 DEF NoRow
    <3>5. /\ k'[q] = k[q] + 1 /\ k[q] \in Nat \ {0} /\ pc'[q] \in {"lock", "commit"}
          /\ pc'[q] = "commit" => k'[q] = Last(q)' + 1
          /\ \A n : RowAt(q, n)' = RowAt(q, n) /\ ValueAt(q, n)' = ValueAt(q, n)
      BY <3>3, <3>4, <1>6
    <3>6. \A n \in 1..(k'[q] - 1) :
              op'[q] # "create" /\ priority'[RowAt(q, n)] # None => RowAt(q, n) \in dirty'[q]
      BY <3>2, <3>3, <3>5, <1>p DEF Pass
    <3>7. ASSUME NEW r \in dirty'[q]
          PROVE  \E n \in 1..(k'[q] - 1) : /\ RowAt(q, n) = r /\ new'[q][r] = ValueAt(q, n)
                                           /\ \A m \in (n + 1)..(k'[q] - 1) : RowAt(q, m) # r
      <4>1. PICK n \in 1..(k[q] - 1) : /\ RowAt(q, n) = r /\ new[q][r] = ValueAt(q, n)
                                       /\ \A m \in (n + 1)..(k[q] - 1) : RowAt(q, m) # r
        BY <3>2, <3>3, <3>7, <1>p DEF Pass
      <4> QED BY <4>1, <3>1, <3>2, <3>5, <3>7
    <3> QED BY <3>5, <3>6, <3>7 DEF Pass
  <2>2. CASE q # p BY <2>2, <1>7, PassOther DEF NoRow, Advance, Goto, reqVars, txVars, TypeOK
  <2> QED BY <2>1, <2>2
<1>8. ASSUME NEW p \in Requests, LockRow(p) PROVE Pass(q)'
  <2>1. CASE q = p
    BY <2>1, <1>8, <1>p DEF LockRow, Goto, reqVars, Pass, Last, RowAt, ValueAt, TypeOK
  <2>2. CASE q # p BY <2>2, <1>8, PassOther DEF LockRow, Goto, reqVars, TypeOK
  <2> QED BY <2>1, <2>2
<1>9. ASSUME NEW p \in Requests, WriteRow(p) PROVE Pass(q)'
  <2>1. CASE q = p
    <3>1. priority' = priority /\ op' = op /\ pc[q] = "write"
      BY <2>1, <1>9 DEF WriteRow, reqVars
    <3>2. dirty'[q] = dirty[q] \cup {RowAt(q, k[q])}
      BY <2>1, <1>9 DEF WriteRow, Row, TypeOK
    <3>3. RowAt(q, k[q]) \in RuleIds
      BY <3>1, Statement DEF Row
    <3>4. /\ new'[q][RowAt(q, k[q])] = ValueAt(q, k[q])
          /\ \A r \in dirty[q] : r # RowAt(q, k[q]) => new'[q][r] = new[q][r]
      BY <2>1, <1>9, <3>3 DEF WriteRow, Row, Value, TypeOK
    <3>5. Advance(q) /\ UNCHANGED reqVars
      BY <2>1, <1>9 DEF WriteRow
    <3>6. /\ k'[q] = k[q] + 1 /\ k[q] \in Nat \ {0} /\ pc'[q] \in {"lock", "commit"}
          /\ pc'[q] = "commit" => k'[q] = Last(q)' + 1
          /\ \A n : RowAt(q, n)' = RowAt(q, n) /\ ValueAt(q, n)' = ValueAt(q, n)
      BY <3>1, <3>5, <1>6
    <3>7. \A n \in 1..(k'[q] - 1) :
              op'[q] # "create" /\ priority'[RowAt(q, n)] # None => RowAt(q, n) \in dirty'[q]
      BY <3>1, <3>2, <3>6, <1>p DEF Pass
    <3>8. ASSUME NEW r \in dirty'[q]
          PROVE  \E n \in 1..(k'[q] - 1) : /\ RowAt(q, n) = r /\ new'[q][r] = ValueAt(q, n)
                                           /\ \A m \in (n + 1)..(k'[q] - 1) : RowAt(q, m) # r
      <4>1. CASE r = RowAt(q, k[q]) BY <4>1, <3>4, <3>6
      <4>2. CASE r # RowAt(q, k[q])
        <5>1. PICK n \in 1..(k[q] - 1) : /\ RowAt(q, n) = r /\ new[q][r] = ValueAt(q, n)
                                         /\ \A m \in (n + 1)..(k[q] - 1) : RowAt(q, m) # r
          BY <4>2, <3>1, <3>2, <3>8, <1>p DEF Pass
        <5> QED BY <4>2, <5>1, <3>2, <3>4, <3>6, <3>8
      <4> QED BY <4>1, <4>2
    <3> QED BY <3>6, <3>7, <3>8 DEF Pass
  <2>2. CASE q # p
    BY <2>2, <1>9, PassOther DEF WriteRow, Advance, Goto, reqVars, TypeOK
  <2> QED BY <2>1, <2>2
<1>10. ASSUME NEW p \in Requests, StatementFails(p) PROVE Pass(q)'
  <2>1. CASE q = p BY <2>1, <1>10 DEF StatementFails, Goto, Pass, TypeOK
  <2>2. CASE q # p BY <2>2, <1>10, PassOther DEF StatementFails, Release, Goto, reqVars, TypeOK
  <2> QED BY <2>1, <2>2
<1>11. ASSUME NEW p \in Requests, Rollback(p) PROVE Pass(q)'
  <2>1. CASE q = p BY <2>1, <1>11 DEF Rollback, Goto, Pass, TypeOK
  <2>2. CASE q # p BY <2>2, <1>11, PassOther DEF Rollback, Release, Goto, reqVars, TypeOK
  <2> QED BY <2>1, <2>2
<1>12. ASSUME NEW p \in Requests, Fault(p) PROVE Pass(q)'
  <2>1. CASE q = p BY <2>1, <1>12 DEF Fault, Goto, Pass, TypeOK
  <2>2. CASE q # p BY <2>2, <1>12, PassOther DEF Fault, Goto, reqVars, txVars, TypeOK
  <2> QED BY <2>1, <2>2
<1>13. ASSUME NEW p \in Requests, Commit(p) PROVE Pass(q)'
  <2>1. CASE q = p BY <2>1, <1>13 DEF Commit, Goto, Pass, TypeOK
  <2>2. CASE q # p BY <2>2, <1>13, PassOther DEF Commit, Release, Goto, reqVars, TypeOK
  <2> QED BY <2>1, <2>2
<1> QED
  BY <1>0, <1>r, <1>5, <1>7, <1>8, <1>9, <1>10, <1>11, <1>12, <1>13
  DEF Next, Step, Create, Update, Delete, Reorder

\* TypeOK: the variables keep their types, whatever requests run at once.
THEOREM TypeCorrect == Spec => []TypeOK
  BY IndInvHolds, PTL DEF IndInv

\* UniquePriorities: concurrent requests never make the order ambiguous.
THEOREM UniquePrioritiesHolds == Spec => []UniquePriorities
  BY IndInvHolds, PTL DEF IndInv

\* Both invariants together.
THEOREM PassInvHolds == Spec => [](IndInv /\ PassInv)
<1>1. Init => PassInv
  BY DEF Init, PassInv, Pass
<1> QED BY <1>1, IndInvHolds, PassStep, PTL DEF Spec

\* NoSelfCollision: a write of Reorder collides with a rule of its own list only
\* if that rule came with a negative priority and is not moved yet.
THEOREM NoSelfCollisionHolds == Spec => []NoSelfCollision
<1>1. IndInv /\ PassInv => NoSelfCollision
  <2> SUFFICES ASSUME IndInv, PassInv, NEW p \in Requests, pc[p] = "write", op[p] = "reorder",
                      NEW i \in DOMAIN ids[p], Collides(p, ids[p][i])
               PROVE  ids[p][i] \notin dirty[p] /\ priority[ids[p][i]] < 0
    BY DEF NoSelfCollision
  <2> DEFINE L == Len(ids[p])
             r == ids[p][i]
  <2>1. ids[p] \in Seq(RuleIds) /\ L \in Nat /\ k[p] \in Nat \ {0} /\ k[p] <= 2 * L /\ i \in 1..L
        /\ r \in RuleIds
    BY DEF IndInv, TypeOK, Last
  <2>2. \A n \in Nat : ValueAt(p, n) = IF n <= L THEN -n ELSE 10 * (n - L)
    BY DEF ValueAt
  <2>3. View(p, r) = ValueAt(p, k[p])
    BY DEF Collides, Value
  <2>4. r \notin dirty[p]
    <3> SUFFICES ASSUME r \in dirty[p] PROVE FALSE OBVIOUS
    <3>1. PICK n \in 1..(k[p] - 1) : new[p][r] = ValueAt(p, n)
      BY DEF PassInv, Pass
    <3>2. ValueAt(p, n) = ValueAt(p, k[p]) BY <3>1, <2>3 DEF View
    <3>3. n \in Nat /\ n < k[p] BY <2>1
    <3>4. CASE k[p] <= L
      <4>0. k[p] \in Nat /\ n <= L BY <3>3, <3>4, <2>1
      <4>1. ValueAt(p, n) = -n BY <3>3, <4>0, <2>2
      <4>2. ValueAt(p, k[p]) = -k[p] BY <3>4, <4>0, <2>2
      <4> QED BY <4>1, <4>2, <3>2, <3>3, <2>1
    <3>5. CASE n > L
      <4>0. k[p] \in Nat /\ ~(n <= L) /\ ~(k[p] <= L) BY <3>3, <3>5, <2>1
      <4>1. ValueAt(p, n) = 10 * (n - L) BY <3>3, <4>0, <2>2
      <4>2. ValueAt(p, k[p]) = 10 * (k[p] - L) BY <4>0, <2>2
      <4> QED BY <4>1, <4>2, <3>2, <3>3, <2>1
    <3>6. CASE n <= L /\ k[p] > L
      <4>0. k[p] \in Nat /\ ~(k[p] <= L) BY <3>6, <2>1
      <4>1. ValueAt(p, n) = -n BY <3>3, <3>6, <2>2
      <4>2. ValueAt(p, k[p]) = 10 * (k[p] - L) BY <4>0, <2>2
      <4> QED BY <4>1, <4>2, <3>2, <3>3, <3>6, <2>1
    <3> QED BY <3>3, <3>4, <3>5, <3>6, <2>1
  <2>5. priority[r] = ValueAt(p, k[p]) BY <2>3, <2>4 DEF View
  <2>6. k[p] <= L
    <3> SUFFICES ASSUME k[p] > L PROVE FALSE BY <2>1
    <3>1. i \in 1..(k[p] - 1) /\ RowAt(p, i) = r BY <2>1 DEF RowAt
    <3>2. priority[r] = None
      BY <3>1, <2>4 DEF PassInv, Pass
    <3>3. ValueAt(p, k[p]) \in Int
      <4>1. k[p] \in Nat /\ ~(k[p] <= L) BY <2>1
      <4>2. ValueAt(p, k[p]) = 10 * (k[p] - L) BY <4>1, <2>2
      <4> HIDE DEF L
      <4> QED BY <4>1, <4>2, <2>1
    <3> QED BY <3>2, <3>3, <2>5, ConstAssumption
  <2>7. ValueAt(p, k[p]) = -k[p]
    <3>1. k[p] \in Nat BY <2>1
    <3> QED BY <3>1, <2>2, <2>6
  <2> QED BY <2>1, <2>4, <2>5, <2>7
<1> QED BY <1>1, PassInvHolds, PTL

\* AllOrNothing: no reader ever sees a part of a reorder.
THEOREM AllOrNothingHolds == Spec => AllOrNothing
<1>1. ASSUME IndInv, PassInv, [Next]_vars, priority' # priority
      PROVE  \E p \in Requests : pc[p] = "commit" /\ WholeRequest(p)
  <2> USE DEF IndInv
  <2>1. PICK p \in Requests : Commit(p)
    BY <1>1, RowEffects DEF WriteRow
  <2>2. pc[p] = "commit" /\ \A r \in RuleIds : priority'[r] = View(p, r)
    BY <2>1 DEF Commit
  <2> SUFFICES WholeRequest(p)
    BY <2>2
  <2>3. CASE op[p] # "reorder"
    <3>1. Last(p) = 1 BY <2>3 DEF Last
    <3>2. \A r \in dirty[p] : r = RowAt(p, 1)
      BY <1>1, <2>2, <3>1 DEF PassInv, Pass
    <3>3. op[p] \in {"create", "update", "delete"}
      BY <1>1, <2>2, <2>3 DEF RequestInv, TypeOK, Ops
    <3>4. PICK r \in RuleIds : ids[p] = <<r>>
      BY <1>1, <3>3 DEF RequestInv
    <3>5. RowAt(p, 1) = r BY <3>4 DEF RowAt
    <3>6. \A s \in RuleIds : s # r => priority'[s] = priority[s] BY <2>2, <3>2, <3>5 DEF View
    <3> QED BY <2>3, <3>4, <3>6 DEF WholeRequest, Moves
  <2>4. CASE op[p] = "reorder"
    <3> SUFFICES ASSUME NEW r \in RuleIds
                 PROVE  /\ Moves(p, r) => Wanted(p, r, priority'[r])
                        /\ ~Moves(p, r) => priority'[r] = priority[r]
      BY DEF WholeRequest
    <3> DEFINE L == Len(ids[p])
    <3>1. L \in Nat /\ DOMAIN ids[p] = 1..L /\ Last(p) = 2 * L /\ k[p] = 2 * L + 1
      BY <1>1, <2>2, <2>4 DEF TypeOK, Last, PassInv, Pass
    <3>2. \A n \in 1..(2 * L) : RowAt(p, n) = IF n <= L THEN ids[p][n] ELSE ids[p][n - L]
      BY DEF RowAt
    <3>3. CASE r \in dirty[p]
      <4>1. PICK n \in 1..(2 * L) : /\ RowAt(p, n) = r /\ new[p][r] = ValueAt(p, n)
                                    /\ \A m \in (n + 1)..(2 * L) : RowAt(p, m) # r
        <5>1. \E n \in 1..(k[p] - 1) : /\ RowAt(p, n) = r /\ new[p][r] = ValueAt(p, n)
                                       /\ \A m \in (n + 1)..(k[p] - 1) : RowAt(p, m) # r
          BY <1>1, <2>2, <3>3 DEF PassInv, Pass
        <5>2. k[p] - 1 = 2 * L BY <3>1
        <5> QED BY <5>1, <5>2
      <4>2. n > L
        <5> SUFFICES ASSUME n <= L PROVE FALSE BY <3>1
        <5>1. n + L \in (n + 1)..(2 * L) /\ n + L \in 1..(2 * L) BY <3>1
        <5>2. RowAt(p, n + L) = r BY <3>1, <3>2, <4>1, <5>1
        <5> QED BY <4>1, <5>1, <5>2
      <4>3. n - L \in Places(p, r) BY <3>1, <3>2, <4>1, <4>2 DEF Places
      <4>4. \A m \in Places(p, r) : m <= n - L
        <5> SUFFICES ASSUME NEW m \in Places(p, r), m > n - L PROVE FALSE BY <3>1 DEF Places
        <5>1. m \in 1..L /\ ids[p][m] = r BY <3>1 DEF Places
        <5>2. m + L \in (n + 1)..(2 * L) /\ RowAt(p, m + L) = r BY <3>1, <3>2, <5>1
        <5> QED BY <4>1, <5>2
      <4>5. priority'[r] = 10 * (n - L) BY <2>2, <2>4, <3>1, <3>3, <4>1, <4>2 DEF ValueAt, View
      <4>6. priority[r] # None BY <1>1, <3>3, <2>4 DEF LockInv
      <4> QED BY <2>4, <4>3, <4>4, <4>5, <4>6 DEF Wanted, Moves
    <3>4. CASE r \notin dirty[p]
      <4>1. ASSUME NEW n \in Places(p, r) PROVE priority[r] = None
        <5>1. n \in 1..(k[p] - 1) /\ RowAt(p, n) = r BY <3>1, <3>2, <4>1 DEF Places
        <5> QED BY <5>1, <1>1, <2>2, <2>4, <3>4 DEF PassInv, Pass
      <4> QED BY <2>2, <3>4, <4>1 DEF View, Moves
    <3> QED BY <3>3, <3>4
  <2> QED BY <2>3, <2>4
<1> QED BY <1>1, PassInvHolds, PTL DEF Spec, AllOrNothing
=============================================================================
