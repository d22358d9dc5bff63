------------------------- MODULE DiscoveryJobProofs -------------------------
(* Proofs about DiscoveryJob, for every set of jobs, hosts and requests. *)
EXTENDS DiscoveryJob, FiniteSetTheorems, TLAPS

-----------------------------------------------------------------------------
(* Type correctness. *)

\* No handler, goroutine step, failing statement or crash leaves the types.
LEMMA TypeStep == TypeOK /\ [Next]_vars => TypeOK'
<1> SUFFICES ASSUME TypeOK, [Next]_vars PROVE TypeOK'
  OBVIOUS
<1> USE ConstAssumption DEF TypeOK, reqVars, UpdateStatus, LeaveToServer, Status, Terminal,
    StatusWrite, Outcomes
<1>1. ASSUME NEW j \in Jobs, Create(j) PROVE TypeOK'
  BY <1>1 DEF Create, Goto, RunnerPC
<1>2. ASSUME NEW j \in Jobs, Register(j) PROVE TypeOK'
  BY <1>2 DEF Register, Goto, dbVars, RunnerPC
<1>3. ASSUME NEW j \in Jobs, MarkRunning(j) PROVE TypeOK'
  BY <1>3 DEF MarkRunning, WriteStatus, Goto, RunnerPC
<1>4. ASSUME NEW j \in Jobs, LoadRules(j) PROVE TypeOK'
  BY <1>4 DEF LoadRules, Goto, dbVars, RunnerPC
<1>5. ASSUME NEW j \in Jobs, MarkFailed(j) PROVE TypeOK'
  BY <1>5 DEF MarkFailed, WriteStatus, Goto, RunnerPC
<1>6. ASSUME NEW j \in Jobs, Launch(j) PROVE TypeOK'
  BY <1>6 DEF Launch, Move, Goto, dbVars, RunnerPC
<1>7. ASSUME NEW j \in Jobs, Go(j) PROVE TypeOK'
  BY <1>7 DEF Go, Goto, dbVars, RunnerPC, ScanPC, Active
<1>8. ASSUME NEW j \in Jobs, Wait(j) PROVE TypeOK'
  BY <1>8 DEF Wait, Move, Goto, dbVars, RunnerPC
<1>9. ASSUME NEW j \in Jobs, WriteFinal(j) PROVE TypeOK'
  BY <1>9 DEF WriteFinal, WriteStatus, Goto, RunnerPC
<1>10. ASSUME NEW j \in Jobs, Cleanup(j) PROVE TypeOK'
  BY <1>10 DEF Cleanup, Goto, dbVars, RunnerPC
<1>11. ASSUME NEW j \in Jobs, NEW h \in Hosts, Connect(j, h) PROVE TypeOK'
  BY <1>11 DEF Connect, ScanMove, ScanGoto, SetResult, Rows, dbVars, runVars, ScanPC, Active
<1>12. ASSUME NEW j \in Jobs, NEW h \in Hosts, Get(j, h) PROVE TypeOK'
  BY <1>12 DEF Get, ScanMove, ScanGoto, SetResult, Rows, dbVars, runVars, ScanPC, Active
<1>13. ASSUME NEW j \in Jobs, NEW h \in Hosts, UpsertDiscovered(j, h) PROVE TypeOK'
  BY <1>13 DEF UpsertDiscovered, UpsertElement, ScanGoto, SetResult, Rows, runVars, ScanPC, Active
<1>14. ASSUME NEW j \in Jobs, NEW h \in Hosts, InsertResult(j, h) PROVE TypeOK'
  BY <1>14 DEF InsertResult, ScanGoto, runVars, ScanPC, Active
<1>15. ASSUME NEW j \in Jobs, NEW h \in Hosts, Assign(j, h) PROVE TypeOK'
  BY <1>15 DEF Assign, ScanGoto, dbVars, runVars, ScanPC, Active
<1>16. ASSUME NEW r \in Requests, NEW j \in Jobs, CancelGet(r, j) PROVE TypeOK'
  BY <1>16 DEF CancelGet, ReqGoto, dbVars, runVars
<1>17. ASSUME NEW r \in Requests, CancelLookup(r) PROVE TypeOK'
  BY <1>17 DEF CancelLookup, ReqGoto, dbVars, runVars
<1>18. ASSUME NEW r \in Requests, CancelCall(r) PROVE TypeOK'
  BY <1>18 DEF CancelCall, ReqGoto, dbVars
<1>19. ASSUME Crash PROVE TypeOK'
  BY <1>19 DEF Crash, RunnerPC, ScanPC
<1>20. ASSUME NEW j \in Jobs, CommitStatus(j) PROVE TypeOK'
  BY <1>20 DEF CommitStatus, runVars
<1>21. ASSUME NEW j \in Jobs, NEW h \in Hosts, CommitResult(j, h) PROVE TypeOK'
  BY <1>21 DEF CommitResult, runVars
<1>22. ASSUME NEW h \in Hosts, CommitElement(h) PROVE TypeOK'
  BY <1>22 DEF CommitElement, runVars
<1>23. CASE UNCHANGED vars
  BY <1>23 DEF vars
<1> QED
  BY <1>1, <1>2, <1>3, <1>4, <1>5, <1>6, <1>7, <1>8, <1>9, <1>10, <1>11, <1>12,
     <1>13, <1>14, <1>15, <1>16, <1>17, <1>18, <1>19, <1>20, <1>21, <1>22, <1>23
     DEF Next, RunnerStep, ScanStep, RequestStep, ServerStep

\* Every variable stays in its type for ever.
THEOREM TypeCorrect == Spec => []TypeOK
<1>1. Init => TypeOK
  BY ConstAssumption DEF Init, TypeOK, Status, RunnerPC, ScanPC
<1> QED
  BY <1>1, TypeStep, PTL DEF Spec

-----------------------------------------------------------------------------
(* The inductive invariant. *)

Early == {"idle", "register", "markRunning", "loadRules", "markFailed"}
Loop  == {"launch", "go", "wait"}
Busy  == {"loadRules", "markFailed", "writeCompleted", "writeCancelled"} \cup Loop

\* The status that a statement left to the server may bring next.
MayBring(s) == CASE s = "none"    -> {"none", "pending"}
              [] s = "pending" -> {"none", "running"}
              [] s = "running" -> {"none"} \cup Terminal
              [] OTHER         -> {"none"}

\* Where the goroutine is fixes the status, as long as no status write was
\* left to the server, and one only is while its goroutine is at that write
\* under a cancelled context, or later.  The map of cancel functions follows
\* the goroutine.
PcInv == \A j \in Jobs :
    /\ sentStatus[j] \in MayBring(status[j])
    /\ pc[j] = "idle" => status[j] = "none" /\ sentStatus[j] = "none"
    /\ status[j] = "none" => pc[j] \in {"idle", "ended"}
    /\ pc[j] = "register" \/ (pc[j] = "markRunning" /\ ~ctxDone[j]) =>
          status[j] = "pending" /\ sentStatus[j] = "none"
    /\ pc[j] = "markRunning" => status[j] \in {"pending", "running"} /\ sentStatus[j] \in {"none", "running"}
    /\ pc[j] \in Busy \ {"markFailed"} \/ (pc[j] = "markFailed" /\ ~ctxDone[j]) =>
          status[j] = "running" /\ sentStatus[j] = "none"
    /\ pc[j] = "markFailed" => status[j] \in {"running", "failed"} /\ sentStatus[j] \in {"none", "failed"}
    /\ j \in cancels <=> pc[j] \in Busy \cup {"markRunning", "cleanup"}

\* The final status that was written, or that was left to the server.
Decided(j, s) == status[j] = s \/ sentStatus[j] = s

\* The loop has started exactly the targets it has passed, and scans are in
\* flight only during the loop and g.Wait.
ScanInv == \A j \in Jobs :
    /\ pc[j] \in Early \/ Decided(j, "failed") => \A h \in Hosts : scan[j][h] = "idle"
    /\ pc[j] \in Loop => /\ todo[j] \subseteq TargetIPs[j]
                         /\ \A h \in TargetIPs[j] \ todo[j] : scan[j][h] \in Active \cup {"done"}
                         /\ \A h \in todo[j] : scan[j][h] = "idle"
    /\ pc[j] \notin Loop => \A h \in Hosts : scan[j][h] \notin Active
    /\ \A h \in Hosts \ TargetIPs[j] : scan[j][h] = "idle"
    /\ pc[j] = "wait" /\ ~ctxDone[j] => todo[j] = {}
    /\ pc[j] = "writeCompleted" \/ Decided(j, "completed") =>
          \A h \in TargetIPs[j] : scan[j][h] = "done"

\* Before its end the goroutine's context is cancelled by requests only.
CancelInv == \A j \in Jobs :
    /\ ctxDone[j] /\ pc[j] # "ended" => j \in cancelling
    /\ pc[j] = "writeCancelled" \/ Decided(j, "cancelled") => j \in cancelling

LateInv == \A j \in Jobs :
    /\ late[j] \in {0, 1}
    /\ pc[j] \in Early \cup {"go"} \/ (pc[j] = "launch" /\ ~ctxDone[j]) => late[j] = 0

\* A host's one row is written by its own scan and not before "record", or
\* was left to the server there and may appear until the server has done it.
RowInv == \A j \in Jobs, h \in Hosts :
    /\ scan[j][h] \in {"upsert", "record", "assign"} => result[j][h] \in Rows
    /\ scan[j][h] \in {"idle", "connect", "get", "upsert"} \/ (scan[j][h] = "record" /\ ~ctxDone[j])
          => results[j][h] = NoRow /\ sentResult[j][h] = NoRow
    /\ sentResult[j][h] # NoRow => results[j][h] = NoRow
    /\ "saved" \in {result[j][h], results[j][h], sentResult[j][h]} => h \in elements

\* A live context leaves no finished scan without its row, or without an
\* insert that the failing database was left with.
RowOrSent(j, h) == results[j][h] # NoRow \/ (DbFaults /\ sentResult[j][h] # NoRow)
CompleteInv == \A j \in Jobs : \A h \in TargetIPs[j] :
    /\ pc[j] \in Loop /\ ~ctxDone[j] /\ scan[j][h] \in {"assign", "done"} => RowOrSent(j, h)
    /\ pc[j] = "writeCompleted" \/ Decided(j, "completed") => RowOrSent(j, h)

IndInv == TypeOK /\ PcInv /\ ScanInv /\ CancelInv /\ LateInv /\ RowInv /\ CompleteInv

\* Every step keeps the invariant.
LEMMA IndInvStep == IndInv /\ [Next]_vars => IndInv'
<1> SUFFICES ASSUME IndInv, [Next]_vars PROVE IndInv'
  OBVIOUS
<1> USE ConstAssumption DEF IndInv, Early, Loop, Busy, Active, Terminal, Rows, NoRow, Goto,
    ScanGoto, SetResult, ReqGoto, UpdateStatus, Move, WriteStatus, ScanMove, Decided, RowOrSent, MayBring,
    Outcomes, dbVars, runVars, reqVars
<1>0. TypeOK /\ TypeOK'
  BY TypeStep
<1> USE <1>0 DEF TypeOK
<1>1. ASSUME NEW j \in Jobs, Create(j) PROVE IndInv'
  <2>1. PcInv'
    BY <1>1 DEF PcInv, Create
  <2>2. ScanInv'
    BY <1>1 DEF ScanInv, PcInv, Create
  <2>3. CancelInv'
    BY <1>1 DEF CancelInv, PcInv, Create
  <2>4. LateInv'
    BY <1>1 DEF LateInv, PcInv, Create
  <2>5. RowInv'
    BY <1>1 DEF RowInv, Create
  <2>6. CompleteInv'
    BY <1>1 DEF CompleteInv, PcInv, Create
  <2> QED
    BY <2>1, <2>2, <2>3, <2>4, <2>5, <2>6
<1>2. ASSUME NEW j \in Jobs, Register(j) PROVE IndInv'
  <2>1. PcInv'
    BY <1>2 DEF PcInv, Register
  <2>2. ScanInv'
    BY <1>2 DEF ScanInv, Register
  <2>3. CancelInv'
    BY <1>2 DEF CancelInv, Register
  <2>4. LateInv'
    BY <1>2 DEF LateInv, Register
  <2>5. RowInv'
    BY <1>2 DEF RowInv, Register
  <2>6. CompleteInv'
    BY <1>2 DEF CompleteInv, Register
  <2> QED
    BY <2>1, <2>2, <2>3, <2>4, <2>5, <2>6
<1>3. ASSUME NEW j \in Jobs, MarkRunning(j) PROVE IndInv'
  <2>1. PcInv'
    BY <1>3 DEF PcInv, MarkRunning, StatusWrite
  <2>2. ScanInv'
    BY <1>3 DEF ScanInv, PcInv, MarkRunning, StatusWrite
  <2>3. CancelInv'
    BY <1>3 DEF CancelInv, MarkRunning, StatusWrite
  <2>4. LateInv'
    BY <1>3 DEF LateInv, MarkRunning, StatusWrite
  <2>5. RowInv'
    BY <1>3 DEF RowInv, MarkRunning, StatusWrite
  <2>6. CompleteInv'
    BY <1>3 DEF CompleteInv, MarkRunning, StatusWrite
  <2> QED
    BY <2>1, <2>2, <2>3, <2>4, <2>5, <2>6
<1>4. ASSUME NEW j \in Jobs, LoadRules(j) PROVE IndInv'
  <2>1. PcInv'
    BY <1>4 DEF PcInv, LoadRules
  <2>2. ScanInv'
    BY <1>4 DEF ScanInv, LoadRules
  <2>3. CancelInv'
    BY <1>4 DEF CancelInv, LoadRules
  <2>4. LateInv'
    BY <1>4 DEF LateInv, LoadRules
  <2>5. RowInv'
    BY <1>4 DEF RowInv, LoadRules
  <2>6. CompleteInv'
    BY <1>4 DEF CompleteInv, ScanInv, LoadRules
  <2> QED
    BY <2>1, <2>2, <2>3, <2>4, <2>5, <2>6
<1>5. ASSUME NEW j \in Jobs, MarkFailed(j) PROVE IndInv'
  <2>1. PcInv'
    BY <1>5 DEF PcInv, MarkFailed
  <2>2. ScanInv'
    BY <1>5 DEF ScanInv, PcInv, MarkFailed
  <2>3. CancelInv'
    BY <1>5 DEF CancelInv, MarkFailed
  <2>4. LateInv'
    BY <1>5 DEF LateInv, MarkFailed
  <2>5. RowInv'
    BY <1>5 DEF RowInv, MarkFailed
  <2>6. CompleteInv'
    BY <1>5 DEF CompleteInv, MarkFailed
  <2> QED
    BY <2>1, <2>2, <2>3, <2>4, <2>5, <2>6
<1>6. ASSUME NEW j \in Jobs, Launch(j) PROVE IndInv'
  <2>1. PcInv'
    BY <1>6 DEF PcInv, Launch
  <2>2. ScanInv'
    BY <1>6 DEF ScanInv, Launch
  <2>3. CancelInv'
    BY <1>6 DEF CancelInv, Launch
  <2>4. LateInv'
    BY <1>6 DEF LateInv, Launch
  <2>5. RowInv'
    BY <1>6 DEF RowInv, Launch
  <2>6. CompleteInv'
    BY <1>6 DEF CompleteInv, Launch
  <2> QED
    BY <2>1, <2>2, <2>3, <2>4, <2>5, <2>6
<1>7. ASSUME NEW j \in Jobs, Go(j) PROVE IndInv'
  <2>1. PcInv'
    BY <1>7 DEF PcInv, Go
  <2>2. ScanInv'
    BY <1>7 DEF ScanInv, PcInv, Go
  <2>3. CancelInv'
    BY <1>7 DEF CancelInv, Go
  <2>4. LateInv'
    BY <1>7 DEF LateInv, Go
  <2>5. RowInv'
    BY <1>7 DEF RowInv, ScanInv, Go
  <2>6. CompleteInv'
    BY <1>7 DEF CompleteInv, Go
  <2> QED
    BY <2>1, <2>2, <2>3, <2>4, <2>5, <2>6
<1>8. ASSUME NEW j \in Jobs, Wait(j) PROVE IndInv'
  <2>1. PcInv'
    BY <1>8 DEF PcInv, Wait, Running
  <2>2. ScanInv'
    BY <1>8 DEF ScanInv, Wait, Running
  <2>3. CancelInv'
    BY <1>8 DEF CancelInv, Wait, Running
  <2>4. LateInv'
    BY <1>8 DEF LateInv, Wait, Running
  <2>5. RowInv'
    BY <1>8 DEF RowInv, Wait, Running
  <2>6. CompleteInv'
    BY <1>8 DEF CompleteInv, ScanInv, Wait, Running
  <2> QED
    BY <2>1, <2>2, <2>3, <2>4, <2>5, <2>6
<1>9. ASSUME NEW j \in Jobs, WriteFinal(j) PROVE IndInv'
  <2>1. PcInv'
    BY <1>9 DEF PcInv, WriteFinal
  <2>2. ScanInv'
    BY <1>9 DEF ScanInv, PcInv, WriteFinal
  <2>3. CancelInv'
    BY <1>9 DEF CancelInv, WriteFinal
  <2>4. LateInv'
    BY <1>9 DEF LateInv, WriteFinal
  <2>5. RowInv'
    BY <1>9 DEF RowInv, WriteFinal
  <2>6. CompleteInv'
    BY <1>9 DEF CompleteInv, WriteFinal
  <2> QED
    BY <2>1, <2>2, <2>3, <2>4, <2>5, <2>6
<1>10. ASSUME NEW j \in Jobs, Cleanup(j) PROVE IndInv'
  <2>1. PcInv'
    BY <1>10 DEF PcInv, Cleanup
  <2>2. ScanInv'
    BY <1>10 DEF ScanInv, Cleanup
  <2>3. CancelInv'
    BY <1>10 DEF CancelInv, Cleanup
  <2>4. LateInv'
    BY <1>10 DEF LateInv, Cleanup
  <2>5. RowInv'
    BY <1>10 DEF RowInv, Cleanup
  <2>6. CompleteInv'
    BY <1>10 DEF CompleteInv, Cleanup
  <2> QED
    BY <2>1, <2>2, <2>3, <2>4, <2>5, <2>6
<1>11. ASSUME NEW j \in Jobs, NEW h \in Hosts, Connect(j, h) PROVE IndInv'
  <2>1. PcInv'
    BY <1>11 DEF PcInv, Connect
  <2>2. ScanInv'
    BY <1>11 DEF ScanInv, Connect
  <2>3. CancelInv'
    BY <1>11 DEF CancelInv, Connect
  <2>4. LateInv'
    BY <1>11 DEF LateInv, Connect
  <2>5. RowInv'
    BY <1>11 DEF RowInv, Connect
  <2>6. CompleteInv'
    BY <1>11 DEF CompleteInv, RowInv, Connect
  <2> QED
    BY <2>1, <2>2, <2>3, <2>4, <2>5, <2>6
<1>12. ASSUME NEW j \in Jobs, NEW h \in Hosts, Get(j, h) PROVE IndInv'
  <2>1. PcInv'
    BY <1>12 DEF PcInv, Get
  <2>2. ScanInv'
    BY <1>12 DEF ScanInv, Get
  <2>3. CancelInv'
    BY <1>12 DEF CancelInv, Get
  <2>4. LateInv'
    BY <1>12 DEF LateInv, Get
  <2>5. RowInv'
    BY <1>12 DEF RowInv, Get
  <2>6. CompleteInv'
    BY <1>12 DEF CompleteInv, RowInv, Get
  <2> QED
    BY <2>1, <2>2, <2>3, <2>4, <2>5, <2>6
<1>13. ASSUME NEW j \in Jobs, NEW h \in Hosts, UpsertDiscovered(j, h) PROVE IndInv'
  <2>1. PcInv'
    BY <1>13 DEF PcInv, UpsertDiscovered, UpsertElement
  <2>2. ScanInv'
    BY <1>13 DEF ScanInv, UpsertDiscovered, UpsertElement
  <2>3. CancelInv'
    BY <1>13 DEF CancelInv, UpsertDiscovered, UpsertElement
  <2>4. LateInv'
    BY <1>13 DEF LateInv, UpsertDiscovered, UpsertElement
  <2>5. RowInv'
    BY <1>13 DEF RowInv, UpsertDiscovered, UpsertElement
  <2>6. CompleteInv'
    BY <1>13 DEF CompleteInv, UpsertDiscovered, UpsertElement
  <2> QED
    BY <2>1, <2>2, <2>3, <2>4, <2>5, <2>6
<1>14. ASSUME NEW j \in Jobs, NEW h \in Hosts, InsertResult(j, h) PROVE IndInv'
  <2>1. PcInv'
    BY <1>14 DEF PcInv, InsertResult
  <2>2. ScanInv'
    BY <1>14 DEF ScanInv, InsertResult
  <2>3. CancelInv'
    BY <1>14 DEF CancelInv, InsertResult
  <2>4. LateInv'
    BY <1>14 DEF LateInv, InsertResult
  <2>5. RowInv'
    BY <1>14 DEF RowInv, InsertResult
  <2>6. CompleteInv'
    BY <1>14 DEF CompleteInv, RowInv, InsertResult
  <2> QED
    BY <2>1, <2>2, <2>3, <2>4, <2>5, <2>6
<1>15. ASSUME NEW j \in Jobs, NEW h \in Hosts, Assign(j, h) PROVE IndInv'
  <2>1. PcInv'
    BY <1>15 DEF PcInv, Assign
  <2>2. ScanInv'
    BY <1>15 DEF ScanInv, Assign
  <2>3. CancelInv'
    BY <1>15 DEF CancelInv, Assign
  <2>4. LateInv'
    BY <1>15 DEF LateInv, Assign
  <2>5. RowInv'
    BY <1>15 DEF RowInv, Assign
  <2>6. CompleteInv'
    BY <1>15 DEF CompleteInv, Assign
  <2> QED
    BY <2>1, <2>2, <2>3, <2>4, <2>5, <2>6
<1>16. ASSUME NEW r \in Requests, NEW j \in Jobs, CancelGet(r, j) PROVE IndInv'
  <2>1. PcInv'
    BY <1>16 DEF PcInv, CancelGet
  <2>2. ScanInv'
    BY <1>16 DEF ScanInv, CancelGet
  <2>3. CancelInv'
    BY <1>16 DEF CancelInv, CancelGet
  <2>4. LateInv'
    BY <1>16 DEF LateInv, CancelGet
  <2>5. RowInv'
    BY <1>16 DEF RowInv, CancelGet
  <2>6. CompleteInv'
    BY <1>16 DEF CompleteInv, CancelGet
  <2> QED
    BY <2>1, <2>2, <2>3, <2>4, <2>5, <2>6
<1>17. ASSUME NEW r \in Requests, CancelLookup(r) PROVE IndInv'
  <2>1. PcInv'
    BY <1>17 DEF PcInv, CancelLookup
  <2>2. ScanInv'
    BY <1>17 DEF ScanInv, CancelLookup
  <2>3. CancelInv'
    BY <1>17 DEF CancelInv, CancelLookup
  <2>4. LateInv'
    BY <1>17 DEF LateInv, CancelLookup
  <2>5. RowInv'
    BY <1>17 DEF RowInv, CancelLookup
  <2>6. CompleteInv'
    BY <1>17 DEF CompleteInv, CancelLookup
  <2> QED
    BY <2>1, <2>2, <2>3, <2>4, <2>5, <2>6
<1>18. ASSUME NEW r \in Requests, CancelCall(r) PROVE IndInv'
  <2>1. PcInv'
    BY <1>18 DEF PcInv, CancelCall, LeaveToServer, JobContext, StatusWrite
  <2>2. ScanInv'
    BY <1>18 DEF ScanInv, PcInv, CancelCall, LeaveToServer, JobContext, StatusWrite
  <2>3. CancelInv'
    BY <1>18 DEF CancelInv, PcInv, CancelCall, LeaveToServer, JobContext, StatusWrite
  <2>4. LateInv'
    BY <1>18 DEF LateInv, CancelCall, LeaveToServer, JobContext, StatusWrite
  <2>5. RowInv'
    BY <1>18 DEF RowInv, ScanInv, CancelCall, LeaveToServer, JobContext, StatusWrite
  <2>6. CompleteInv'
    BY <1>18 DEF CompleteInv, RowInv, CancelCall, LeaveToServer, JobContext, StatusWrite
  <2> QED
    BY <2>1, <2>2, <2>3, <2>4, <2>5, <2>6
<1>19. ASSUME Crash PROVE IndInv'
  <2>1. PcInv'
    BY <1>19 DEF PcInv, Crash, LeaveToServer, JobContext, OwnContext, StatusWrite
  <2>2. ScanInv'
    BY <1>19 DEF ScanInv, PcInv, Crash, LeaveToServer, JobContext, OwnContext, StatusWrite
  <2>3. CancelInv'
    BY <1>19 DEF CancelInv, PcInv, Crash, LeaveToServer, JobContext, OwnContext, StatusWrite
  <2>4. LateInv'
    BY <1>19 DEF LateInv, Crash, LeaveToServer, JobContext, OwnContext, StatusWrite
  <2>5. RowInv'
    BY <1>19 DEF RowInv, ScanInv, Crash, LeaveToServer, JobContext, OwnContext, StatusWrite
  <2>6. CompleteInv'
    BY <1>19 DEF CompleteInv, RowInv, Crash, LeaveToServer, JobContext, OwnContext, StatusWrite
  <2> QED
    BY <2>1, <2>2, <2>3, <2>4, <2>5, <2>6
<1>20. ASSUME NEW j \in Jobs, CommitStatus(j) PROVE IndInv'
  <2>1. PcInv'
    BY <1>20 DEF PcInv, CommitStatus
  <2>2. ScanInv'
    BY <1>20 DEF ScanInv, CommitStatus
  <2>3. CancelInv'
    BY <1>20 DEF CancelInv, CommitStatus
  <2>4. LateInv'
    BY <1>20 DEF LateInv, CommitStatus
  <2>5. RowInv'
    BY <1>20 DEF RowInv, CommitStatus
  <2>6. CompleteInv'
    BY <1>20 DEF CompleteInv, CommitStatus
  <2> QED
    BY <2>1, <2>2, <2>3, <2>4, <2>5, <2>6
<1>21. ASSUME NEW j \in Jobs, NEW h \in Hosts, CommitResult(j, h) PROVE IndInv'
  <2>1. PcInv'
    BY <1>21 DEF PcInv, CommitResult
  <2>2. ScanInv'
    BY <1>21 DEF ScanInv, CommitResult
  <2>3. CancelInv'
    BY <1>21 DEF CancelInv, CommitResult
  <2>4. LateInv'
    BY <1>21 DEF LateInv, CommitResult
  <2>5. RowInv'
    BY <1>21 DEF RowInv, CommitResult
  <2>6. CompleteInv'
    BY <1>21 DEF CompleteInv, CommitResult
  <2> QED
    BY <2>1, <2>2, <2>3, <2>4, <2>5, <2>6
<1>22. ASSUME NEW h \in Hosts, CommitElement(h) PROVE IndInv'
  <2>1. PcInv'
    BY <1>22 DEF PcInv, CommitElement
  <2>2. ScanInv'
    BY <1>22 DEF ScanInv, CommitElement
  <2>3. CancelInv'
    BY <1>22 DEF CancelInv, CommitElement
  <2>4. LateInv'
    BY <1>22 DEF LateInv, CommitElement
  <2>5. RowInv'
    BY <1>22 DEF RowInv, CommitElement
  <2>6. CompleteInv'
    BY <1>22 DEF CompleteInv, CommitElement
  <2> QED
    BY <2>1, <2>2, <2>3, <2>4, <2>5, <2>6
<1>23. CASE UNCHANGED vars
  BY <1>23 DEF PcInv, ScanInv, CancelInv, LateInv, RowInv, CompleteInv, vars
<1> QED
  BY <1>1, <1>2, <1>3, <1>4, <1>5, <1>6, <1>7, <1>8, <1>9, <1>10, <1>11, <1>12,
     <1>13, <1>14, <1>15, <1>16, <1>17, <1>18, <1>19, <1>20, <1>21, <1>22, <1>23
     DEF Next, RunnerStep, ScanStep, RequestStep, ServerStep

\* It holds before the first job is created.
LEMMA InitIndInv == Init => IndInv
BY ConstAssumption DEF Init, IndInv, TypeOK, PcInv, ScanInv, CancelInv, LateInv, RowInv,
   CompleteInv, Decided, MayBring, Status, Terminal, RunnerPC, ScanPC, Busy, Loop, Early,
   Active, NoRow

\* The invariant holds in every reachable state.
THEOREM IndInvHolds == Spec => []IndInv
BY InitIndInv, IndInvStep, PTL DEF Spec

\* A completed job is complete: every target's scan ran to its end and left
\* its row, or its insert was left to the server by a database that failed
\* by itself.
THEOREM CompletedIsCompleteHolds == Spec => []CompletedIsComplete
<1>1. IndInv => CompletedIsComplete
  BY ConstAssumption DEF IndInv, ScanInv, CompleteInv, RowOrSent, Decided, CompletedIsComplete
<1> QED
  BY <1>1, IndInvHolds, PTL

\* Once a final status is written no scan of the job is in flight, and a job
\* with scans in flight can be cancelled.
THEOREM ScansWithinJob == Spec => [](NoScanOutlivesJob /\ ScanningIsCancellable)
<1>1. IndInv => NoScanOutlivesJob
  BY DEF IndInv, TypeOK, PcInv, ScanInv, Busy, Loop, Terminal, Running, NoScanOutlivesJob
<1>2. IndInv => ScanningIsCancellable
  BY DEF IndInv, TypeOK, PcInv, ScanInv, Busy, Loop, Running, ScanningIsCancellable
<1> QED
  BY <1>1, <1>2, IndInvHolds, PTL

\* A cancelled job was cancelled by a request, and at most one scan started
\* after that.
THEOREM CancelIsOrderly == Spec => [](CancelledOnlyOnRequest /\ AtMostOneLateScan)
<1>1. IndInv => CancelledOnlyOnRequest
  BY DEF IndInv, CancelInv, Decided, CancelledOnlyOnRequest
<1>2. IndInv => AtMostOneLateScan
  BY DEF IndInv, LateInv, AtMostOneLateScan
<1> QED
  BY <1>1, <1>2, IndInvHolds, PTL

\* The element id of a result row is never dangling.
THEOREM ResultElementExistsHolds == Spec => []ResultElementExists
<1>1. IndInv => ResultElementExists
  BY DEF IndInv, RowInv, ResultElementExists
<1> QED
  BY <1>1, IndInvHolds, PTL

-----------------------------------------------------------------------------
(* Properties of steps. *)

\* The final status of a job never changes again; its results only by an
\* insert that was left to the server, for a host without a row, and of a
\* completed or failed job only where the database failed by itself.
THEOREM FinalIsFinalHolds == Spec => FinalIsFinal
<1>1. IndInv /\ [Next]_vars => Frozen
  <2> SUFFICES ASSUME IndInv, [Next]_vars PROVE Frozen
    OBVIOUS
  <2> USE ConstAssumption DEF IndInv, TypeOK, Terminal, Frozen
  <2>1. ASSUME NEW j \in Jobs, Create(j) PROVE Frozen
    BY <2>1 DEF Create, UpdateStatus, PcInv
  <2>2. ASSUME NEW j \in Jobs, MarkRunning(j) PROVE Frozen
    BY <2>2 DEF MarkRunning, WriteStatus, UpdateStatus, Outcomes, PcInv
  <2>3. ASSUME NEW j \in Jobs, MarkFailed(j) PROVE Frozen
    BY <2>3 DEF MarkFailed, WriteStatus, UpdateStatus, Outcomes, PcInv, Busy
  <2>4. ASSUME NEW j \in Jobs, WriteFinal(j) PROVE Frozen
    BY <2>4 DEF WriteFinal, WriteStatus, UpdateStatus, PcInv, Busy
  <2>5. ASSUME NEW j \in Jobs, NEW h \in Hosts, InsertResult(j, h) PROVE Frozen
    <3>1. pc[j] \in Loop
      BY <2>5 DEF InsertResult, ScanInv, Active
    <3>2. status[j] = "running"
      BY <3>1 DEF PcInv, Loop, Busy
    <3> QED
      BY <2>5, <3>2 DEF InsertResult
  <2>6. ASSUME NEW j \in Jobs, CommitStatus(j) PROVE Frozen
    BY <2>6 DEF CommitStatus, PcInv, MayBring
  <2>7. ASSUME NEW j \in Jobs, NEW h \in Hosts, CommitResult(j, h) PROVE Frozen
    <3>1. results[j][h] = NoRow /\ results' = [results EXCEPT ![j][h] = sentResult[j][h]]
      BY <2>7 DEF CommitResult, RowInv
    <3>2. status[j] # "failed" /\ h \in TargetIPs[j]
      BY <2>7 DEF CommitResult, RowInv, ScanInv, Decided
    <3>3. status[j] = "completed" => DbFaults
      BY <3>1, <3>2 DEF CompleteInv, RowOrSent, Decided
    <3> QED
      BY <2>7, <3>1, <3>2, <3>3 DEF CommitResult
  <2>8. CASE UNCHANGED <<status, results>>
    BY <2>8
  <2> QED
    BY <2>1, <2>2, <2>3, <2>4, <2>5, <2>6, <2>7, <2>8 DEF Next, RunnerStep, ScanStep,
       RequestStep, ServerStep, Register, LoadRules, Launch, Go, Wait, Cleanup, Move, Connect,
       Get, ScanMove, UpsertDiscovered, Assign, CancelGet, CancelLookup, CancelCall,
       CommitElement, Crash, vars, dbVars
<1> QED
  BY <1>1, IndInvHolds, PTL DEF FinalIsFinal, Spec

\* The hosts that a scan has finished, and those whose row may still appear.
Attempted == [j \in Jobs |-> {h \in Hosts : scan[j][h] = "done"}]
Awaited   == [j \in Jobs |-> {h \in Hosts : sentResult[j][h] # NoRow}]

\* While a target is being scanned the life cycle says so too.
LEMMA ActiveIsScanned ==
    ASSUME IndInv, NEW j \in Jobs, NEW h \in Hosts, scan[j][h] \in Active
    PROVE  /\ pc[j] \in Loop /\ status[j] = "running" /\ h \in TargetIPs[j]
           /\ h \in Lifecycle!Scanned(j)
<1>1. pc[j] \in Loop /\ h \in TargetIPs[j]
  BY DEF IndInv, ScanInv, Active
<1>2. status[j] = "running"
  BY <1>1 DEF IndInv, PcInv, Loop, Busy
<1> QED
  BY <1>1, <1>2 DEF Lifecycle!Scanned, Active

\* When contexts end, the rows that are cut off are of targets that are being
\* scanned and have no row yet.
LEMMA LeaveIsInterrupts ==
    ASSUME IndInv, NEW jobs \in SUBSET Jobs, LeaveToServer(jobs)
    PROVE  Lifecycle!Interrupts(jobs)
<1> DEFINE f == [j \in Jobs |-> {h \in Hosts : j \in jobs /\ ~ctxDone[j] /\ scan[j][h] = "record"}]
<1>1. f \in [Jobs -> SUBSET Hosts]
  OBVIOUS
<1>2. \A j \in Jobs \ jobs : f[j] = {}
  OBVIOUS
<1>3. ASSUME NEW j \in jobs
      PROVE  f[j] \subseteq {h \in Lifecycle!Scanned(j) : results[j][h] = NoRow}
  BY <1>3, ActiveIsScanned DEF IndInv, RowInv, Active
<1>4. Awaited' = [j \in Jobs |-> Awaited[j] \cup f[j]]
  <2>1. ASSUME NEW j \in Jobs PROVE Awaited'[j] = Awaited[j] \cup f[j]
    <3>1. ASSUME NEW h \in Hosts
          PROVE  sentResult'[j][h] # NoRow <=> sentResult[j][h] # NoRow \/ h \in f[j]
      BY <3>1 DEF LeaveToServer, IndInv, RowInv, Rows, NoRow
    <3> QED
      BY <3>1 DEF Awaited
  <2> QED
    BY <2>1 DEF Awaited
<1> HIDE DEF f
<1> QED
  BY <1>1, <1>2, <1>3, <1>4 DEF Lifecycle!Interrupts, Awaited

\* Every step of the detailed system is a step of the life cycle or leaves it
\* alone.
LEMMA LifecycleStep == IndInv /\ [Next]_vars => [Lifecycle!Next]_(Lifecycle!vars)
<1> SUFFICES ASSUME IndInv, [Next]_vars PROVE Lifecycle!Next \/ UNCHANGED Lifecycle!vars
  OBVIOUS
<1> USE ConstAssumption DEF IndInv, TypeOK
<1>1. ASSUME NEW j \in Jobs, Create(j) PROVE Lifecycle!Submit(j) \/ UNCHANGED Lifecycle!vars
  BY <1>1 DEF Create, UpdateStatus, PcInv, Lifecycle!Submit, Lifecycle!vars
<1>2. ASSUME NEW j \in Jobs, MarkRunning(j)
      PROVE Lifecycle!Start(j) \/ UNCHANGED Lifecycle!vars
  BY <1>2 DEF MarkRunning, WriteStatus, UpdateStatus, Outcomes, PcInv, Lifecycle!Start,
     Lifecycle!vars
<1>3. ASSUME NEW j \in Jobs, MarkFailed(j)
      PROVE Lifecycle!Finish(j) \/ UNCHANGED Lifecycle!vars
  BY <1>3 DEF MarkFailed, WriteStatus, UpdateStatus, Outcomes, PcInv, ScanInv, Busy, Early,
     Lifecycle!Finish, Lifecycle!Terminal, Lifecycle!vars
<1>4. ASSUME NEW j \in Jobs, pc[j] = "writeCompleted" \/ Decided(j, "completed")
      PROVE  /\ {h \in Hosts : scan[j][h] = "done"} = TargetIPs[j]
             /\ \A h \in TargetIPs[j] :
                   results[j][h] # NoRow \/ h \in {g \in Hosts : sentResult[j][g] # NoRow}
  BY <1>4 DEF ScanInv, CompleteInv, RowOrSent
<1>5. ASSUME NEW j \in Jobs, WriteFinal(j)
      PROVE Lifecycle!Finish(j) \/ UNCHANGED Lifecycle!vars
  <2>1. status[j] = "running"
    BY <1>5 DEF WriteFinal, PcInv, Busy
  <2>2. CASE status' = [status EXCEPT ![j] = "completed"] /\ pc[j] = "writeCompleted"
    BY <1>4, <1>5, <2>1, <2>2 DEF WriteFinal, WriteStatus, Lifecycle!Finish, Lifecycle!Terminal
  <2>3. CASE status' = [status EXCEPT ![j] = "cancelled"] /\ pc[j] = "writeCancelled"
    BY <1>5, <2>1, <2>3 DEF WriteFinal, WriteStatus, CancelInv, Lifecycle!Finish,
       Lifecycle!Terminal
  <2>4. CASE status' = status
    BY <1>5, <2>4 DEF WriteFinal, WriteStatus, Lifecycle!vars
  <2> QED
    BY <1>5, <2>2, <2>3, <2>4 DEF WriteFinal, WriteStatus, UpdateStatus
<1>6. ASSUME NEW j \in Jobs, CommitStatus(j)
      PROVE Lifecycle!Submit(j) \/ Lifecycle!Start(j) \/ Lifecycle!Finish(j)
  <2> USE <1>6 DEF CommitStatus, runVars, PcInv, MayBring, Terminal
  <2>1. CASE status[j] = "none"
    BY <2>1 DEF Lifecycle!Submit
  <2>2. CASE status[j] = "pending"
    BY <2>2 DEF Lifecycle!Start
  <2>3. CASE status[j] = "running"
    <3>1. CASE sentStatus[j] = "completed"
      BY <1>4, <2>3, <3>1 DEF Decided, Lifecycle!Finish, Lifecycle!Terminal
    <3>2. CASE sentStatus[j] = "failed"
      BY <2>3, <3>2 DEF ScanInv, Decided, Lifecycle!Finish, Lifecycle!Terminal
    <3>3. CASE sentStatus[j] = "cancelled"
      BY <2>3, <3>3 DEF CancelInv, Decided, Lifecycle!Finish, Lifecycle!Terminal
    <3> QED
      BY <2>3, <3>1, <3>2, <3>3
  <2> QED
    BY <2>1, <2>2, <2>3 DEF Status
<1>7. ASSUME NEW j \in Jobs, NEW h \in Hosts, CommitResult(j, h) PROVE Lifecycle!LateReport(j, h)
  <2>1. results[j][h] = NoRow /\ sentResult[j][h] \in Rows
    BY <1>7 DEF CommitResult, RowInv
  <2>2. Awaited' = [Awaited EXCEPT ![j] = @ \ {h}]
    <3>1. ASSUME NEW k \in Jobs
          PROVE  Awaited'[k] = IF k = j THEN Awaited[j] \ {h} ELSE Awaited[k]
      BY <1>7 DEF CommitResult, Awaited
    <3> QED
      BY <3>1 DEF Awaited
  <2>3. h \in Awaited[j]
    BY <1>7 DEF CommitResult, Awaited
  <2>4. UNCHANGED <<status, scan, cancelling>>
    BY <1>7 DEF CommitResult
  <2>5. Lifecycle!StoreRow(j, h)
    BY <1>7, <2>1 DEF CommitResult, Lifecycle!StoreRow
  <2> QED
    BY <2>2, <2>3, <2>4, <2>5 DEF Lifecycle!LateReport, Awaited
<1>8. ASSUME NEW j \in Jobs, NEW h \in Hosts, scan' = [scan EXCEPT ![j][h] = "done"]
      PROVE Attempted' = [Attempted EXCEPT ![j] = @ \cup {h}]
  <2>1. \A k \in Jobs : {g \in Hosts : scan'[k][g] = "done"} =
                         IF k = j THEN Attempted[j] \cup {h} ELSE Attempted[k]
    BY <1>8 DEF Attempted
  <2> QED
    BY <2>1 DEF Attempted
<1>9. ASSUME NEW j \in Jobs, NEW h \in Hosts, NEW row \in Rows,
             sentResult' = [sentResult EXCEPT ![j][h] = row]
      PROVE Awaited' = [Awaited EXCEPT ![j] = @ \cup {h}]
  <2>1. \A k \in Jobs : {g \in Hosts : sentResult'[k][g] # NoRow} =
                         IF k = j THEN Awaited[j] \cup {h} ELSE Awaited[k]
    BY <1>9 DEF Awaited, Rows, NoRow
  <2> QED
    BY <2>1 DEF Awaited
<1>10. ASSUME NEW j \in Jobs, NEW h \in Hosts, InsertResult(j, h)
       PROVE \/ Lifecycle!Report(j, h) \/ Lifecycle!CutOff(j, h) \/ Lifecycle!Attempt(j, h)
             \/ UNCHANGED Lifecycle!vars
  <2>1. pc[j] \in Loop /\ h \in Lifecycle!Scanned(j) /\ scan[j][h] = "record"
    BY <1>10, ActiveIsScanned DEF InsertResult, Active
  <2>2. result[j][h] \in Rows
    BY <2>1 DEF RowInv
  <2>3. UNCHANGED <<status, cancelling>>
    BY <1>10 DEF InsertResult, runVars
  <2>4. \/ /\ Lifecycle!StoreRow(j, h) /\ UNCHANGED sentResult
        \/ /\ results[j][h] = NoRow /\ UNCHANGED results
           /\ sentResult' = [sentResult EXCEPT ![j][h] = result[j][h]]
        \/ /\ j \in cancelling
           /\ UNCHANGED <<results, sentResult>>
    <3>1. CASE ctxDone[j]
      BY <1>10, <2>1, <3>1 DEF InsertResult, Outcomes, CancelInv, Loop
    <3>2. CASE ~ctxDone[j]
      <4>1. results[j][h] = NoRow
        BY <2>1, <3>2 DEF RowInv
      <4>2. PICK outcome \in {"ok", "unknown"} :
               /\ results' = IF outcome = "ok" THEN [results EXCEPT ![j][h] = result[j][h]]
                                                ELSE results
               /\ sentResult' = IF outcome = "unknown"
                                   THEN [sentResult EXCEPT ![j][h] = result[j][h]]
                                   ELSE sentResult
        BY <1>10, <3>2 DEF InsertResult, Outcomes
      <4> QED
        BY <2>2, <4>1, <4>2 DEF Lifecycle!StoreRow
    <3> QED
      BY <3>1, <3>2
  <2>5. CASE result[j][h] = "saved"
    <3>1. scan' = [scan EXCEPT ![j][h] = "assign"]
      BY <1>10, <2>5 DEF InsertResult, ScanGoto
    <3>2. Attempted' = Attempted
      BY <2>1, <3>1 DEF Attempted
    <3>3. CASE Lifecycle!StoreRow(j, h) /\ UNCHANGED sentResult
      BY <2>1, <2>3, <3>2, <3>3 DEF Lifecycle!Report, Attempted
    <3>4. CASE /\ results[j][h] = NoRow /\ UNCHANGED results
               /\ sentResult' = [sentResult EXCEPT ![j][h] = result[j][h]]
      BY <1>9, <2>1, <2>2, <2>3, <3>2, <3>4 DEF Lifecycle!CutOff, Attempted, Awaited
    <3>5. CASE UNCHANGED <<results, sentResult>>
      BY <2>3, <3>2, <3>5 DEF Lifecycle!vars, Attempted
    <3> QED
      BY <2>4, <3>3, <3>4, <3>5
  <2>6. CASE result[j][h] # "saved"
    <3>1. scan' = [scan EXCEPT ![j][h] = "done"]
      BY <1>10, <2>6 DEF InsertResult, ScanGoto
    <3>2. Attempted' = [Attempted EXCEPT ![j] = @ \cup {h}]
      BY <1>8, <3>1
    <3>3. CASE Lifecycle!StoreRow(j, h) /\ UNCHANGED sentResult
      BY <2>1, <2>3, <3>2, <3>3 DEF Lifecycle!Attempt, Attempted
    <3>4. CASE /\ results[j][h] = NoRow /\ UNCHANGED results
               /\ sentResult' = [sentResult EXCEPT ![j][h] = result[j][h]]
      BY <1>9, <2>1, <2>2, <2>3, <3>2, <3>4 DEF Lifecycle!Attempt, Attempted, Awaited
    <3>5. CASE j \in cancelling /\ UNCHANGED <<results, sentResult>>
      BY <2>1, <2>3, <3>2, <3>5 DEF Lifecycle!Attempt, Attempted
    <3> QED
      BY <2>4, <3>3, <3>4, <3>5
  <2> QED
    BY <2>5, <2>6
<1>11. ASSUME NEW j \in Jobs, NEW h \in Hosts, Assign(j, h) PROVE Lifecycle!Attempt(j, h)
  <2>1. pc[j] \in Loop /\ h \in TargetIPs[j] /\ h \in Lifecycle!Scanned(j) /\ scan[j][h] = "assign"
    BY <1>11, ActiveIsScanned DEF Assign, Active
  <2>2. results[j][h] # NoRow \/ h \in Awaited[j] \/ j \in cancelling
    BY <2>1 DEF CompleteInv, RowOrSent, CancelInv, Loop, Awaited
  <2>3. Attempted' = [Attempted EXCEPT ![j] = @ \cup {h}]
    BY <1>8, <1>11 DEF Assign, ScanGoto
  <2>4. UNCHANGED <<status, results, sentResult, cancelling>>
    BY <1>11 DEF Assign, dbVars
  <2> QED
    BY <2>1, <2>2, <2>3, <2>4 DEF Lifecycle!Attempt, Attempted, Awaited
<1>12. ASSUME UNCHANGED <<status, results, sentResult, cancelling>>,
             \A j \in Jobs, h \in Hosts : scan'[j][h] = "done" <=> scan[j][h] = "done"
      PROVE UNCHANGED Lifecycle!vars
  BY <1>12 DEF Lifecycle!vars
<1>13. ASSUME NEW j \in Jobs, \/ Register(j) \/ LoadRules(j) \/ Launch(j) \/ Wait(j) \/ Cleanup(j)
      PROVE UNCHANGED Lifecycle!vars
  BY <1>12, <1>13 DEF Register, LoadRules, Launch, Wait, Cleanup, Move, dbVars
<1>14. ASSUME NEW j \in Jobs, Go(j) PROVE UNCHANGED Lifecycle!vars
  <2>1. PICK h \in todo[j] : scan' = [scan EXCEPT ![j][h] = "connect"] /\ scan[j][h] = "idle"
    BY <1>14 DEF Go, ScanInv, Loop
  <2>2. UNCHANGED <<status, results, sentResult, cancelling>>
    BY <1>14 DEF Go, dbVars
  <2>3. ASSUME NEW i \in Jobs, NEW g \in Hosts PROVE scan'[i][g] = "done" <=> scan[i][g] = "done"
    <3>1. CASE i = j /\ g = h
      BY <2>1, <3>1 DEF IndInv, TypeOK
    <3>2. CASE ~(i = j /\ g = h)
      BY <2>1, <3>2 DEF IndInv, TypeOK
    <3> QED
      BY <3>1, <3>2
  <2> QED
    BY <1>12, <2>2, <2>3
<1>15. ASSUME NEW j \in Jobs, NEW h \in Hosts, Connect(j, h) \/ Get(j, h) \/ UpsertDiscovered(j, h)
       PROVE UNCHANGED Lifecycle!vars
  <2>1. PICK l \in Active : scan' = [scan EXCEPT ![j][h] = l] /\ scan[j][h] \in Active
    BY <1>15 DEF Connect, Get, ScanMove, UpsertDiscovered, ScanGoto, Active
  <2>2. \A k \in Jobs, g \in Hosts : scan'[k][g] = "done" <=> scan[k][g] = "done"
    BY <2>1 DEF Active
  <2> QED
    BY <1>12, <1>15, <2>2 DEF Connect, Get, ScanMove, UpsertDiscovered, dbVars
<1>16. ASSUME Crash PROVE Lifecycle!Die
  <2>1. \A j \in Jobs, h \in Hosts : scan'[j][h] = "done" <=> scan[j][h] = "done"
    BY <1>16 DEF Crash, Active
  <2>2. Attempted' = Attempted
    BY <2>1 DEF Attempted
  <2>3. Lifecycle!Interrupts(Jobs)
    BY <1>16, LeaveIsInterrupts DEF Crash
  <2> QED
    BY <1>16, <2>2, <2>3 DEF Crash, Attempted, Lifecycle!Die
<1>17. ASSUME NEW r \in Requests, CancelLookup(r) \/ \E j \in Jobs : CancelGet(r, j)
       PROVE UNCHANGED Lifecycle!vars
  BY <1>12, <1>17 DEF CancelGet, CancelLookup, dbVars, runVars
<1>18. ASSUME NEW r \in Requests, CancelCall(r) PROVE \E j \in Jobs : Lifecycle!Cancel(j)
  <2>1. PICK j \in Jobs : j = reqJob[r]
    BY <1>18 DEF CancelCall
  <2>2. LeaveToServer({j})
    BY <1>18, <2>1 DEF CancelCall
  <2>3. Lifecycle!Interrupts({j})
    BY <2>2, LeaveIsInterrupts
  <2>4. cancelling' = cancelling \cup {j} /\ UNCHANGED <<status, results, scan>>
    BY <1>18, <2>1 DEF CancelCall
  <2> QED
    BY <2>3, <2>4 DEF Lifecycle!Cancel
<1>19. CASE UNCHANGED vars \/ \E h \in Hosts : CommitElement(h)
  BY <1>12, <1>19 DEF vars, CommitElement
<1> QED
  BY <1>1, <1>2, <1>3, <1>5, <1>6, <1>7, <1>10, <1>11, <1>13, <1>14, <1>15, <1>16, <1>17,
     <1>18, <1>19 DEF Next, RunnerStep, ScanStep, RequestStep, ServerStep, Lifecycle!Next

\* The goroutines, contexts, failures and crashes of DiscoveryJob implement
\* the life cycle that clients of the API rely on.
THEOREM Refinement == Spec => ImplementsLifecycle
<1>1. Init => Lifecycle!Init
  BY DEF Init, Lifecycle!Init
<1> QED
  BY <1>1, LifecycleStep, IndInvHolds, PTL DEF Spec, Lifecycle!Spec, ImplementsLifecycle

-----------------------------------------------------------------------------
(* The size of the pool. *)

\* The scans of one job in flight never exceed errgroup's limit.
THEOREM ConcurrencyLimitHolds == Spec => []ConcurrencyLimit
<1> USE ConstAssumption
<1>1. Limit \in Nat \ {0}
  BY DEF Limit
<1>2. \A j \in Jobs : IsFiniteSet(Running(j)) /\ Cardinality(Running(j)) \in Nat
  BY FS_Subset, FS_CardinalityType DEF Running
<1>3. Init => ConcurrencyLimit
  <2>1. Init => \A j \in Jobs : Running(j) = {}
    BY DEF Init, Running, Active
  <2> QED
    BY <1>1, <2>1, FS_EmptySet DEF ConcurrencyLimit
<1>4. TypeOK /\ ConcurrencyLimit /\ [Next]_vars => ConcurrencyLimit'
  <2> SUFFICES ASSUME TypeOK, ConcurrencyLimit, [Next]_vars, NEW k \in Jobs
               PROVE Cardinality(Running(k)') <= Limit
    BY DEF ConcurrencyLimit, Limit
  <2>1. ASSUME Running(k)' \subseteq Running(k) PROVE Cardinality(Running(k)') <= Limit
    <3>1. Cardinality(Running(k)') <= Cardinality(Running(k))
      BY <1>2, <2>1, FS_Subset
    <3>2. Cardinality(Running(k)') \in Nat
      BY <1>2, <2>1, FS_Subset, FS_CardinalityType
    <3> QED
      BY <1>1, <1>2, <3>1, <3>2 DEF ConcurrencyLimit
  <2>2. ASSUME NEW j \in Jobs, Go(j) PROVE Cardinality(Running(k)') <= Limit
    <3>1. PICK h \in Hosts : scan' = [scan EXCEPT ![j][h] = "connect"]
      BY <2>2 DEF Go, TypeOK
    <3>2. CASE k = j
      <4>1. Running(k)' = Running(k) \cup {h}
        BY <3>1, <3>2 DEF Running, TypeOK, Active
      <4>2. Cardinality(Running(k)) + 1 <= Limit
        BY <1>1, <1>2, <2>2, <3>2 DEF Go, SlotFree
      <4>3. Cardinality(Running(k) \cup {h}) \in
               {Cardinality(Running(k)), Cardinality(Running(k)) + 1}
        <5>1. IsFiniteSet(Running(k))
          BY <1>2
        <5> QED
          BY <5>1, FS_AddElement, Zenon
      <4> QED
        BY <1>1, <1>2, <4>1, <4>2, <4>3
    <3>3. CASE k # j
      BY <2>1, <3>1, <3>3 DEF Running, TypeOK
    <3> QED
      BY <3>2, <3>3
  <2>3. ASSUME NEW j \in Jobs, NEW h \in Hosts, ScanStep(j, h)
        PROVE Running(k)' \subseteq Running(k)
    <3>1. PICK l \in ScanPC : scan[j][h] \in Active /\ scan' = [scan EXCEPT ![j][h] = l]
      BY <2>3 DEF ScanStep, Connect, Get, ScanMove, UpsertDiscovered, InsertResult, Assign, ScanGoto,
         Active, ScanPC
    <3> QED
      BY <3>1 DEF Running, TypeOK
  <2>4. ASSUME Crash PROVE Running(k)' \subseteq Running(k)
    BY <2>4 DEF Crash, Running, Active
  <2>5. ASSUME UNCHANGED scan PROVE Running(k)' \subseteq Running(k)
    BY <2>5 DEF Running
  <2> QED
    BY <2>1, <2>2, <2>3, <2>4, <2>5 DEF Next, Create, RunnerStep, Register, MarkRunning,
       LoadRules, MarkFailed, Launch, Wait, WriteFinal, Cleanup, Move, WriteStatus, RequestStep,
       CancelGet, CancelLookup, CancelCall, ServerStep, CommitStatus, CommitResult,
       CommitElement, vars
<1> QED
  BY <1>3, <1>4, TypeCorrect, PTL DEF Spec
=============================================================================
