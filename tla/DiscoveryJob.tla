---------------------------- MODULE DiscoveryJob ----------------------------
(***************************************************************************)
(* Discovery jobs of the netcluster API server: the HTTP handlers that     *)
(* create and cancel a job, the background goroutine that runs it, the     *)
(* scan goroutines it starts, and the rows they leave in PostgreSQL.       *)
(*   src/internal/api/http/discovery.go, src/internal/discovery/           *)
(*   orchestrator.go, src/internal/snmp/gosnmp_client.go and the job,      *)
(*   result and element repositories of src/internal/storage/postgres.     *)
(***************************************************************************)
EXTENDS Integers, FiniteSets

CONSTANTS Jobs,         \* identifiers of the jobs that can be created
          Hosts,        \* addresses that can be scanned
          TargetIPs,    \* TargetIPs[j]: the expanded, duplicate-free target list
          Requests,     \* goroutines that serve POST .../cancel
          Concurrency,  \* NETCLUSTER_DISCOVERY_WORKER_POOL_SIZE, any integer
          DbFaults,     \* TRUE iff a statement may fail although its context is live
          MaxCrashes,   \* bound: how often the server process dies
          None          \* no job

ASSUME ConstAssumption ==
    /\ IsFiniteSet(Hosts)
    /\ TargetIPs \in [Jobs -> SUBSET Hosts]
    /\ Concurrency \in Int
    /\ DbFaults \in BOOLEAN
    /\ MaxCrashes \in Nat
    /\ None \notin Jobs

VARIABLES
    \* PostgreSQL
    status,      \* discovery_jobs.status, "none" before the row exists
    results,     \* results[j][h]: discovery_job_results, NoRow when absent
    elements,    \* the hosts that have a row in network_elements
    \* statements that the server may still carry out though their caller has
    \* given up, or will: it was cancelled, it died, or it got an error
    sentStatus,   \* sentStatus[j]: the status such a write sets, or "none"
    sentResult,   \* sentResult[j][h]: the row such an insert adds, or NoRow
    sentElements, \* the hosts that such an upsert is about
    \* the server process
    cancels,     \* the jobs in DiscoveryHandler.cancels
    ctxDone,     \* ctxDone[j]: the job's context is cancelled
    pc,          \* pc[j]: where job j's background goroutine is
    todo,        \* todo[j]: the targets the launch loop has not reached
    scan,        \* scan[j][h]: where the scan goroutine of h is
    result,      \* result[j][h]: the local variable "result" of scanOne
    req,         \* req[r]: where cancel request r is
    reqJob,      \* reqJob[r]: the job it is about
    \* bookkeeping
    cancelling,  \* the jobs whose cancel was answered "cancelling"
    late,        \* late[j]: scans launched after the context was cancelled
    crashes

dbVars  == <<status, results, elements, sentStatus, sentResult, sentElements>>
runVars == <<cancels, ctxDone, pc, todo, late>>
reqVars == <<req, reqJob>>
vars == <<status, results, elements, sentStatus, sentResult, sentElements, cancels, ctxDone, pc, todo, scan, result,
          req, reqJob, cancelling, late, crashes>>

-----------------------------------------------------------------------------
Terminal == {"completed", "failed", "cancelled"}
Status   == {"none", "pending", "running"} \cup Terminal

\* A result row by its status; the status success is "unsaved" in a row
\* without an element id and "saved" in a row with one.
Rows  == {"no_response", "snmp_error", "unsaved", "saved"}
NoRow == "none"

\* "idle": not created, "ended": no goroutine runs the job any more.
RunnerPC == {"idle", "register", "markRunning", "loadRules", "markFailed",
             "launch", "go", "wait", "writeCompleted", "writeCancelled",
             "cleanup", "ended"}

\* "killed": the process died under the scan.
Active == {"connect", "get", "upsert", "record", "assign"}
ScanPC == {"idle", "done", "killed"} \cup Active

Running(j) == {h \in Hosts : scan[j][h] \in Active}

\* Mutant: the configured pool size as it is.
Limit_Raw == Concurrency

\* errgroup.SetLimit(max(concurrency, 1))
Limit == IF Concurrency < 1 THEN 1 ELSE Concurrency

\* errgroup: a goroutine may start while fewer than Limit run.
SlotFree(j) == Cardinality(Running(j)) < Limit

(***************************************************************************)
(* What the caller of one statement may get.  "ok": it took effect.         *)
(* "unknown": an error, and the server is left with the statement, which it *)
(* may carry out at any later time or never.  "cancelled": an error, since  *)
(* the context is done; a statement that was under way when that happened   *)
(* was left to the server then (LeaveToServer), and a later one is not sent.*)
(***************************************************************************)
Outcomes(done) == IF done THEN {"cancelled"}
                  ELSE IF DbFaults THEN {"ok", "unknown"} ELSE {"ok"}

Goto(j, l) == pc' = [pc EXCEPT ![j] = l]

\* DiscoveryJobRepo.UpdateStatus
UpdateStatus(j, s, outcome) ==
    /\ status' = IF outcome = "ok" THEN [status EXCEPT ![j] = s] ELSE status
    /\ sentStatus' = IF outcome = "unknown" THEN [sentStatus EXCEPT ![j] = s] ELSE sentStatus

\* The goroutine of job j moves on and does nothing else.
Move(j, l) ==
    /\ Goto(j, l)
    /\ UNCHANGED <<dbVars, cancels, ctxDone, todo, scan, result, reqVars, cancelling, late,
                   crashes>>

\* It writes status s and moves on, according to the outcome of the write.
WriteStatus(j, done, s, onSuccess, onError) ==
    /\ \E outcome \in Outcomes(done) :
          /\ UpdateStatus(j, s, outcome)
          /\ Goto(j, IF outcome = "ok" THEN onSuccess ELSE onError)
    /\ UNCHANGED <<results, elements, sentResult, sentElements, cancels, ctxDone, todo, scan,
                   result, reqVars, cancelling, late, crashes>>

\* The status write that a goroutine is at, under the job's context or, the
\* last one, under one of its own.
StatusWrite(l) == CASE l = "markRunning"    -> "running"
                    [] l = "markFailed"     -> "failed"
                    [] l = "writeCompleted" -> "completed"
                    [] l = "writeCancelled" -> "cancelled"
                    [] OTHER                -> "none"
JobContext == {"markRunning", "markFailed"}
OwnContext == {"writeCompleted", "writeCancelled"}

\* The contexts of these jobs end: the server is left with the statements of
\* their scans that are under way.
LeaveToServer(jobs) ==
    /\ sentResult' = [j \in Jobs |-> [h \in Hosts |->
          IF j \in jobs /\ ~ctxDone[j] /\ scan[j][h] = "record" THEN result[j][h]
                                                              ELSE sentResult[j][h]]]
    /\ sentElements' = sentElements \cup
          {h \in Hosts : \E j \in jobs : ~ctxDone[j] /\ scan[j][h] = "upsert"}

-----------------------------------------------------------------------------
Init ==
    /\ status = [j \in Jobs |-> "none"]
    /\ results = [j \in Jobs |-> [h \in Hosts |-> NoRow]]
    /\ elements = {}
    /\ sentStatus = [j \in Jobs |-> "none"]
    /\ sentResult = [j \in Jobs |-> [h \in Hosts |-> NoRow]]
    /\ sentElements = {}
    /\ cancels = {}
    /\ ctxDone = [j \in Jobs |-> FALSE]
    /\ pc = [j \in Jobs |-> "idle"]
    /\ todo = [j \in Jobs |-> {}]
    /\ scan = [j \in Jobs |-> [h \in Hosts |-> "idle"]]
    /\ result = [j \in Jobs |-> [h \in Hosts |-> NoRow]]
    /\ req = [r \in Requests |-> "idle"]
    /\ reqJob = [r \in Requests |-> None]
    /\ cancelling = {}
    /\ late = [j \in Jobs |-> 0]
    /\ crashes = 0

-----------------------------------------------------------------------------
(* The background goroutine of a job. *)

\* DiscoveryHandler.Create: insert the pending row, start the goroutine.  The
\* insert is under the context of the request: if the client goes away, or
\* the reply is lost, no goroutine is started, and a row may come all the same.
Create(j) ==
    /\ pc[j] = "idle"
    /\ \E outcome \in {"ok", "unknown"} :
          /\ UpdateStatus(j, "pending", outcome)
          /\ Goto(j, IF outcome = "ok" THEN "register" ELSE "ended")
    /\ UNCHANGED <<results, elements, sentResult, sentElements, cancels, ctxDone, todo, scan,
                   result, reqVars, cancelling, late, crashes>>

\* runInBackground: a fresh context, its cancel function put in the map.
Register(j) ==
    /\ pc[j] = "register"
    /\ cancels' = cancels \cup {j}
    /\ Goto(j, "markRunning")
    /\ UNCHANGED <<dbVars, ctxDone, todo, scan, result, reqVars, cancelling, late, crashes>>

\* Run: the first write; on any error Run returns and writes nothing more.
MarkRunning(j) ==
    /\ pc[j] = "markRunning"
    /\ WriteStatus(j, ctxDone[j], "running", "loadRules", "cleanup")

\* Run: ListEnabledOrdered, and the start of the loop over the targets.
LoadRules(j) ==
    /\ pc[j] = "loadRules"
    /\ \E outcome \in Outcomes(ctxDone[j]) :
          /\ Goto(j, IF outcome = "ok" THEN "launch" ELSE "markFailed")
          /\ todo' = [todo EXCEPT ![j] = IF outcome = "ok" THEN TargetIPs[j] ELSE @]
    /\ UNCHANGED <<dbVars, cancels, ctxDone, scan, result, reqVars, cancelling, late, crashes>>

\* Mutant: the return after the write is missing.
MarkFailed_NoReturn(j) ==
    /\ pc[j] = "markFailed"
    /\ WriteStatus(j, ctxDone[j], "failed", "launch", "launch")

\* Run: the status "failed" is written under the job's own context, and the
\* outcome of the write is ignored.
MarkFailed(j) ==
    /\ pc[j] = "markFailed"
    /\ WriteStatus(j, ctxDone[j], "failed", "cleanup", "cleanup")

\* Mutant: the loop does not look at the context.
Launch_Blind(j) ==
    /\ pc[j] = "launch"
    /\ Move(j, IF todo[j] = {} THEN "wait" ELSE "go")

\* Run: the head of the loop; a cancelled context ends it.
Launch(j) ==
    /\ pc[j] = "launch"
    /\ Move(j, IF ctxDone[j] \/ todo[j] = {} THEN "wait" ELSE "go")

\* errgroup.Group.Go: blocks while Limit scans are running, then starts the
\* next one.  The context is not looked at again.
Go(j) ==
    /\ pc[j] = "go"
    /\ SlotFree(j)
    /\ \E h \in todo[j] :
          /\ todo' = [todo EXCEPT ![j] = @ \ {h}]
          /\ scan' = [scan EXCEPT ![j][h] = "connect"]
    /\ late' = [late EXCEPT ![j] = IF ctxDone[j] THEN @ + 1 ELSE @]
    /\ Goto(j, "launch")
    /\ UNCHANGED <<dbVars, cancels, ctxDone, result, reqVars, cancelling, crashes>>

\* Mutants: g.Wait is missing; a cancelled job does not wait for its scans;
\* the context is not looked at before the final status.
Wait_NoWait(j) ==
    /\ pc[j] = "wait"
    /\ Move(j, IF ctxDone[j] THEN "writeCancelled" ELSE "writeCompleted")
Wait_NotCancelled(j) ==
    /\ pc[j] = "wait"
    /\ ctxDone[j] \/ Running(j) = {}
    /\ Move(j, IF ctxDone[j] THEN "writeCancelled" ELSE "writeCompleted")
Wait_Completed(j) == pc[j] = "wait" /\ Running(j) = {} /\ Move(j, "writeCompleted")

\* Run: g.Wait, then the look at the context that picks the final status.
Wait(j) ==
    /\ pc[j] = "wait"
    /\ Running(j) = {}
    /\ Move(j, IF ctxDone[j] THEN "writeCancelled" ELSE "writeCompleted")

\* Mutant: the last write uses the job's own context.
WriteFinal_JobContext(j) ==
    /\ pc[j] \in {"writeCompleted", "writeCancelled"}
    /\ WriteStatus(j, ctxDone[j], IF pc[j] = "writeCompleted" THEN "completed" ELSE "cancelled",
                   "cleanup", "cleanup")

\* Run: the last write, under context.Background().
WriteFinal(j) ==
    /\ pc[j] \in {"writeCompleted", "writeCancelled"}
    /\ WriteStatus(j, FALSE, IF pc[j] = "writeCompleted" THEN "completed" ELSE "cancelled",
                   "cleanup", "cleanup")

\* runInBackground: the deferred function.
Cleanup(j) ==
    /\ pc[j] = "cleanup"
    /\ cancels' = cancels \ {j}
    /\ ctxDone' = [ctxDone EXCEPT ![j] = TRUE]
    /\ Goto(j, "ended")
    /\ UNCHANGED <<dbVars, todo, scan, result, reqVars, cancelling, late, crashes>>

-----------------------------------------------------------------------------
(* The scan of one host: Orchestrator.scanOne. *)

ScanGoto(j, h, l) == scan' = [scan EXCEPT ![j][h] = l]

SetResult(j, h, row) == result' = [result EXCEPT ![j][h] = row]

\* The scan goes on with this result and touches nothing shared.
ScanMove(j, h, l, row) ==
    /\ ScanGoto(j, h, l)
    /\ SetResult(j, h, row)
    /\ UNCHANGED <<dbVars, runVars, reqVars, cancelling, crashes>>

\* GetIdentity up to gosnmp's Connect, which dials under the context.
Connect(j, h) ==
    /\ scan[j][h] = "connect"
    /\ \E err \in BOOLEAN :
          /\ ctxDone[j] => err
          /\ ScanMove(j, h, IF err THEN "record" ELSE "get",
                            IF err THEN "snmp_error" ELSE result[j][h])

\* Mutant: an error of one host cancels the context of all, as
\* errgroup.WithContext would.
Get_CancelsAll(j, h) ==
    /\ scan[j][h] = "get"
    /\ \/ ScanMove(j, h, "upsert", "unsaved")
       \/ /\ ScanGoto(j, h, "record") /\ SetResult(j, h, "snmp_error")
          /\ ctxDone' = [ctxDone EXCEPT ![j] = TRUE]
          /\ UNCHANGED <<dbVars, cancels, pc, todo, late, reqVars, cancelling, crashes>>

\* gosnmp's Get: an answer, a timeout after the last retry, or another error.
\* A cancel does not interrupt the read it is blocked in.
Get(j, h) ==
    /\ scan[j][h] = "get"
    /\ \E row \in {"unsaved", "no_response", "snmp_error"} :
          ScanMove(j, h, IF row = "unsaved" THEN "upsert" ELSE "record", row)

\* The statement of ElementRepo.UpsertDiscovered.
UpsertElement(h, outcome) ==
    /\ elements' = IF outcome = "ok" THEN elements \cup {h} ELSE elements
    /\ sentElements' = IF outcome = "unknown" THEN sentElements \cup {h} ELSE sentElements

\* Mutant: the element id is used although the upsert failed.
UpsertDiscovered_IgnoresError(j, h) ==
    /\ scan[j][h] = "upsert"
    /\ \E outcome \in Outcomes(ctxDone[j]) : UpsertElement(h, outcome)
    /\ SetResult(j, h, "saved")
    /\ ScanGoto(j, h, "record")
    /\ UNCHANGED <<status, results, sentStatus, sentResult, runVars, reqVars, cancelling, crashes>>

\* ElementRepo.UpsertDiscovered; only a reported success gives the result
\* its element id.
UpsertDiscovered(j, h) ==
    /\ scan[j][h] = "upsert"
    /\ \E outcome \in Outcomes(ctxDone[j]) :
          /\ UpsertElement(h, outcome)
          /\ SetResult(j, h, IF outcome = "ok" THEN "saved" ELSE "unsaved")
    /\ ScanGoto(j, h, "record")
    /\ UNCHANGED <<status, results, sentStatus, sentResult, runVars, reqVars, cancelling, crashes>>

\* DiscoveryResultRepo.InsertResult; its error is only logged.  A host
\* without an element is finished here.
InsertResult(j, h) ==
    /\ scan[j][h] = "record"
    /\ \E outcome \in Outcomes(ctxDone[j]) :
          /\ results' = IF outcome = "ok" THEN [results EXCEPT ![j][h] = result[j][h]] ELSE results
          /\ sentResult' = IF outcome = "unknown" THEN [sentResult EXCEPT ![j][h] = result[j][h]]
                                                  ELSE sentResult
    /\ ScanGoto(j, h, IF result[j][h] = "saved" THEN "assign" ELSE "done")
    /\ UNCHANGED <<status, elements, sentStatus, sentElements, runVars, result, reqVars,
                   cancelling, crashes>>

\* assigner.Assign: its statements are the subject of another module, its
\* error is only logged.
Assign(j, h) ==
    /\ scan[j][h] = "assign"
    /\ ScanGoto(j, h, "done")
    /\ UNCHANGED <<dbVars, runVars, result, reqVars, cancelling, crashes>>

-----------------------------------------------------------------------------
(* DiscoveryHandler.Cancel. *)

ReqGoto(r, l, j) == /\ req' = [req EXCEPT ![r] = l]
                    /\ reqJob' = [reqJob EXCEPT ![r] = j]

\* jobs.Get: only "not found" is an early return, any other error is ignored.
CancelGet(r, j) ==
    /\ req[r] = "idle"
    /\ status[j] # "none" \/ DbFaults
    /\ ReqGoto(r, "lookup", j)
    /\ UNCHANGED <<dbVars, runVars, scan, result, cancelling, crashes>>

\* Mutant: the early return for a job that is not in the map is missing.
CancelLookup_NoReturn(r) ==
    /\ req[r] = "lookup"
    /\ ReqGoto(r, "call", IF reqJob[r] \in cancels THEN reqJob[r] ELSE None)
    /\ UNCHANGED <<dbVars, runVars, scan, result, cancelling, crashes>>

\* The lookup under the mutex; "not_running" when there is no entry.
CancelLookup(r) ==
    /\ req[r] = "lookup"
    /\ IF reqJob[r] \in cancels
          THEN ReqGoto(r, "call", reqJob[r])
          ELSE ReqGoto(r, "idle", None)
    /\ UNCHANGED <<dbVars, runVars, scan, result, cancelling, crashes>>

\* cancel(), outside the mutex, and the answer "cancelling".  The calls that
\* wait for a statement under this context give it up.
CancelCall(r) ==
    LET j == reqJob[r] IN
    /\ req[r] = "call"
    /\ ctxDone' = [ctxDone EXCEPT ![j] = TRUE]
    /\ LeaveToServer({j})
    /\ sentStatus' = [sentStatus EXCEPT ![j] =
          IF ~ctxDone[j] /\ pc[j] \in JobContext THEN StatusWrite(pc[j]) ELSE @]
    /\ cancelling' = cancelling \cup {j}
    /\ ReqGoto(r, "idle", None)
    /\ UNCHANGED <<status, results, elements, cancels, pc, todo, scan, result, late, crashes>>

-----------------------------------------------------------------------------
(* The server carries out a statement nobody waits for any more.  It need   *)
(* not, so none of this is fair.                                            *)

CommitStatus(j) ==
    /\ sentStatus[j] # "none"
    /\ status' = [status EXCEPT ![j] = sentStatus[j]]
    /\ sentStatus' = [sentStatus EXCEPT ![j] = "none"]
    /\ UNCHANGED <<results, elements, sentResult, sentElements, runVars, scan, result, reqVars,
                   cancelling, crashes>>

CommitResult(j, h) ==
    /\ sentResult[j][h] # NoRow
    /\ results' = [results EXCEPT ![j][h] = sentResult[j][h]]
    /\ sentResult' = [sentResult EXCEPT ![j][h] = NoRow]
    /\ UNCHANGED <<status, elements, sentStatus, sentElements, runVars, scan, result, reqVars,
                   cancelling, crashes>>

CommitElement(h) ==
    /\ h \in sentElements
    /\ elements' = elements \cup {h}
    /\ sentElements' = sentElements \ {h}
    /\ UNCHANGED <<status, results, sentStatus, sentResult, runVars, scan, result, reqVars,
                   cancelling, crashes>>

-----------------------------------------------------------------------------
\* The process dies and is started again: main resumes no job.
Crash ==
    /\ crashes < MaxCrashes
    /\ crashes' = crashes + 1
    /\ LeaveToServer(Jobs)
    /\ sentStatus' = [j \in Jobs |->
          IF pc[j] \in OwnContext \/ (pc[j] \in JobContext /\ ~ctxDone[j])
             THEN StatusWrite(pc[j]) ELSE sentStatus[j]]
    /\ cancels' = {}
    /\ pc' = [j \in Jobs |-> IF pc[j] = "idle" THEN "idle" ELSE "ended"]
    /\ scan' = [j \in Jobs |-> [h \in Hosts |->
                   IF scan[j][h] \in Active THEN "killed" ELSE scan[j][h]]]
    /\ req' = [r \in Requests |-> "idle"]
    /\ reqJob' = [r \in Requests |-> None]
    /\ UNCHANGED <<status, results, elements, ctxDone, todo, result, cancelling, late>>

RunnerStep(j) == \/ Register(j) \/ MarkRunning(j) \/ LoadRules(j) \/ MarkFailed(j)
                 \/ Launch(j) \/ Go(j) \/ Wait(j) \/ WriteFinal(j) \/ Cleanup(j)

ScanStep(j, h) == \/ Connect(j, h) \/ Get(j, h) \/ UpsertDiscovered(j, h)
                  \/ InsertResult(j, h) \/ Assign(j, h)

RequestStep(r) == CancelLookup(r) \/ CancelCall(r)

ServerStep == \/ \E j \in Jobs : CommitStatus(j) \/ \E h \in Hosts : CommitResult(j, h)
              \/ \E h \in Hosts : CommitElement(h)

Next == \/ \E j \in Jobs : Create(j) \/ RunnerStep(j)
        \/ \E j \in Jobs, h \in Hosts : ScanStep(j, h)
        \/ \E r \in Requests : RequestStep(r) \/ \E j \in Jobs : CancelGet(r, j)
        \/ ServerStep
        \/ Crash

Spec == Init /\ [][Next]_vars

\* Every goroutine that can move is scheduled, and the calls it makes return:
\* GetIdentity after its timeout and retry, a statement with an answer or an
\* error.  Clients owe nothing: Create and CancelGet are not fair.  Nor does
\* the database to a caller that is gone: ServerStep is not fair.
Fairness == /\ \A j \in Jobs : WF_vars(RunnerStep(j))
            /\ \A j \in Jobs, h \in Hosts : WF_vars(ScanStep(j, h))
            /\ \A r \in Requests : WF_vars(RequestStep(r))

FairSpec == Spec /\ Fairness
-----------------------------------------------------------------------------
(* Correctness. *)

\* The variables keep their types; in particular a cancel request that has
\* something left to do knows its job (the early returns of Cancel).
TypeOK ==
    /\ status \in [Jobs -> Status]
    /\ results \in [Jobs -> [Hosts -> Rows \cup {NoRow}]]
    /\ elements \subseteq Hosts
    /\ sentStatus \in [Jobs -> Status]
    /\ sentResult \in [Jobs -> [Hosts -> Rows \cup {NoRow}]]
    /\ sentElements \subseteq Hosts
    /\ cancels \subseteq Jobs
    /\ ctxDone \in [Jobs -> BOOLEAN]
    /\ pc \in [Jobs -> RunnerPC]
    /\ todo \in [Jobs -> SUBSET Hosts]
    /\ scan \in [Jobs -> [Hosts -> ScanPC]]
    /\ result \in [Jobs -> [Hosts -> Rows \cup {NoRow}]]
    /\ req \in [Requests -> {"idle", "lookup", "call"}]
    /\ reqJob \in [Requests -> Jobs \cup {None}]
    /\ \A r \in Requests : req[r] # "idle" => reqJob[r] \in Jobs
    /\ cancelling \subseteq Jobs
    /\ late \in [Jobs -> Nat]
    /\ crashes \in 0..MaxCrashes

\* Run, "completed once all targets are attempted": a job is completed only
\* if the scan of every target ran to its end and left its row, whatever
\* cancel requests and other jobs did meanwhile.  Only where the database
\* itself fails may the row be missing, and then its insert was sent.
CompletedIsComplete ==
    \A j \in Jobs : status[j] = "completed" =>
        \A h \in TargetIPs[j] :
            /\ scan[j][h] = "done"
            /\ results[j][h] # NoRow \/ (DbFaults /\ sentResult[j][h] # NoRow)

\* g.Wait before the last write: when clients see a final status no scan of
\* the job is in flight any more.
NoScanOutlivesJob == \A j \in Jobs : status[j] \in Terminal => Running(j) = {}

\* "A single host's SNMP failure ... never aborts the job": only a cancel
\* request that was answered "cancelling" makes a job cancelled.
CancelledOnlyOnRequest == \A j \in Jobs : status[j] = "cancelled" => j \in cancelling

\* The loop looks at the context once per target and g.Go may block after
\* that: a cancelled job starts at most one more scan.
AtMostOneLateScan == \A j \in Jobs : late[j] <= 1

\* g.SetLimit: the scans of one job never exceed the pool size, and a pool
\* size below one still is a pool of one.
ConcurrencyLimit == \A j \in Jobs : Cardinality(Running(j)) <= Limit

\* The cancel function is in the map from before the first scan until after
\* the last one: a job with scans in flight can always be cancelled.
ScanningIsCancellable == \A j \in Jobs : Running(j) # {} => j \in cancels

\* A result row that carries an element id refers to an element that exists
\* (the foreign key of discovery_job_results.element_id).
ResultElementExists ==
    \A j \in Jobs, h \in Hosts : results[j][h] = "saved" => h \in elements

\* A final status is final: no goroutine, handler, restart or statement that
\* arrives late writes another.  Nor do the job's results change any more,
\* but for an insert that was cut off and arrives late, for a host without a
\* row; of a job that completed or failed not even that, unless the database
\* failed a statement by itself.
Frozen == \A j \in Jobs : status[j] \in Terminal =>
    /\ status'[j] = status[j]
    /\ \A h \in Hosts : results'[j][h] # results[j][h] =>
          /\ results[j][h] = NoRow /\ results'[j][h] = sentResult[j][h]
          /\ status[j] = "cancelled" \/ DbFaults
FinalIsFinal == [][Frozen]_vars

\* The job as the clients of the API know it.
Lifecycle == INSTANCE JobLifecycle
                 WITH attempted <- [j \in Jobs |-> {h \in Hosts : scan[j][h] = "done"}],
                      cutOff <- [j \in Jobs |-> {h \in Hosts : sentResult[j][h] # NoRow}]

\* DiscoveryJob implements JobLifecycle.
ImplementsLifecycle == Lifecycle!Spec

\* The background goroutine always comes to its end and leaves the map, for
\* every pool size: nobody waits for ever for a slot or for a scan.
GoroutineEnds == \A j \in Jobs : pc[j] = "register" ~> (pc[j] = "ended" /\ j \notin cancels)

\* The comment of Run: "It always leaves the job in a terminal status".
AlwaysTerminal == \A j \in Jobs : pc[j] = "markRunning" ~> status[j] \in Terminal
=============================================================================
