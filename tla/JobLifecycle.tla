---------------------------- MODULE JobLifecycle ----------------------------
(***************************************************************************)
(* What a discovery job promises to the clients of the HTTP API: a status  *)
(* that only moves forward; at most one result for each host, which never  *)
(* changes; "completed" only once every target has been attempted and left *)
(* its result, "failed" only if none was, and "cancelled" only if its own  *)
(* cancel request was answered.  A result that was being stored when the   *)
(* job was cancelled, the server died or the database failed is cut off:   *)
(* it may appear at any later moment, after the final status too, or never.*)
(* The goroutines, contexts and database failures behind it are in         *)
(* DiscoveryJob, which implements this module.                             *)
(***************************************************************************)
CONSTANTS Jobs,       \* job identifiers
          Hosts,      \* addresses that can be scanned
          TargetIPs,  \* TargetIPs[j]: the hosts job j was asked to scan
          Rows,       \* contents of a row of discovery_job_results
          NoRow       \* no row for this host

VARIABLES status,     \* status[j]: discovery_jobs.status, "none" before the row exists
          results,    \* results[j][h]: the row for host h, or NoRow
          attempted,  \* attempted[j]: the hosts whose scan has come to an end
          cutOff,     \* cutOff[j]: the hosts whose row may still appear
          cancelling  \* the jobs whose cancel was answered "cancelling"

vars == <<status, results, attempted, cutOff, cancelling>>

Terminal == {"completed", "failed", "cancelled"}

Init == /\ status = [j \in Jobs |-> "none"]
        /\ results = [j \in Jobs |-> [h \in Hosts |-> NoRow]]
        /\ attempted = [j \in Jobs |-> {}]
        /\ cutOff = [j \in Jobs |-> {}]
        /\ cancelling = {}

\* The job is accepted.
Submit(j) == /\ status[j] = "none"
             /\ status' = [status EXCEPT ![j] = "pending"]
             /\ UNCHANGED <<results, attempted, cutOff, cancelling>>

Start(j) == /\ status[j] = "pending"
            /\ status' = [status EXCEPT ![j] = "running"]
            /\ UNCHANGED <<results, attempted, cutOff, cancelling>>

\* The targets of a running job that are still being scanned.
Scanned(j) == IF status[j] = "running" THEN TargetIPs[j] \ attempted[j] ELSE {}

\* The host gets its one row.
StoreRow(j, h) == /\ results[j][h] = NoRow
                  /\ \E r \in Rows : results' = [results EXCEPT ![j][h] = r]

\* A target that is still being scanned gets its row.
Report(j, h) == /\ h \in Scanned(j)
                /\ StoreRow(j, h)
                /\ UNCHANGED <<status, attempted, cutOff, cancelling>>

\* A row that was cut off appears, whatever became of the job.
LateReport(j, h) == /\ h \in cutOff[j]
                    /\ StoreRow(j, h)
                    /\ cutOff' = [cutOff EXCEPT ![j] = @ \ {h}]
                    /\ UNCHANGED <<status, attempted, cancelling>>

\* The row of a target that is still being scanned is cut off.
CutOff(j, h) == /\ h \in Scanned(j) /\ results[j][h] = NoRow
                /\ cutOff' = [cutOff EXCEPT ![j] = @ \cup {h}]
                /\ UNCHANGED <<status, results, attempted, cancelling>>

\* The scan of a target ends; this very step may write the row or cut it off.
\* It leaves no trace only if the job was cancelled.
Attempt(j, h) == /\ h \in Scanned(j)
                 /\ \/ StoreRow(j, h) /\ UNCHANGED cutOff
                    \/ /\ results[j][h] = NoRow
                       /\ cutOff' = [cutOff EXCEPT ![j] = @ \cup {h}]
                       /\ UNCHANGED results
                    \/ /\ results[j][h] # NoRow \/ h \in cutOff[j] \/ j \in cancelling
                       /\ UNCHANGED <<results, cutOff>>
                 /\ attempted' = [attempted EXCEPT ![j] = @ \cup {h}]
                 /\ UNCHANGED <<status, cancelling>>

\* Some of the scans that are under way are cut off.
Interrupts(jobs) ==
    \E f \in [Jobs -> SUBSET Hosts] :
        /\ \A j \in Jobs \ jobs : f[j] = {}
        /\ \A j \in jobs : f[j] \subseteq {h \in Scanned(j) : results[j][h] = NoRow}
        /\ cutOff' = [j \in Jobs |-> cutOff[j] \cup f[j]]

\* A client asks for the job to stop, at any time.
Cancel(j) == /\ Interrupts({j})
             /\ cancelling' = cancelling \cup {j}
             /\ UNCHANGED <<status, results, attempted>>

\* The server dies.
Die == /\ Interrupts(Jobs)
       /\ UNCHANGED <<status, results, attempted, cancelling>>

\* The job reaches a final status: completed only when nothing is left to
\* attempt and every row is there or was cut off, failed only when nothing
\* was attempted, cancelled only on request.
Finish(j) == /\ status[j] = "running"
             /\ \E s \in Terminal :
                   /\ s = "completed" =>
                         /\ attempted[j] = TargetIPs[j]
                         /\ \A h \in TargetIPs[j] : results[j][h] # NoRow \/ h \in cutOff[j]
                   /\ s = "failed" => attempted[j] = {}
                   /\ s = "cancelled" => j \in cancelling
                   /\ status' = [status EXCEPT ![j] = s]
             /\ UNCHANGED <<results, attempted, cutOff, cancelling>>

Next == \/ \E j \in Jobs : Submit(j) \/ Start(j) \/ Cancel(j) \/ Finish(j)
        \/ \E j \in Jobs, h \in Hosts :
              Report(j, h) \/ LateReport(j, h) \/ CutOff(j, h) \/ Attempt(j, h)
        \/ Die

Spec == Init /\ [][Next]_vars
=============================================================================
