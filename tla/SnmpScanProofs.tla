--------------------------- MODULE SnmpScanProofs ---------------------------
(* Proofs about SnmpScan, for every network, device, pool size and number   *)
(* of retries.                                                              *)
EXTENDS SnmpScan, DiscoveryJobProofs

-----------------------------------------------------------------------------
(* The network implements the job.  *)

\* Whatever the retry loop returns is one of the three outcomes of Get.
LEMMA ReturnIsGet ==
    ASSUME NEW j \in Jobs, NEW h \in Hosts, NEW row \in {"unsaved", "no_response", "snmp_error"},
           Return(j, h, row)
    PROVE  Get(j, h)
BY DEF Return, Get

\* A scan without an identity has one of two verdicts.
LEMMA VerdictRows ==
    ASSUME NEW j, NEW h PROVE Verdict(j, h) \in {"no_response", "snmp_error"}
BY DEF Verdict

\* A step of the scans with their network is a step of DiscoveryJob, or one
\* it does not see.
LEMMA NetStepRefines == NetTypeOK /\ [NetNext]_netVars => [Next]_vars
<1> SUFFICES ASSUME NetTypeOK, [NetNext]_netVars PROVE [Next]_vars
  OBVIOUS
<1>1. ASSUME NEW j \in Jobs, Elsewhere(Create(j) \/ RunnerStep(j)) PROVE Next
  BY <1>1 DEF Elsewhere, Next
<1>2. ASSUME NEW j \in Jobs, NEW h \in Hosts, NetConnect(j, h) PROVE Next
  BY <1>2 DEF NetConnect, Next, ScanStep
<1>3. ASSUME NEW j \in Jobs, NEW h \in Hosts, Check(j, h) PROVE Next \/ UNCHANGED vars
  <2>1. ASSUME NEW row \in {"unsaved", "no_response", "snmp_error"}, Return(j, h, row) PROVE Next
    BY <2>1, ReturnIsGet DEF Next, ScanStep
  <2> QED
    BY <1>3, <2>1, VerdictRows DEF Check
<1>4. ASSUME NEW j \in Jobs, NEW h \in Hosts, Send(j, h) PROVE UNCHANGED vars
  BY <1>4 DEF Send
<1>5. ASSUME NEW j \in Jobs, NEW h \in Hosts, ReadFails(j, h) PROVE UNCHANGED vars
  BY <1>5 DEF ReadFails
<1>6. ASSUME NEW m \in net, Receive(m) PROVE Next \/ UNCHANGED vars
  <2>1. m.job \in Jobs /\ m.host \in Hosts
    BY DEF NetTypeOK
  <2>2. ASSUME NEW row \in {"unsaved", "snmp_error"}, Return(m.job, m.host, row) PROVE Next
    BY <2>1, <2>2, ReturnIsGet DEF Next, ScanStep
  <2> QED
    BY <1>6, <2>2 DEF Receive
<1>7. ASSUME NEW j \in Jobs, NEW h \in Hosts, Elsewhere(OtherScanStep(j, h)) PROVE Next
  BY <1>7 DEF Elsewhere, OtherScanStep, Next, ScanStep
<1>8. ASSUME NEW r \in Requests, Elsewhere(RequestStep(r) \/ \E j \in Jobs : CancelGet(r, j))
      PROVE  Next
  BY <1>8 DEF Elsewhere, Next
<1>9. ASSUME NEW m \in net, Respond(m) PROVE UNCHANGED vars
  BY <1>9 DEF Respond
<1>10. ASSUME NetCrash PROVE Next
  BY <1>10 DEF NetCrash, Next
<1>11. CASE UNCHANGED netVars
  BY <1>11 DEF netVars
<1>12. ASSUME Elsewhere(ServerStep) PROVE Next
  BY <1>12 DEF Elsewhere, Next
<1> QED
  BY <1>1, <1>2, <1>3, <1>4, <1>5, <1>6, <1>7, <1>8, <1>9, <1>10, <1>11, <1>12
     DEF NetNext, NetScanStep, Of

-----------------------------------------------------------------------------
(* The inductive invariant of the scans. *)

\* What a scan remembers while it is in the retry loop: it has a socket, and
\* has not used up its attempts when it is about to make one.
LoopInv == \A j \in Jobs, h \in Hosts :
    /\ <<j, h>> \in sockets <=> step[j][h] # "none"
    /\ step[j][h] = "send" => tries[j][h] < Attempts
    /\ step[j][h] = "wait" => tries[j][h] > 0
    /\ scan[j][h] \in {"idle", "connect"} => tries[j][h] = 0 /\ lastErr[j][h] = "none"
    /\ scan[j][h] \in {"idle", "connect", "get"} =>
          result[j][h] = NoRow /\ results[j][h] = NoRow /\ sentResult[j][h] = NoRow
    /\ scan[j][h] = "upsert" => result[j][h] = "unsaved"
    /\ lastErr[j][h] # "none" => tries[j][h] > 0

\* A datagram that is under way belongs to a call that still listens, and an
\* answer comes from a device that knows the job's community.
NetInv == \A m \in net :
    /\ step[m.job][m.host] # "none"
    /\ m.id <= tries[m.job][m.host]
    /\ m.is # "request" => Device[m.host].community = Community[m.job]

\* The row a scan is about to store, has stored, or has left to the server is
\* the outcome of its loop.
Earned(j, h, row) ==
    /\ row = "no_response" => tries[j][h] = Attempts /\ lastErr[j][h] = "timeout"
    /\ row \in {"saved", "unsaved"} => /\ tries[j][h] \in 1..Attempts
                                       /\ Device[h].community = Community[j]
EarnedInv == \A j \in Jobs, h \in Hosts :
    Earned(j, h, result[j][h]) /\ Earned(j, h, results[j][h]) /\ Earned(j, h, sentResult[j][h])

ScanNetInv == NetTypeOK /\ LoopInv /\ NetInv /\ EarnedInv

\* The type invariant in two parts: the tables of the loops and the datagrams.
LoopTypes == /\ step \in [Jobs -> [Hosts -> LoopStep]]
             /\ tries \in [Jobs -> [Hosts -> 0..Attempts]]
             /\ lastErr \in [Jobs -> [Hosts -> {"none", "timeout", "other"}]]
             /\ lateSent \in [Jobs -> [Hosts -> Nat]]
Datagrams == [job : Jobs, host : Hosts, id : 1..Attempts, is : Answers \cup {"request"}]
\* The type invariant by its parts.
LEMMA TypeParts ==
    NetTypeOK <=> /\ LoopTypes /\ sockets \subseteq Jobs \X Hosts /\ net \subseteq Datagrams
                  /\ \A j \in Jobs, h \in Hosts : scan[j][h] = "get" <=> step[j][h] # "none"
BY DEF NetTypeOK, LoopTypes, Datagrams

\* The loop is left as exhausted only after the last attempt.
LEMMA ExhaustedMeansAttempts ==
    ASSUME NEW j \in Jobs, NEW h \in Hosts, tries[j][h] \in 0..Attempts
    PROVE  /\ Exhausted(j, h) => tries[j][h] = Attempts
           /\ ~Exhausted(j, h) => tries[j][h] < Attempts
BY NetAssumption DEF Exhausted, Attempts

\* Leaving the loop with an outcome that is earned keeps the invariant.
LEMMA ReturnStep ==
    ASSUME TypeOK, ScanNetInv,
           NEW j \in Jobs, NEW h \in Hosts, NEW row \in {"unsaved", "no_response", "snmp_error"},
           Return(j, h, row), lastErr' = lastErr, Earned(j, h, row)
    PROVE  ScanNetInv'
<1> USE NetAssumption DEF ScanNetInv, TypeOK, Return, ScanMove, ScanGoto, SetResult, StepTo,
    dbVars, runVars, reqVars, Of
<1>1. NetTypeOK'
  BY DEF NetTypeOK, LoopStep
<1>2. LoopInv'
  <2> SUFFICES ASSUME NEW k \in Jobs, NEW g \in Hosts PROVE LoopInv!(k, g)'
    BY DEF LoopInv
  <2>1. CASE k = j /\ g = h
    <3>1. /\ scan'[j][h] = IF row = "unsaved" THEN "upsert" ELSE "record"
          /\ result'[j][h] = row
          /\ step'[j][h] = "none" /\ <<j, h>> \notin sockets'
      BY DEF NetTypeOK
    <3>2. lastErr[j][h] # "none" => tries[j][h] > 0
      BY DEF LoopInv
    <3> QED
      BY <2>1, <3>1, <3>2
  <2>2. CASE ~(k = j /\ g = h)
    BY <2>2 DEF LoopInv, NetTypeOK
  <2> QED
    BY <2>1, <2>2
<1>3. NetInv'
  BY DEF NetInv, NetTypeOK
<1>4. EarnedInv'
  BY DEF EarnedInv, Earned, NetTypeOK
<1> QED
  BY <1>1, <1>2, <1>3, <1>4

\* A step that changes neither the loops nor their rows keeps the invariant.
LEMMA ElsewhereStep ==
    ASSUME TypeOK, ScanNetInv, UNCHANGED <<clientVars, net, lateSent>>,
           \A j \in Jobs, h \in Hosts :
              /\ scan'[j][h] = "get" <=> scan[j][h] = "get"
              /\ scan'[j][h] \in {"idle", "connect"} => scan[j][h] \in {"idle", "connect"}
              /\ scan'[j][h] = "upsert" => scan[j][h] = "upsert"
              /\ results'[j][h] \in {results[j][h], sentResult[j][h], result[j][h]}
              /\ sentResult'[j][h] \in {sentResult[j][h], result[j][h], NoRow}
              /\ \/ result'[j][h] = result[j][h]
                 \/ /\ scan[j][h] = "upsert" /\ result[j][h] = "unsaved"
                    /\ scan'[j][h] = "record"
                    /\ result'[j][h] \in {"saved", "unsaved"}
    PROVE  ScanNetInv'
<1> USE DEF ScanNetInv, clientVars
<1>1. NetTypeOK'
  BY DEF NetTypeOK
<1>2. LoopInv'
  <2> SUFFICES ASSUME NEW k \in Jobs, NEW g \in Hosts PROVE LoopInv!(k, g)'
    BY DEF LoopInv
  <2>1. LoopInv!(k, g)
    BY DEF LoopInv
  <2>2. CASE result'[k][g] = result[k][g]
    BY <2>1, <2>2
  <2>3. CASE result'[k][g] # result[k][g]
    BY <2>1, <2>3
  <2> QED
    BY <2>2, <2>3
<1>3. NetInv'
  BY DEF NetInv
<1>4. EarnedInv'
  BY DEF EarnedInv, Earned, NoRow
<1> QED
  BY <1>1, <1>2, <1>3, <1>4

\* An attempt that failed after its request was sent keeps the invariant.
LEMMA AttemptFails ==
    ASSUME ScanNetInv, NEW j \in Jobs, NEW h \in Hosts, NEW e \in {"timeout", "other"},
           step[j][h] = "wait", StepTo(j, h, "check"), Failed(j, h, e), net' \subseteq net,
           UNCHANGED <<tries, sockets, lateSent, scan, result, results, sentResult>>
    PROVE  ScanNetInv'
<1> USE DEF ScanNetInv, StepTo, Failed
<1>1. NetTypeOK'
  BY DEF NetTypeOK, LoopStep
<1>2. LoopInv'
  <2> SUFFICES ASSUME NEW k \in Jobs, NEW g \in Hosts PROVE LoopInv!(k, g)'
    BY DEF LoopInv
  <2>1. LoopInv!(k, g)
    BY DEF LoopInv
  <2>2. scan[j][h] = "get"
    BY DEF NetTypeOK
  <2>3. CASE k = j /\ g = h
    BY <2>1, <2>2, <2>3 DEF NetTypeOK
  <2>4. CASE ~(k = j /\ g = h)
    BY <2>1, <2>4 DEF NetTypeOK
  <2> QED
    BY <2>3, <2>4
<1>3. NetInv'
  BY DEF NetInv, NetTypeOK
<1>4. EarnedInv'
  <2> SUFFICES ASSUME NEW k \in Jobs, NEW g \in Hosts
               PROVE  EarnedInv!(k, g)'
    BY DEF EarnedInv
  <2>1. CASE k = j /\ g = h
    <3>1. result[k][g] = NoRow /\ results[k][g] = NoRow /\ sentResult[k][g] = NoRow
      BY <2>1 DEF NetTypeOK, LoopInv
    <3> QED
      BY <3>1 DEF Earned, NoRow
  <2>2. CASE ~(k = j /\ g = h)
    BY <2>2 DEF NetTypeOK, EarnedInv, Earned
  <2> QED
    BY <2>1, <2>2
<1> QED
  BY <1>1, <1>2, <1>3, <1>4

\* What a scan leaves to the server is its result.
LEMMA LeavesResult ==
    ASSUME NEW jobs, LeaveToServer(jobs), NEW j \in Jobs, NEW h \in Hosts
    PROVE  sentResult'[j][h] \in {sentResult[j][h], result[j][h]}
BY DEF LeaveToServer

\* Every step keeps the invariant of the scans.
LEMMA ScanNetStep == IndInv /\ ScanNetInv /\ [NetNext]_netVars => ScanNetInv'
<1> SUFFICES ASSUME IndInv, ScanNetInv, [NetNext]_netVars PROVE ScanNetInv'
  OBVIOUS
<1>0. TypeOK
  BY DEF IndInv
<1> USE <1>0
<1>1. ASSUME NEW j \in Jobs, Elsewhere(Create(j)) PROVE ScanNetInv'
  BY <1>1, ElsewhereStep DEF Elsewhere, Create
<1>2. ASSUME NEW j \in Jobs, Elsewhere(RunnerStep(j)) PROVE ScanNetInv'
  <2>1. CASE Go(j)
    <3>1. PICK h \in todo[j] : scan' = [scan EXCEPT ![j][h] = "connect"]
      BY <2>1 DEF Go
    <3>2. h \in Hosts /\ scan[j][h] = "idle"
      BY <2>1 DEF Go, IndInv, ScanInv, Loop, TypeOK
    <3>3. UNCHANGED <<results, sentResult, result>>
      BY <2>1 DEF Go, dbVars
    <3> QED
      BY <1>2, <3>1, <3>2, <3>3, ElsewhereStep DEF Elsewhere, TypeOK
  <2>2. CASE ~Go(j)
    <3>1. UNCHANGED <<scan, results, sentResult, result>>
      BY <1>2, <2>2 DEF Elsewhere, RunnerStep, Register, MarkRunning, LoadRules, MarkFailed,
         Launch, Wait, WriteFinal, Cleanup, WriteStatus, Move, dbVars
    <3> QED
      BY <1>2, <3>1, ElsewhereStep DEF Elsewhere
  <2> QED
    BY <2>1, <2>2
<1>3. ASSUME NEW j \in Jobs, NEW h \in Hosts, NetConnect(j, h) PROVE ScanNetInv'
  <2>0. /\ LoopTypes /\ sockets \subseteq Jobs \X Hosts /\ net \subseteq Datagrams
        /\ \A k \in Jobs, g \in Hosts : scan[k][g] = "get" <=> step[k][g] # "none"
    BY TypeParts DEF ScanNetInv
  <2>1. /\ scan[j][h] = "connect"
        /\ \A k \in Jobs, g \in Hosts : k # j \/ g # h =>
              scan'[k][g] = scan[k][g] /\ result'[k][g] = result[k][g]
        /\ \/ scan'[j][h] = "get" /\ result'[j][h] = result[j][h]
           \/ scan'[j][h] = "record" /\ result'[j][h] = "snmp_error"
        /\ UNCHANGED <<results, sentResult, tries, lastErr, net, lateSent>>
    BY <1>3 DEF NetConnect, Connect, ScanMove, ScanGoto, SetResult, dbVars, TypeOK
  <2>2. /\ step' \in [Jobs -> [Hosts -> LoopStep]]
        /\ \A k \in Jobs, g \in Hosts : k # j \/ g # h => step'[k][g] = step[k][g]
        /\ step[j][h] = "none"
        /\ \/ /\ scan'[j][h] = "get" /\ step'[j][h] = "check"
              /\ sockets' = sockets \cup {<<j, h>>}
           \/ scan'[j][h] = "record" /\ step'[j][h] = "none" /\ sockets' = sockets
    <3>1. step \in [Jobs -> [Hosts -> LoopStep]] /\ step[j][h] = "none"
      BY <2>0, <2>1 DEF LoopTypes
    <3>2. CASE scan'[j][h] = "get"
      <4>1. step' = [step EXCEPT ![j][h] = "check"] /\ sockets' = sockets \cup {<<j, h>>}
        BY <1>3, <3>2 DEF NetConnect, StepTo
      <4> QED
        BY <3>1, <3>2, <4>1 DEF LoopStep
    <3>3. CASE scan'[j][h] # "get"
      BY <1>3, <2>1, <3>1, <3>3 DEF NetConnect
    <3> QED
      BY <3>2, <3>3
  <2>3. NetTypeOK'
    <3>1. LoopTypes' /\ sockets' \subseteq Jobs \X Hosts /\ net' \subseteq Datagrams
      BY <2>0, <2>1, <2>2 DEF LoopTypes
    <3>2. \A k \in Jobs, g \in Hosts : scan'[k][g] = "get" <=> step'[k][g] # "none"
      BY <2>0, <2>1, <2>2
    <3> QED
      BY <3>1, <3>2 DEF NetTypeOK, LoopTypes, Datagrams
  <2>4. LoopInv'
    <3> SUFFICES ASSUME NEW k \in Jobs, NEW g \in Hosts PROVE LoopInv!(k, g)'
      BY DEF LoopInv
    <3>1. LoopInv!(k, g)
      BY DEF ScanNetInv, LoopInv
    <3>2. CASE k = j /\ g = h
      BY <2>1, <2>2, <3>1, <3>2
    <3>3. CASE ~(k = j /\ g = h)
      BY <2>1, <2>2, <3>1, <3>3
    <3> QED
      BY <3>2, <3>3
  <2>5. NetInv'
    <3> SUFFICES ASSUME NEW m \in net' PROVE NetInv!(m)'
      BY DEF NetInv
    <3>1. m \in net /\ NetInv!(m) /\ m.job \in Jobs /\ m.host \in Hosts
      BY <2>0, <2>1 DEF ScanNetInv, NetInv, Datagrams
    <3> QED
      BY <2>1, <2>2, <3>1
  <2>6. EarnedInv'
    BY <2>1 DEF ScanNetInv, EarnedInv, Earned
  <2> QED
    BY <2>3, <2>4, <2>5, <2>6 DEF ScanNetInv
<1>4. ASSUME NEW j \in Jobs, NEW h \in Hosts, Check(j, h) PROVE ScanNetInv'
  <2>1. CASE Exhausted(j, h) /\ Return(j, h, Verdict(j, h))
    <3>1. tries[j][h] = Attempts
      BY <2>1, ExhaustedMeansAttempts DEF ScanNetInv, NetTypeOK
    <3>2. Earned(j, h, Verdict(j, h))
      BY <3>1 DEF Verdict, Earned
    <3> QED
      BY <1>4, <2>1, <3>2, VerdictRows, ReturnStep DEF Check
  <2>2. CASE Return(j, h, "snmp_error")
    <3>1. Earned(j, h, "snmp_error")
      BY DEF Earned
    <3> QED
      BY <1>4, <2>2, <3>1, ReturnStep DEF Check
  <2>3. CASE /\ ~Exhausted(j, h) /\ StepTo(j, h, "send")
             /\ UNCHANGED <<vars, tries, sockets, net, lateSent>>
    <3>1. tries[j][h] < Attempts /\ step[j][h] = "check" /\ UNCHANGED lastErr
      BY <1>4, <2>3, ExhaustedMeansAttempts DEF Check, ScanNetInv, NetTypeOK
    <3> USE <2>3, <3>1 DEF StepTo, vars, ScanNetInv
    <3>2. NetTypeOK'
      BY DEF NetTypeOK, LoopStep
    <3>3. LoopInv'
      <4> SUFFICES ASSUME NEW k \in Jobs, NEW g \in Hosts PROVE LoopInv!(k, g)'
        BY DEF LoopInv
      <4>1. LoopInv!(k, g)
        BY DEF LoopInv
      <4>2. /\ step'[j][h] = "send"
            /\ k # j \/ g # h => step'[k][g] = step[k][g]
        BY TypeParts DEF LoopTypes
      <4>3. CASE k = j /\ g = h
        BY <4>1, <4>2, <4>3
      <4>4. CASE ~(k = j /\ g = h)
        BY <4>1, <4>2, <4>4
      <4> QED
        BY <4>3, <4>4
    <3>4. NetInv'
      BY DEF NetInv, NetTypeOK
    <3>5. EarnedInv'
      BY DEF EarnedInv, Earned
    <3> QED
      BY <3>2, <3>3, <3>4, <3>5
  <2> QED
    BY <1>4, <2>1, <2>2, <2>3 DEF Check
<1>5. ASSUME NEW j \in Jobs, NEW h \in Hosts, Send(j, h) PROVE ScanNetInv'
  <2> DEFINE m == [job |-> j, host |-> h, id |-> tries[j][h] + 1, is |-> "request"]
  <2>0. /\ LoopTypes /\ sockets \subseteq Jobs \X Hosts /\ net \subseteq Datagrams
        /\ \A k \in Jobs, g \in Hosts : scan[k][g] = "get" <=> step[k][g] # "none"
    BY TypeParts DEF ScanNetInv
  <2>1. /\ step[j][h] = "send" /\ tries[j][h] \in Nat /\ tries[j][h] < Attempts
        /\ scan[j][h] = "get"
    <3>1. step[j][h] = "send"
      BY <1>5 DEF Send
    <3>2. tries[j][h] < Attempts
      BY <3>1 DEF ScanNetInv, LoopInv
    <3>3. tries[j][h] \in 0..Attempts /\ Attempts \in Int
      BY <2>0, NetAssumption DEF LoopTypes, Attempts
    <3> QED
      BY <2>0, <3>1, <3>2, <3>3
  <2>2. tries[j][h] + 1 \in 1..Attempts /\ tries[j][h] + 1 \in 0..Attempts
    BY <2>1, NetAssumption DEF Attempts
  <2>3. /\ step' \in [Jobs -> [Hosts -> LoopStep]]
        /\ step'[j][h] \in {"wait", "check"}
        /\ \A k \in Jobs, g \in Hosts : k # j \/ g # h => step'[k][g] = step[k][g]
    <3>1. PICK l \in {"wait", "check"} : step' = [step EXCEPT ![j][h] = l]
      BY <1>5 DEF Send, StepTo
    <3> QED
      BY <2>0, <3>1 DEF LoopTypes, LoopStep
  <2>4. /\ tries' \in [Jobs -> [Hosts -> 0..Attempts]]
        /\ tries'[j][h] = tries[j][h] + 1
        /\ \A k \in Jobs, g \in Hosts : k # j \/ g # h => tries'[k][g] = tries[k][g]
    <3>1. tries' = [tries EXCEPT ![j][h] = @ + 1]
      BY <1>5 DEF Send
    <3> QED
      BY <2>0, <2>2, <3>1 DEF LoopTypes
  <2>5. /\ lastErr' \in [Jobs -> [Hosts -> {"none", "timeout", "other"}]]
        /\ \A k \in Jobs, g \in Hosts : k # j \/ g # h => lastErr'[k][g] = lastErr[k][g]
    <3>1. lastErr' = lastErr \/ lastErr' = [lastErr EXCEPT ![j][h] = "other"]
      BY <1>5 DEF Send, Failed
    <3>2. CASE lastErr' = lastErr
      BY <2>0, <3>2 DEF LoopTypes
    <3>3. CASE lastErr' = [lastErr EXCEPT ![j][h] = "other"]
      BY <2>0, <3>3 DEF LoopTypes
    <3> QED
      BY <3>1, <3>2, <3>3
  <2>6. net' \subseteq net \cup {m}
    BY <1>5 DEF Send
  <2>7. m \in Datagrams
    BY <2>2 DEF Datagrams
  <2>8. UNCHANGED <<sockets, scan, result, results, sentResult>>
    BY <1>5 DEF Send, vars
  <2>9. lateSent' \in [Jobs -> [Hosts -> Nat]]
    <3>1. \/ lateSent' = lateSent
          \/ lateSent' = [lateSent EXCEPT ![j][h] = IF ctxDone[j] THEN @ + 1 ELSE @]
      BY <1>5 DEF Send
    <3>2. CASE lateSent' = lateSent
      BY <2>0, <3>2 DEF LoopTypes
    <3>3. CASE lateSent' = [lateSent EXCEPT ![j][h] = IF ctxDone[j] THEN @ + 1 ELSE @]
      BY <2>0, <3>3 DEF LoopTypes
    <3> QED
      BY <3>1, <3>2, <3>3
  <2>10. NetTypeOK'
    <3>1. \A k \in Jobs, g \in Hosts : scan'[k][g] = "get" <=> step'[k][g] # "none"
      BY <2>0, <2>1, <2>3, <2>8
    <3>2. LoopTypes' /\ sockets' \subseteq Jobs \X Hosts /\ net' \subseteq Datagrams
      BY <2>0, <2>3, <2>4, <2>5, <2>6, <2>7, <2>8, <2>9 DEF LoopTypes
    <3> QED
      BY <3>1, <3>2 DEF NetTypeOK, LoopTypes, Datagrams
  <2>11. LoopInv'
    <3> SUFFICES ASSUME NEW k \in Jobs, NEW g \in Hosts PROVE LoopInv!(k, g)'
      BY DEF LoopInv
    <3>1. LoopInv!(k, g)
      BY DEF ScanNetInv, LoopInv
    <3>2. CASE k = j /\ g = h
      BY <2>1, <2>3, <2>4, <2>8, <3>1, <3>2
    <3>3. CASE ~(k = j /\ g = h)
      BY <2>3, <2>4, <2>5, <2>8, <3>1, <3>3
    <3> QED
      BY <3>2, <3>3
  <2>12. NetInv'
    <3> SUFFICES ASSUME NEW n \in net' PROVE NetInv!(n)'
      BY DEF NetInv
    <3>1. CASE n \in net
      <4>1. n.job \in Jobs /\ n.host \in Hosts /\ n.id \in Nat
        BY <3>1, NetAssumption DEF ScanNetInv, NetTypeOK
      <4>2. NetInv!(n)
        BY <3>1 DEF ScanNetInv, NetInv
      <4> QED
        BY <2>1, <2>3, <2>4, <4>1, <4>2
    <3>2. CASE n = m
      BY <2>3, <2>4, <2>1, <3>2
    <3> QED
      BY <2>6, <3>1, <3>2
  <2>13. EarnedInv'
    <3> SUFFICES ASSUME NEW k \in Jobs, NEW g \in Hosts
                 PROVE  EarnedInv!(k, g)'
      BY DEF EarnedInv
    <3>1. CASE k = j /\ g = h
      <4>1. result'[k][g] = NoRow /\ results'[k][g] = NoRow /\ sentResult'[k][g] = NoRow
        BY <2>1, <2>8, <3>1 DEF ScanNetInv, LoopInv
      <4> QED
        BY <4>1 DEF Earned, NoRow
    <3>2. CASE ~(k = j /\ g = h)
      BY <2>4, <2>5, <2>8, <3>2 DEF ScanNetInv, EarnedInv, Earned
    <3> QED
      BY <3>1, <3>2
  <2> QED
    BY <2>10, <2>11, <2>12, <2>13 DEF ScanNetInv
<1>6. ASSUME NEW j \in Jobs, NEW h \in Hosts, ReadFails(j, h) PROVE ScanNetInv'
  BY <1>6, AttemptFails DEF ReadFails, vars
<1>7. ASSUME NEW m \in net, Receive(m) PROVE ScanNetInv'
  <2>1. m.job \in Jobs /\ m.host \in Hosts /\ m.id \in 1..Attempts
    BY DEF ScanNetInv, NetTypeOK
  <2>2. ASSUME NEW row \in {"unsaved", "snmp_error"}, Return(m.job, m.host, row),
               UNCHANGED lastErr, m.is # "request"
        PROVE  ScanNetInv'
    <3>1. tries[m.job][m.host] \in 1..Attempts
      <4>1. tries[m.job][m.host] \in 0..Attempts /\ m.id <= tries[m.job][m.host]
        BY <2>1 DEF ScanNetInv, NetTypeOK, NetInv
      <4> QED
        BY <2>1, <4>1, NetAssumption DEF Attempts
    <3>2. Device[m.host].community = Community[m.job]
      BY <2>2 DEF ScanNetInv, NetInv
    <3>3. Earned(m.job, m.host, row)
      BY <3>1, <3>2 DEF Earned
    <3> QED
      BY <2>1, <2>2, <3>3, ReturnStep
  <2>3. CASE /\ m.is = "garbled" /\ StepTo(m.job, m.host, "check")
             /\ Failed(m.job, m.host, "other") /\ net' = net \ {m}
             /\ UNCHANGED <<tries, sockets, identity, lateSent, vars>>
    BY <1>7, <2>1, <2>3, AttemptFails DEF Receive, vars
  <2> QED
    BY <1>7, <2>2, <2>3 DEF Receive
<1>8. ASSUME NEW j \in Jobs, NEW h \in Hosts, Elsewhere(OtherScanStep(j, h)) PROVE ScanNetInv'
  <2>1. CASE UpsertDiscovered(j, h)
    <3>1. result[j][h] = "unsaved" /\ scan[j][h] = "upsert"
      BY <2>1 DEF UpsertDiscovered, ScanNetInv, LoopInv
    <3> QED
      BY <1>8, <2>1, <3>1, ElsewhereStep
         DEF Elsewhere, UpsertDiscovered, ScanGoto, SetResult, TypeOK
  <2>2. CASE InsertResult(j, h)
    BY <1>8, <2>2, ElsewhereStep DEF Elsewhere, InsertResult, ScanGoto, TypeOK
  <2>3. CASE Assign(j, h)
    BY <1>8, <2>3, ElsewhereStep DEF Elsewhere, Assign, ScanGoto, dbVars, TypeOK
  <2> QED
    BY <1>8, <2>1, <2>2, <2>3 DEF Elsewhere, OtherScanStep
<1>9. ASSUME NEW r \in Requests, Elsewhere(RequestStep(r) \/ \E j \in Jobs : CancelGet(r, j))
      PROVE  ScanNetInv'
  <2>1. UNCHANGED <<scan, results, result>>
    BY <1>9 DEF Elsewhere, RequestStep, CancelLookup, CancelCall, CancelGet, dbVars
  <2>2. ASSUME NEW j \in Jobs, NEW h \in Hosts
        PROVE  sentResult'[j][h] \in {sentResult[j][h], result[j][h]}
    BY <1>9, LeavesResult DEF Elsewhere, RequestStep, CancelLookup, CancelCall, CancelGet, dbVars
  <2> QED
    BY <1>9, <2>1, <2>2, ElsewhereStep DEF Elsewhere
<1>10. ASSUME NEW m \in net, Respond(m) PROVE ScanNetInv'
  <2>1. PICK a \in Device[m.host].answers : net' = net \cup {[m EXCEPT !.is = a]}
    BY <1>10 DEF Respond
  <2>2. m \in [job : Jobs, host : Hosts, id : 1..Attempts, is : Answers \cup {"request"}]
    BY DEF ScanNetInv, NetTypeOK
  <2> DEFINE n == [job |-> m.job, host |-> m.host, id |-> m.id, is |-> a]
  <2>3. [m EXCEPT !.is = a] = n
    BY <2>2
  <2>4. a \in Answers
    BY <2>2, NetAssumption
  <2>5. UNCHANGED <<clientVars, lateSent, scan, result, results, sentResult>>
    BY <1>10 DEF Respond, vars
  <2>6. NetTypeOK'
    <3>1. n \in [job : Jobs, host : Hosts, id : 1..Attempts, is : Answers \cup {"request"}]
      BY <2>2, <2>4
    <3>2. net' \subseteq Datagrams
      BY <2>1, <2>3, <3>1 DEF ScanNetInv, NetTypeOK, Datagrams
    <3> QED
      BY <2>5, <3>2 DEF ScanNetInv, NetTypeOK, clientVars, Datagrams
  <2>7. NetInv'
    BY <1>10, <2>1, <2>3, <2>4, <2>5 DEF Respond, Admits, ScanNetInv, NetInv, clientVars
  <2>8. LoopInv' /\ EarnedInv'
    BY <2>5 DEF ScanNetInv, LoopInv, EarnedInv, Earned, clientVars
  <2> QED
    BY <2>6, <2>7, <2>8 DEF ScanNetInv
<1>11. ASSUME NetCrash PROVE ScanNetInv'
  <2> USE <1>11 DEF NetCrash, Crash, Active, ScanNetInv, TypeOK
  <2>0. \A j \in Jobs, h \in Hosts : sentResult'[j][h] \in {sentResult[j][h], result[j][h]}
    BY LeavesResult
  <2>1. NetTypeOK'
    BY DEF NetTypeOK, LoopStep
  <2>2. LoopInv'
    <3> SUFFICES ASSUME NEW j \in Jobs, NEW h \in Hosts
                 PROVE  /\ <<j, h>> \notin sockets' /\ step'[j][h] = "none"
                        /\ lastErr'[j][h] # "none" => tries'[j][h] > 0
                        /\ scan'[j][h] \in {"idle", "connect"} =>
                              tries'[j][h] = 0 /\ lastErr'[j][h] = "none"
                        /\ scan'[j][h] \in {"idle", "connect", "get"} =>
                              /\ result'[j][h] = NoRow /\ results'[j][h] = NoRow
                              /\ sentResult'[j][h] = NoRow
                        /\ scan'[j][h] = "upsert" => result'[j][h] = "unsaved"
      BY DEF LoopInv
    <3>1. sockets' = {} /\ step'[j][h] = "none" /\ tries' = tries /\ lastErr' = lastErr
      OBVIOUS
    <3>2. /\ lastErr[j][h] # "none" => tries[j][h] > 0
          /\ scan[j][h] \in {"idle", "connect"} => tries[j][h] = 0 /\ lastErr[j][h] = "none"
          /\ scan[j][h] \in {"idle", "connect", "get"} =>
                result[j][h] = NoRow /\ results[j][h] = NoRow /\ sentResult[j][h] = NoRow
          /\ scan[j][h] = "upsert" => result[j][h] = "unsaved"
      BY DEF LoopInv
    <3> QED
      BY <2>0, <3>1, <3>2
  <2>3. NetInv'
    BY DEF NetInv
  <2>4. EarnedInv'
    BY <2>0 DEF EarnedInv, Earned
  <2> QED
    BY <2>1, <2>2, <2>3, <2>4
<1>12. ASSUME Elsewhere(ServerStep) PROVE ScanNetInv'
  <2>1. UNCHANGED <<scan, result>>
    BY <1>12 DEF Elsewhere, ServerStep, CommitStatus, CommitResult, CommitElement
  <2>2. ASSUME NEW j \in Jobs, NEW h \in Hosts
        PROVE  /\ results'[j][h] \in {results[j][h], sentResult[j][h]}
               /\ sentResult'[j][h] \in {sentResult[j][h], NoRow}
    <3>1. CASE UNCHANGED <<results, sentResult>>
      BY <3>1
    <3>2. CASE \E k \in Jobs, g \in Hosts : CommitResult(k, g)
      BY <3>2 DEF CommitResult, TypeOK
    <3> QED
      BY <1>12, <3>1, <3>2 DEF Elsewhere, ServerStep, CommitStatus, CommitElement
  <2> QED
    BY <1>12, <2>1, <2>2, ElsewhereStep DEF Elsewhere
<1>13. CASE UNCHANGED netVars
  BY <1>13 DEF netVars, vars, ScanNetInv, NetTypeOK, LoopInv, NetInv, EarnedInv, Earned
<1> QED
  BY <1>1, <1>2, <1>3, <1>4, <1>5, <1>6, <1>7, <1>8, <1>9, <1>10, <1>11, <1>12, <1>13
     DEF NetNext, NetScanStep, Elsewhere, Of

-----------------------------------------------------------------------------
(* What the invariants say. *)

\* The scans with their network implement the jobs of DiscoveryJob, whatever
\* the network and the devices do; IndInv of the jobs holds with them.
THEOREM NetInvariants == NetSpec => [](IndInv /\ ScanNetInv)
<1>1. NetInit => IndInv /\ ScanNetInv
  <2>1. ASSUME NetInit PROVE IndInv
    <3>1. Init
      BY <2>1 DEF NetInit
    <3> QED
      BY <3>1, InitIndInv
  <2>2. ASSUME NetInit PROVE ScanNetInv
    BY <2>2, NetAssumption DEF NetInit, Init, ScanNetInv, NetTypeOK, LoopInv, NetInv, EarnedInv,
       Earned, LoopStep, NoRow, Attempts
  <2> QED
    BY <2>1, <2>2
<1>2. IndInv /\ ScanNetInv /\ [NetNext]_netVars => (IndInv /\ ScanNetInv)'
  BY NetStepRefines, IndInvStep, ScanNetStep DEF ScanNetInv
<1> QED
  BY <1>1, <1>2, PTL DEF NetSpec

\* A GetIdentity made of sockets, datagrams, deadlines and retries is, seen
\* from the job, the one step Get of DiscoveryJob.
THEOREM NetImplementsJob == NetSpec => Spec
<1>1. NetInit => Init
  BY DEF NetInit
<1>2. ScanNetInv /\ [NetNext]_netVars => [Next]_vars
  BY NetStepRefines DEF ScanNetInv
<1> QED
  BY <1>1, <1>2, NetInvariants, PTL DEF NetSpec, Spec

\* The types of the scans, and: a result row is the outcome that its attempts
\* and the device's community earned.
THEOREM VerdictIsEarnedHolds == NetSpec => [](NetTypeOK /\ VerdictIsEarned)
<1>1. ScanNetInv => NetTypeOK /\ VerdictIsEarned
  BY DEF ScanNetInv, EarnedInv, Earned, VerdictIsEarned
<1> QED
  BY <1>1, NetInvariants, PTL

\* A scan with a socket is a scan in flight.
THEOREM SocketsWithinPoolHolds == NetSpec => []SocketsWithinPool
<1>1. ScanNetInv /\ ConcurrencyLimit /\ NoScanOutlivesJob => SocketsWithinPool
  <2> SUFFICES ASSUME ScanNetInv, ConcurrencyLimit, NoScanOutlivesJob, NEW j \in Jobs
               PROVE  SocketsWithinPool!(j)
    BY DEF SocketsWithinPool
  <2> DEFINE open == {h \in Hosts : <<j, h>> \in sockets}
  <2>1. open \subseteq Running(j)
    BY DEF ScanNetInv, LoopInv, NetTypeOK, Running, Active
  <2>2. IsFiniteSet(Running(j))
    BY ConstAssumption, FS_Subset DEF Running
  <2>3. IsFiniteSet(open) /\ Cardinality(open) <= Cardinality(Running(j))
    BY <2>1, <2>2, FS_Subset
  <2>4. Cardinality(open) \in Nat /\ Cardinality(Running(j)) \in Nat /\ Limit \in Int
    BY <2>2, <2>3, FS_CardinalityType, ConstAssumption DEF Limit
  <2>5. Cardinality(Running(j)) <= Limit
    BY DEF ConcurrencyLimit
  <2>6. Cardinality(open) <= Limit
    BY <2>3, <2>4, <2>5
  <2>7. status[j] \in Terminal => open = {}
    BY <2>1 DEF NoScanOutlivesJob
  <2> QED
    BY <2>6, <2>7
<1> QED
  BY <1>1, NetImplementsJob, NetInvariants, ConcurrencyLimitHolds, ScansWithinJob, PTL

-----------------------------------------------------------------------------
(* Traffic after a cancel. *)

\* The hosts that were asked after the cancel, and those that still may be.
\* Nobody joins this set once the job is cancelled.
Exposed(j) == {h \in Hosts : lateSent[j][h] > 0 \/ step[j][h] = "send"}

TrafficInv == \A j \in Jobs :
    IF ctxDone[j]
       THEN /\ Cardinality(Exposed(j)) <= Limit
            /\ \A h \in Hosts : /\ lateSent[j][h] <= 1
                                /\ step[j][h] = "send" => lateSent[j][h] = 0
       ELSE \A h \in Hosts : lateSent[j][h] = 0

\* What one step can do to the counter and to the scans about to send.
LEMMA TrafficStep ==
    ASSUME IndInv, ScanNetInv, [NetNext]_netVars, NEW j \in Jobs, NEW h \in Hosts
    PROVE  /\ ctxDone[j] => ctxDone'[j]
           /\ ctxDone[j] /\ step'[j][h] = "send" => step[j][h] = "send" /\ lateSent'[j][h] = lateSent[j][h]
           /\ \/ lateSent'[j][h] = lateSent[j][h]
              \/ ctxDone[j] /\ step[j][h] = "send" /\ lateSent'[j][h] = lateSent[j][h] + 1
<1> DEFINE Goal == /\ ctxDone[j] => ctxDone'[j]
                   /\ ctxDone[j] /\ step'[j][h] = "send" => step[j][h] = "send" /\ lateSent'[j][h] = lateSent[j][h]
                   /\ \/ lateSent'[j][h] = lateSent[j][h]
                      \/ ctxDone[j] /\ step[j][h] = "send" /\ lateSent'[j][h] = lateSent[j][h] + 1
<1>0. /\ step \in [Jobs -> [Hosts -> LoopStep]] /\ lateSent \in [Jobs -> [Hosts -> Nat]]
      /\ ctxDone \in [Jobs -> BOOLEAN]
      /\ \A m \in net : m.job \in Jobs /\ m.host \in Hosts
  BY TypeParts DEF IndInv, TypeOK, ScanNetInv, LoopTypes, Datagrams
<1>1. ASSUME [Next]_vars PROVE ctxDone[j] => ctxDone'[j]
  <2>1. \/ UNCHANGED ctxDone
        \/ \E k \in Jobs : ctxDone' = [ctxDone EXCEPT ![k] = TRUE]
        \/ \E r \in Requests : ctxDone' = [ctxDone EXCEPT ![reqJob[r]] = TRUE]
    BY <1>1 DEF Next, RunnerStep, ScanStep, RequestStep, Create, Register, MarkRunning,
       LoadRules, MarkFailed, Launch, Go, Wait, WriteFinal, Cleanup, Connect, Get,
       UpsertDiscovered, InsertResult, Assign, CancelGet, CancelLookup, CancelCall, Crash,
       ServerStep, CommitStatus, CommitResult, CommitElement, WriteStatus, Move, ScanMove,
       runVars, vars
  <2> QED
    BY <1>0, <2>1
<1>2. ctxDone[j] => ctxDone'[j]
  BY <1>1, NetStepRefines DEF ScanNetInv
<1>3. ASSUME UNCHANGED <<step, lateSent>> PROVE Goal
  BY <1>2, <1>3
<1>4. ASSUME NEW k \in Jobs, NEW g \in Hosts, NetConnect(k, g) PROVE Goal
  <2>1. lateSent' = lateSent /\ (step' = step \/ step' = [step EXCEPT ![k][g] = "check"])
    BY <1>4 DEF NetConnect, StepTo
  <2>2. CASE step' = step
    BY <1>3, <2>1, <2>2
  <2>3. CASE step' = [step EXCEPT ![k][g] = "check"]
    BY <1>0, <1>2, <2>1, <2>3
  <2> QED
    BY <2>1, <2>2, <2>3
<1>5. ASSUME NEW k \in Jobs, NEW g \in Hosts, Check(k, g) PROVE Goal
  BY <1>0, <1>2, <1>5 DEF Check, Return, StepTo
<1>6. ASSUME NEW k \in Jobs, NEW g \in Hosts, Send(k, g) PROVE Goal
  <2>1. PICK l \in {"wait", "check"} : step' = [step EXCEPT ![k][g] = l]
    BY <1>6 DEF Send, StepTo
  <2>2. \/ lateSent' = lateSent
        \/ lateSent' = [lateSent EXCEPT ![k][g] = IF ctxDone[k] THEN @ + 1 ELSE @]
    BY <1>6 DEF Send
  <2>3. step[k][g] = "send"
    BY <1>6 DEF Send
  <2>4. CASE k = j /\ g = h
    BY <1>0, <1>2, <2>1, <2>2, <2>3, <2>4
  <2>5. CASE ~(k = j /\ g = h)
    BY <1>0, <1>2, <2>1, <2>2, <2>5
  <2> QED
    BY <2>4, <2>5
<1>7. ASSUME NEW k \in Jobs, NEW g \in Hosts, ReadFails(k, g) PROVE Goal
  BY <1>0, <1>2, <1>7 DEF ReadFails, StepTo
<1>8. ASSUME NEW m \in net, Receive(m) PROVE Goal
  <2>1. lateSent' = lateSent /\ \E l \in {"none", "check"} : step' = [step EXCEPT ![m.job][m.host] = l]
    BY <1>8 DEF Receive, Return, StepTo
  <2> QED
    BY <1>0, <1>2, <2>1
<1>9. ASSUME NetCrash PROVE Goal
  BY <1>0, <1>2, <1>9 DEF NetCrash
<1> QED
  <2>1. CASE UNCHANGED netVars
    BY <1>3, <2>1 DEF netVars
  <2>2. ASSUME NEW m \in net, Respond(m) PROVE Goal
    BY <1>3, <2>2 DEF Respond, clientVars
  <2> QED
    BY <1>3, <1>4, <1>5, <1>6, <1>7, <1>8, <1>9, <2>1, <2>2
       DEF NetNext, NetScanStep, Elsewhere, clientVars, Of

\* Every step keeps the bound on late traffic.
LEMMA TrafficInvStep ==
    IndInv /\ ScanNetInv /\ TrafficInv /\ (ScanNetInv /\ ConcurrencyLimit)' /\ [NetNext]_netVars
       => TrafficInv'
<1> SUFFICES ASSUME IndInv, ScanNetInv, TrafficInv, ScanNetInv', ConcurrencyLimit', [NetNext]_netVars,
                    NEW j \in Jobs
             PROVE  TrafficInv!(j)'
  BY DEF TrafficInv
<1>1. \A h \in Hosts :
         /\ ctxDone[j] => ctxDone'[j]
         /\ ctxDone[j] /\ step'[j][h] = "send" => step[j][h] = "send" /\ lateSent'[j][h] = lateSent[j][h]
         /\ \/ lateSent'[j][h] = lateSent[j][h]
            \/ ctxDone[j] /\ step[j][h] = "send" /\ lateSent'[j][h] = lateSent[j][h] + 1
  BY TrafficStep
<1>2. \A h \in Hosts : lateSent[j][h] \in Nat
  BY DEF ScanNetInv, NetTypeOK
<1>3. /\ IsFiniteSet(Exposed(j)) /\ IsFiniteSet(Running(j))
      /\ Cardinality(Exposed(j)) \in Nat /\ Cardinality(Running(j)) \in Nat /\ Limit \in Int
  BY ConstAssumption, FS_Subset, FS_CardinalityType DEF Exposed, Running, Limit
<1>4. CASE ctxDone[j]
  <2>1. ctxDone'[j] \/ Hosts = {}
    BY <1>1, <1>4
  <2>2. Exposed(j)' \subseteq Exposed(j)
    BY <1>1, <1>2, <1>4 DEF Exposed
  <2>3. Cardinality(Exposed(j)') <= Cardinality(Exposed(j)) /\ Cardinality(Exposed(j)') \in Nat
    BY <1>3, <2>2, FS_Subset, FS_CardinalityType
  <2>4. Cardinality(Exposed(j)') <= Limit
    BY <1>3, <1>4, <2>3 DEF TrafficInv
  <2>5. \A h \in Hosts : /\ lateSent'[j][h] <= 1
                         /\ step'[j][h] = "send" => lateSent'[j][h] = 0
    BY <1>1, <1>2, <1>4 DEF TrafficInv
  <2> QED
    BY <2>1, <2>4, <2>5
<1>5. CASE ~ctxDone[j]
  <2>1. \A h \in Hosts : lateSent'[j][h] = 0
    BY <1>1, <1>5 DEF TrafficInv
  <2>2. CASE ctxDone'[j]
    <3>1. Exposed(j)' \subseteq Running(j)'
      BY <2>1 DEF Exposed, Running, Active, ScanNetInv, NetTypeOK
    <3>2. IsFiniteSet(Running(j)') /\ Cardinality(Running(j)') \in Nat
      BY ConstAssumption, FS_Subset, FS_CardinalityType DEF Running
    <3>3. Cardinality(Exposed(j)') <= Cardinality(Running(j)') /\ Cardinality(Exposed(j)') \in Nat
      BY <3>1, <3>2, FS_Subset, FS_CardinalityType
    <3>4. Cardinality(Exposed(j)') <= Limit
      BY <1>3, <3>2, <3>3 DEF ConcurrencyLimit
    <3> QED
      BY <2>1, <2>2, <3>4
  <2>3. CASE ~ctxDone'[j]
    BY <2>1, <2>3
  <2> QED
    BY <2>2, <2>3
<1> QED
  BY <1>4, <1>5

\* After a cancel at most one more request leaves per scan, and no more of
\* them than the pool has slots.
THEOREM CancelStopsTrafficHolds == NetSpec => []CancelStopsTraffic
<1>1. NetInit => TrafficInv
  BY DEF NetInit, Init, TrafficInv
<1>2. TrafficInv /\ ScanNetInv => CancelStopsTraffic
  <2> SUFFICES ASSUME TrafficInv, ScanNetInv, NEW j \in Jobs PROVE CancelStopsTraffic!(j)
    BY DEF CancelStopsTraffic
  <2> DEFINE sent == {h \in Hosts : lateSent[j][h] > 0}
  <2>1. /\ IsFiniteSet(Exposed(j)) /\ IsFiniteSet(sent) /\ Cardinality(Exposed(j)) \in Nat
        /\ Cardinality(sent) \in Nat /\ Limit \in Nat
    BY ConstAssumption, FS_Subset, FS_CardinalityType DEF Exposed, Limit
  <2>2. Cardinality(sent) <= Cardinality(Exposed(j))
    BY <2>1, FS_Subset DEF Exposed
  <2>3. CASE ctxDone[j]
    BY <2>1, <2>2, <2>3 DEF TrafficInv
  <2>4. CASE ~ctxDone[j]
    <3>1. sent = {}
      BY <2>4 DEF TrafficInv
    <3> QED
      BY <2>1, <2>4, <3>1, FS_EmptySet DEF TrafficInv
  <2> QED
    BY <2>3, <2>4
<1> QED
  BY <1>1, <1>2, TrafficInvStep, NetInvariants, NetImplementsJob, ConcurrencyLimitHolds, PTL
     DEF NetSpec
-----------------------------------------------------------------------------
(* What the answer of a device becomes. *)

Answer(h) == {Binding(h, oid) : oid \in OIDs}

\* The values of the answer that have this name.
ValuesOf(h, oid) == {b.value : b \in {v \in Answer(h) : normalizeOID(v.name) = Str(FALSE, oid)}}

\* normalizeOID leaves the text, and no dot.
LEMMA NormalizeStr ==
    ASSUME NEW d, NEW t
    PROVE  Str(d, t).text = t /\ normalizeOID(Str(d, t)) = Str(FALSE, t)
<1> DEFINE s == Str(d, t)
           n == normalizeOID(s)
<1>1. /\ s = [f \in {"dot", "text"} |-> IF f = "dot" THEN d ELSE t]
      /\ s.text = t
  BY DEF Str
<1>0. \A e : Str(e, t) = [f \in {"dot", "text"} |-> IF f = "dot" THEN e ELSE t]
  BY DEF Str
<1>2. Str(FALSE, t) = [f \in {"dot", "text"} |-> IF f = "dot" THEN FALSE ELSE t]
  BY <1>0
<1>3. n = [f \in {"dot", "text"} |-> IF f = "dot" THEN FALSE ELSE t]
  <2> HIDE DEF s
  <2>1. n = [f \in DOMAIN s |-> IF f = "dot" THEN FALSE ELSE s[f]]
    BY DEF normalizeOID
  <2> QED
    BY <1>1, <2>1
<1> QED
  BY <1>1, <1>2, <1>3

\* However a device writes its names, the answer has one value for each OID.
LEMMA OneValueEach ==
    ASSUME NEW h, NEW oid \in OIDs
    PROVE  ValuesOf(h, oid) = {Binding(h, oid).value}
<1>1. \A o \in OIDs : Binding(h, o).name = Str(TRUE, o)
  BY DEF Binding
<1>2. \A o : normalizeOID(Str(TRUE, o)) = Str(FALSE, o)
  BY NormalizeStr
<1>3. \A o : Str(FALSE, o) = Str(FALSE, oid) => o = oid
  <2> TAKE o
  <2>1. Str(FALSE, o).text = o /\ Str(FALSE, oid).text = oid
    BY DEF Str
  <2> QED
    BY <2>1
<1>4. ASSUME NEW b \in Answer(h)
      PROVE  normalizeOID(b.name) = Str(FALSE, oid) <=> b = Binding(h, oid)
  <2>1. PICK o \in OIDs : b = Binding(h, o)
    BY DEF Answer
  <2>2. normalizeOID(b.name) = Str(FALSE, o)
    BY <1>1, <1>2, <2>1
  <2>3. normalizeOID(Binding(h, oid).name) = Str(FALSE, oid)
    BY <1>1, <1>2
  <2> QED
    BY <1>3, <2>1, <2>2, <2>3
<1>5. Binding(h, oid) \in Answer(h)
  BY DEF Answer
<1> QED
  BY <1>4, <1>5 DEF ValuesOf

\* The value of an OID in the answer is the one that the device holds.
LEMMA BindingIsDevices ==
    ASSUME NEW h \in Hosts, NEW oid \in OIDs
    PROVE  LET v == Binding(h, oid).value
           IN  /\ pduString(v).text = DeviceStr(h, oid)
               /\ normalizeOID(pduString(v)) = Str(FALSE, DeviceStr(h, oid))
               /\ pduUint32(v) \in 0..(Word - 1)
<1> DEFINE D == Device[h].values
           known == {n \in DOMAIN D : n.text = oid}
           n0 == CHOOSE n \in known : TRUE
           v == Binding(h, oid).value
<1>1. known = {n \in DOMAIN D : normalizeOID(n) = Str(FALSE, oid)}
  <2> SUFFICES ASSUME NEW n \in DOMAIN D PROVE n.text = oid <=> normalizeOID(n) = Str(FALSE, oid)
    OBVIOUS
  <2>1. n = Str(n.dot, n.text)
    BY DeviceAssumption
  <2>2. normalizeOID(Str(n.dot, n.text)) = Str(FALSE, n.text)
    BY NormalizeStr
  <2>3. Str(FALSE, n.text).text = n.text /\ Str(FALSE, oid).text = oid
    BY DEF Str
  <2> QED
    BY <2>1, <2>2, <2>3
<1>2. v = IF known = {} THEN Nothing ELSE D[n0]
  <2> DEFINE B == {n \in DOMAIN D : normalizeOID(n) = Str(FALSE, oid)}
  <2>1. v = IF B = {} THEN Nothing ELSE D[CHOOSE n \in B : TRUE]
    BY DEF Binding
  <2>2. B = known
    BY <1>1
  <2> HIDE DEF B, known, D, v
  <2> QED
    BY <2>1, <2>2
<1>3. /\ v.type \in {"text", "number", "nil"}
      /\ v.str = Str(v.str.dot, v.str.text)
      /\ v.num \in Int
  <2>1. CASE known = {}
    <3>1. v = Nothing
      BY <1>2, <2>1
    <3>2. \A e : LET r == [type |-> "nil", str |-> e, num |-> 0]
                 IN  r.type = "nil" /\ r.str = e /\ r.num \in Int
      OBVIOUS
    <3>3. \A d, t : Str(d, t) = Str(Str(d, t).dot, Str(d, t).text)
      BY DEF Str
    <3>4. /\ Nothing.type = "nil" /\ Nothing.num \in Int
          /\ Nothing.str = Str(Nothing.str.dot, Nothing.str.text)
      BY <3>2, <3>3, Zenon DEF Nothing
    <3> HIDE DEF v
    <3> QED
      BY <3>1, <3>4
  <2>2. CASE known # {}
    <3>1. n0 \in DOMAIN D /\ v = D[n0]
      BY <1>2, <2>2
    <3> QED
      BY <3>1, DeviceAssumption
  <2> QED
    BY <2>1, <2>2
<1>4. DeviceStr(h, oid) = IF v.type = "nil" THEN "<nil>"
                          ELSE IF v.type = "number" THEN ToString(v.num) ELSE v.str.text
  <2>0. DeviceStr(h, oid) = IF known = {} \/ D[n0].type = "nil" THEN "<nil>"
                            ELSE IF D[n0].type = "number" THEN ToString(D[n0].num)
                            ELSE D[n0].str.text
    BY DEF DeviceStr
  <2> HIDE DEF v, known, n0, D
  <2>1. CASE known = {}
    BY <1>2, <2>0, <2>1 DEF Nothing
  <2>2. CASE known # {}
    BY <1>2, <2>0, <2>2
  <2> QED
    BY <2>1, <2>2
<1> HIDE DEF v, known, n0, D
<1>5. pduString(v) = Str(pduString(v).dot, DeviceStr(h, oid))
  <2>1. CASE v.type = "text"
    BY <1>3, <1>4, <2>1 DEF pduString
  <2>2. CASE v.type = "number"
    BY <1>4, <2>2 DEF pduString, Str
  <2>3. CASE v.type = "nil"
    BY <1>4, <2>3 DEF pduString, Str
  <2> QED
    BY <1>3, <2>1, <2>2, <2>3
<1>6. \A d, t : Str(d, t).text = t /\ normalizeOID(Str(d, t)) = Str(FALSE, t)
  BY NormalizeStr
<1>7. pduUint32(v) \in 0..(Word - 1)
  BY <1>3, NetAssumption DEF pduUint32
<1>8. /\ pduString(v).text = DeviceStr(h, oid)
      /\ normalizeOID(pduString(v)) = Str(FALSE, DeviceStr(h, oid))
  BY <1>5, <1>6
<1> QED
  BY <1>7, <1>8 DEF v

Devices(id, h) == /\ id.SysName.text = DeviceStr(h, "sysName")
                  /\ id.SysDescr.text = DeviceStr(h, "sysDescr")
                  /\ id.SysObjectID = Str(FALSE, DeviceStr(h, "sysObjectID"))
                  /\ id.SysUpTime \in 0..(Word - 1)

\* What GetIdentity reads from an answer is what the device holds.
LEMMA ReadsDevice == ASSUME NEW h \in Hosts PROVE Devices(ReadIdentity(Answer(h)), h)
<1> DEFINE val(oid) == ValuesOf(h, oid)
           v(oid) == Binding(h, oid).value
           str(oid) == IF val(oid) = {} THEN Str(FALSE, "")
                                        ELSE pduString(CHOOSE x \in val(oid) : TRUE)
<1>1. \A oid \in OIDs : val(oid) # {} /\ (CHOOSE x \in val(oid) : TRUE) = v(oid)
  BY OneValueEach
<1>2. ReadIdentity(Answer(h)) =
         [SysDescr    |-> str("sysDescr"),
          SysObjectID |-> normalizeOID(str("sysObjectID")),
          SysName     |-> str("sysName"),
          SysUpTime   |-> IF val("sysUpTime") = {} THEN 0
                          ELSE pduUint32(CHOOSE x \in val("sysUpTime") : TRUE)]
  BY DEF ReadIdentity, ValuesOf
<1>3. \A oid \in OIDs : str(oid) = pduString(v(oid))
  BY <1>1
<1>4. \A oid \in OIDs : /\ pduString(v(oid)).text = DeviceStr(h, oid)
                        /\ normalizeOID(pduString(v(oid))) = Str(FALSE, DeviceStr(h, oid))
                        /\ pduUint32(v(oid)) \in 0..(Word - 1)
  BY BindingIsDevices
<1>5. "sysDescr" \in OIDs /\ "sysObjectID" \in OIDs /\ "sysName" \in OIDs /\ "sysUpTime" \in OIDs
  BY DEF OIDs
<1>6. ReadIdentity(Answer(h)) =
         [SysDescr    |-> pduString(v("sysDescr")),
          SysObjectID |-> normalizeOID(pduString(v("sysObjectID"))),
          SysName     |-> pduString(v("sysName")),
          SysUpTime   |-> pduUint32(v("sysUpTime"))]
  BY <1>1, <1>2, <1>3, <1>5
<1> DEFINE id == ReadIdentity(Answer(h))
<1>7. /\ id.SysDescr = pduString(v("sysDescr"))
      /\ id.SysObjectID = normalizeOID(pduString(v("sysObjectID")))
      /\ id.SysName = pduString(v("sysName"))
      /\ id.SysUpTime = pduUint32(v("sysUpTime"))
  <2> HIDE DEF v
  <2> QED
    BY <1>6
<1> HIDE DEF v, id
<1>8. /\ id.SysName.text = DeviceStr(h, "sysName") /\ id.SysDescr.text = DeviceStr(h, "sysDescr")
      /\ id.SysObjectID = Str(FALSE, DeviceStr(h, "sysObjectID"))
      /\ id.SysUpTime \in 0..(Word - 1)
  BY <1>4, <1>5, <1>7
<1> QED
  BY <1>8 DEF Devices, id

\* The table of identities has an entry for every scan, and no scan that goes
\* on to store an element holds anything but its device's.
IdentityInv ==
    /\ identity = [j \in Jobs |-> [h \in Hosts |-> identity[j][h]]]
    /\ \A j \in Jobs, h \in Hosts : scan[j][h] = "upsert" => Devices(identity[j][h], h)

\* A scan that goes on to store an element has just been given its identity;
\* no other step writes it.
LEMMA IdentityStep ==
    ASSUME TypeOK, ScanNetInv, IdentityInv, [NetNext]_netVars
    PROVE  IdentityInv'
<1> USE DEF TypeOK, IdentityInv
<1>1. ASSUME identity' = identity,
             \A j \in Jobs, h \in Hosts : scan'[j][h] = "upsert" => scan[j][h] = "upsert"
      PROVE  IdentityInv'
  <2>1. identity' = [j \in Jobs |-> [h \in Hosts |-> identity'[j][h]]]
    BY <1>1
  <2>2. \A j \in Jobs, h \in Hosts : scan'[j][h] = "upsert" => Devices(identity'[j][h], h)
    BY <1>1
  <2> QED
    BY <2>1, <2>2
<1>2. ASSUME NEW j \in Jobs, NEW h \in Hosts, NEW l \in {"connect", "get", "record", "done", "assign"},
             identity' = identity, scan' = [scan EXCEPT ![j][h] = l]
      PROVE  IdentityInv'
  <2>1. \A k \in Jobs, g \in Hosts : scan'[k][g] = "upsert" => scan[k][g] = "upsert"
    BY <1>2
  <2> QED
    BY <1>1, <1>2, <2>1
<1>3. ASSUME identity' = identity, scan' = scan PROVE IdentityInv'
  BY <1>1, <1>3
<1>4. ASSUME NEW j \in Jobs, NEW h \in Hosts, Check(j, h) PROVE IdentityInv'
  <2>1. CASE UNCHANGED vars
    BY <1>3, <1>4, <2>1 DEF Check, vars, runVars
  <2>2. ASSUME NEW row \in {"no_response", "snmp_error"}, Return(j, h, row) PROVE IdentityInv'
    BY <1>2, <1>4, <2>2 DEF Check, Return, ScanMove, ScanGoto
  <2>3. Verdict(j, h) \in {"no_response", "snmp_error"}
    BY VerdictRows
  <2> HIDE DEF IdentityInv, TypeOK
  <2> QED
    BY <1>4, <2>1, <2>2, <2>3 DEF Check
<1>5. ASSUME NEW m \in net, Receive(m) PROVE IdentityInv'
  <2> DEFINE j == m.job
             h == m.host
  <2>1. j \in Jobs /\ h \in Hosts
    BY DEF ScanNetInv, NetTypeOK
  <2>2. CASE m.is = "values"
    <3>1. /\ identity' = [identity EXCEPT ![j][h] = ReadIdentity(Answer(h))]
          /\ scan' = [scan EXCEPT ![j][h] = "upsert"]
      BY <1>5, <2>2 DEF Receive, Answer, Return, ScanMove, ScanGoto
    <3>2. Devices(ReadIdentity(Answer(h)), h)
      BY <2>1, ReadsDevice
    <3> HIDE DEF j, h
    <3>3. identity' = [k \in Jobs |-> [g \in Hosts |-> identity'[k][g]]]
      BY <2>1, <3>1
    <3>4. ASSUME NEW k \in Jobs, NEW g \in Hosts, scan'[k][g] = "upsert"
          PROVE  Devices(identity'[k][g], g)
      <4>1. CASE k = j /\ g = h
        <5>1. identity'[j][h] = ReadIdentity(Answer(h))
          BY <2>1, <3>1
        <5> QED
          BY <3>2, <4>1, <5>1
      <4>2. CASE ~(k = j /\ g = h)
        <5>1. identity'[k][g] = identity[k][g] /\ scan[k][g] = "upsert"
          BY <2>1, <3>1, <3>4, <4>2
        <5> QED
          BY <5>1
      <4> QED
        BY <4>1, <4>2
    <3> QED
      BY <3>3, <3>4
  <2>3. CASE m.is = "errorStatus"
    BY <1>2, <1>5, <2>1, <2>3 DEF Receive, Return, ScanMove, ScanGoto
  <2>4. CASE m.is = "garbled"
    BY <1>3, <1>5, <2>4 DEF Receive, vars, runVars
  <2> QED
    BY <1>5, <2>2, <2>3, <2>4 DEF Receive
<1>6. ASSUME NEW j \in Jobs, NEW h \in Hosts, NetConnect(j, h) PROVE IdentityInv'
  <2>1. PICK l \in {"record", "get"} : scan' = [scan EXCEPT ![j][h] = l]
    BY <1>6 DEF NetConnect, Connect, ScanMove, ScanGoto
  <2> QED
    BY <1>2, <1>6, <2>1 DEF NetConnect
<1>7. ASSUME NEW j \in Jobs, NEW h \in Hosts, Elsewhere(OtherScanStep(j, h)) PROVE IdentityInv'
  <2>1. PICK l \in {"record", "assign", "done"} : scan' = [scan EXCEPT ![j][h] = l]
    BY <1>7 DEF Elsewhere, OtherScanStep, UpsertDiscovered, InsertResult, Assign, ScanGoto
  <2> QED
    BY <1>2, <1>7, <2>1 DEF Elsewhere
<1>8. ASSUME NEW j \in Jobs, Elsewhere(Create(j) \/ RunnerStep(j)) PROVE IdentityInv'
  <2>1. CASE Go(j)
    <3>1. PICK h \in todo[j] : scan' = [scan EXCEPT ![j][h] = "connect"]
      BY <2>1 DEF Go
    <3> QED
      BY <1>2, <1>8, <3>1 DEF Elsewhere
  <2>2. CASE ~Go(j)
    BY <1>3, <1>8, <2>2 DEF Elsewhere, Create, RunnerStep, Register, MarkRunning, LoadRules, MarkFailed,
       Launch, Wait, WriteFinal, Cleanup, Move, WriteStatus
  <2> QED
    BY <2>1, <2>2
<1>9. ASSUME NEW r \in Requests, Elsewhere(RequestStep(r) \/ \E j \in Jobs : CancelGet(r, j))
      PROVE  IdentityInv'
  BY <1>3, <1>9 DEF Elsewhere, RequestStep, CancelGet, CancelLookup, CancelCall
<1>10. ASSUME NEW j \in Jobs, NEW h \in Hosts, Send(j, h) \/ ReadFails(j, h) PROVE IdentityInv'
  BY <1>3, <1>10 DEF Send, ReadFails, vars, runVars
<1>11. ASSUME NEW m \in net, Respond(m) PROVE IdentityInv'
  BY <1>3, <1>11 DEF Respond, vars, runVars
<1>12. CASE NetCrash
  BY <1>1, <1>12 DEF NetCrash, Crash
<1>13. CASE UNCHANGED netVars
  BY <1>3, <1>13 DEF netVars, vars, runVars
<1>14. CASE Elsewhere(ServerStep)
  BY <1>3, <1>14 DEF Elsewhere, ServerStep, CommitStatus, CommitResult, CommitElement
<1> QED
  BY <1>4, <1>5, <1>6, <1>7, <1>8, <1>9, <1>10, <1>11, <1>12, <1>13, <1>14
     DEF NetNext, NetScanStep, Of

\* The element that a scan stores is what its own device holds, whatever the
\* network did to the datagrams of this scan and of the others.
THEOREM IdentityIsDevicesHolds == NetSpec => []IdentityIsDevices
<1>1. NetInit => IdentityInv
  BY DEF NetInit, Init, IdentityInv
<1>2. IdentityInv => IdentityIsDevices
  BY DEF IdentityInv, IdentityIsDevices, Devices
<1>3. IndInv /\ ScanNetInv /\ IdentityInv /\ [NetNext]_netVars => IdentityInv'
  BY IdentityStep DEF IndInv
<1> QED
  BY <1>1, <1>2, <1>3, NetInvariants, PTL DEF NetSpec
=============================================================================
