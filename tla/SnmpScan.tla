------------------------------ MODULE SnmpScan ------------------------------
(***************************************************************************)
(* The SNMP side of a discovery job: what GetIdentity does while           *)
(* DiscoveryJob only says that it ends with one of three outcomes.  Every  *)
(* scan opens a UDP socket, asks the device, waits for a deadline, asks    *)
(* again.  Datagrams are lost, delayed, duplicated and overtaken.          *)
(*   src/internal/snmp/gosnmp_client.go and client.go; the device answers  *)
(*   like src/internal/snmp/snmptest/agent.go.  The retry loop itself is   *)
(*   in the library gosnmp, and is modelled from its documented behaviour. *)
(***************************************************************************)
EXTENDS DiscoveryJob, TLC

CONSTANTS Retries,    \* the retries of NewGoSNMPClient, any integer; main gives it 1
          Community,  \* Community[j]: the community string of job j
          Device,     \* Device[h]: what listens on host h, see Devices
          NoCommunity,\* the community of a host on which nothing listens
          Word        \* 2^32 in the code: uint32 wraps here

\* A device knows one community, holds PDUs, and answers a request with its
\* values, with an error status, or with a packet gosnmp cannot decode.
Answers == {"values", "errorStatus", "garbled"}

ASSUME NetAssumption ==
    /\ Retries \in Int
    /\ Word \in Nat \ {0}
    /\ \A j \in Jobs : Community[j] # NoCommunity
    /\ \A h \in Hosts : Device[h].answers \subseteq Answers

VARIABLES
    step,      \* step[j][h]: where the retry loop of the scan is
    tries,     \* tries[j][h]: requests attempted so far
    lastErr,   \* lastErr[j][h]: what the last attempt failed with
    sockets,   \* the scans that hold an open socket
    net,       \* datagrams under way, of scans that still listen
    identity,  \* identity[j][h]: what GetIdentity returned
    lateSent   \* lateSent[j][h]: requests sent after the job was cancelled

clientVars == <<step, tries, lastErr, sockets>>
netVars == <<step, tries, lastErr, sockets, net, identity, lateSent, vars>>

LoopStep == {"none", "check", "send", "wait"}
Of(j, h) == {m \in net : m.job = j /\ m.host = h}

-----------------------------------------------------------------------------
(* Values.  A string is its text and whether a dot precedes it. *)

Str(d, t) == [dot |-> d, text |-> t]
OIDs == {"sysDescr", "sysObjectID", "sysUpTime", "sysName"}

\* Mutant: names are compared as the library delivers them.
normalizeOID_Kept(s) == s

normalizeOID(s) == [s EXCEPT !.dot = FALSE]

\* A value is a text, a number, or nothing at all (NoSuchObject).
Text(s)   == [type |-> "text", str |-> s, num |-> 0]
Number(n) == [type |-> "number", str |-> Str(FALSE, ""), num |-> n]
Nothing   == [type |-> "nil", str |-> Str(FALSE, ""), num |-> 0]

\* Anything that is not a string is printed, a missing value as "<nil>".
pduString(v) == CASE v.type = "text"   -> v.str
                  [] v.type = "number" -> Str(FALSE, ToString(v.num))
                  [] v.type = "nil"    -> Str(FALSE, "<nil>")

\* What a device may hold: such names, and such values.
ASSUME DeviceAssumption ==
    \A h \in Hosts : \A n \in DOMAIN Device[h].values :
        LET v == Device[h].values[n] IN
        /\ n = Str(n.dot, n.text)
        /\ v.type \in {"text", "number", "nil"}
        /\ v.str = Str(v.str.dot, v.str.text)
        /\ v.num \in Int

pduUint32(v) == IF v.type = "number" THEN v.num % Word ELSE 0

\* Agent.respond: each requested name comes back, as the library writes it,
\* with the device's value for it or with none.  The agent's own table may
\* hold names with or without the dot.
Binding(h, oid) ==
    LET known == {n \in DOMAIN Device[h].values : normalizeOID(n) = Str(FALSE, oid)}
    IN  [name |-> Str(TRUE, oid),
         value |-> IF known = {} THEN Nothing
                                 ELSE Device[h].values[CHOOSE n \in known : TRUE]]

NoIdentity == [SysDescr |-> Str(FALSE, ""), SysObjectID |-> Str(FALSE, ""),
               SysName |-> Str(FALSE, ""), SysUpTime |-> 0]

\* The loop over the variables of the answer: a field that no variable names
\* keeps its zero value.
ReadIdentity(bindings) ==
    LET val(oid) == {b.value : b \in {v \in bindings : normalizeOID(v.name) = Str(FALSE, oid)}}
        str(oid) == IF val(oid) = {} THEN Str(FALSE, "")
                                     ELSE pduString(CHOOSE x \in val(oid) : TRUE)
    IN  [SysDescr    |-> str("sysDescr"),
         SysObjectID |-> normalizeOID(str("sysObjectID")),
         SysName     |-> str("sysName"),
         SysUpTime   |-> IF val("sysUpTime") = {} THEN 0
                         ELSE pduUint32(CHOOSE x \in val("sysUpTime") : TRUE)]

-----------------------------------------------------------------------------
NetInit ==
    /\ Init
    /\ step = [j \in Jobs |-> [h \in Hosts |-> "none"]]
    /\ tries = [j \in Jobs |-> [h \in Hosts |-> 0]]
    /\ lastErr = [j \in Jobs |-> [h \in Hosts |-> "none"]]
    /\ sockets = {}
    /\ net = {}
    /\ identity = [j \in Jobs |-> [h \in Hosts |-> NoIdentity]]
    /\ lateSent = [j \in Jobs |-> [h \in Hosts |-> 0]]

StepTo(j, h, l) == step' = [step EXCEPT ![j][h] = l]
Failed(j, h, e) == lastErr' = [lastErr EXCEPT ![j][h] = e]

\* GetIdentity up to Connect: one socket per scan.
NetConnect(j, h) ==
    /\ Connect(j, h)
    /\ IF scan'[j][h] = "get"
          THEN StepTo(j, h, "check") /\ sockets' = sockets \cup {<<j, h>>}
          ELSE UNCHANGED <<step, sockets>>
    /\ UNCHANGED <<tries, lastErr, net, identity, lateSent>>

\* Mutant: the socket is not closed.
Return_NoClose(j, h, row) ==
    /\ scan[j][h] = "get"
    /\ ScanMove(j, h, IF row = "unsaved" THEN "upsert" ELSE "record", row)
    /\ StepTo(j, h, "none")
    /\ net' = net \ Of(j, h)
    /\ UNCHANGED <<tries, sockets, lateSent>>

\* GetIdentity returns, and scanOne takes the outcome as in Get.  The
\* deferred Close drops what is still under way to the socket.
Return(j, h, row) ==
    /\ scan[j][h] = "get"
    /\ ScanMove(j, h, IF row = "unsaved" THEN "upsert" ELSE "record", row)
    /\ StepTo(j, h, "none")
    /\ sockets' = sockets \ {<<j, h>>}
    /\ net' = net \ Of(j, h)
    /\ UNCHANGED <<tries, lateSent>>

\* The loop is left when Retries repetitions have failed; the first request
\* is sent whatever Retries is.
Exhausted(j, h) == tries[j][h] > 0 /\ tries[j][h] > Retries

\* Mutant: every exhausted scan is called a timeout.
Verdict_Timeout(j, h) == "no_response"

\* The error of the last attempt decides: only one that says "timeout" is
\* ErrTimeout, which scanOne records as no_response.
Verdict(j, h) == IF lastErr[j][h] = "timeout" THEN "no_response" ELSE "snmp_error"

\* Mutant: the loop does not look at the context.
Check_Blind(j, h) ==
    /\ step[j][h] = "check"
    /\ IF Exhausted(j, h)
          THEN Return(j, h, Verdict(j, h))
          ELSE StepTo(j, h, "send") /\ UNCHANGED <<vars, tries, sockets, net, lateSent>>
    /\ UNCHANGED <<lastErr, identity>>

\* The head of the retry loop: exhausted, cancelled, or once more.
Check(j, h) ==
    /\ step[j][h] = "check"
    /\ \/ Exhausted(j, h) /\ Return(j, h, Verdict(j, h))
       \/ ~Exhausted(j, h) /\ ctxDone[j] /\ Return(j, h, "snmp_error")
       \/ /\ ~Exhausted(j, h) /\ ~ctxDone[j]
          /\ StepTo(j, h, "send") /\ UNCHANGED <<vars, tries, sockets, net, lateSent>>
    /\ UNCHANGED <<lastErr, identity>>

\* Mutant: an attempt is not counted.
Send_Uncounted(j, h) ==
    /\ step[j][h] = "send"
    /\ \/ /\ StepTo(j, h, "wait")
          /\ net' = net \cup {[job |-> j, host |-> h, id |-> tries[j][h] + 1, is |-> "request"]}
          /\ lateSent' = [lateSent EXCEPT ![j][h] = IF ctxDone[j] THEN @ + 1 ELSE @]
          /\ UNCHANGED lastErr
       \/ StepTo(j, h, "check") /\ Failed(j, h, "other") /\ UNCHANGED <<net, lateSent>>
    /\ UNCHANGED <<tries, sockets, identity, vars>>

\* Write one request.  The context is not looked at again, and a request
\* that cannot be written costs a try as well.
Send(j, h) ==
    /\ step[j][h] = "send"
    /\ tries' = [tries EXCEPT ![j][h] = @ + 1]
    /\ \/ /\ StepTo(j, h, "wait")
          /\ net' = net \cup {[job |-> j, host |-> h, id |-> tries[j][h] + 1, is |-> "request"]}
          /\ lateSent' = [lateSent EXCEPT ![j][h] = IF ctxDone[j] THEN @ + 1 ELSE @]
          /\ UNCHANGED lastErr
       \/ StepTo(j, h, "check") /\ Failed(j, h, "other") /\ UNCHANGED <<net, lateSent>>
    /\ UNCHANGED <<sockets, identity, vars>>

\* Agent.respond: a wrong community is not answered.
Admits(h, j) == Device[h].community = Community[j]

\* The device answers a request, perhaps more than once.
Respond(m) ==
    /\ m.is = "request"
    /\ Admits(m.host, m.job)
    /\ \E a \in Device[m.host].answers : net' = net \cup {[m EXCEPT !.is = a]}
    /\ UNCHANGED <<clientVars, identity, lateSent, vars>>

\* An answer to any request of this call is taken, a late one too; one that
\* cannot be decoded uses up the attempt.
Receive(m) ==
    LET j == m.job  h == m.host IN
    /\ m.is \in Answers
    /\ step[j][h] = "wait"
    /\ \/ /\ m.is = "values"
          /\ Return(j, h, "unsaved")
          /\ identity' = [identity EXCEPT ![j][h] = ReadIdentity({Binding(h, oid) : oid \in OIDs})]
          /\ UNCHANGED lastErr
       \/ m.is = "errorStatus" /\ Return(j, h, "snmp_error") /\ UNCHANGED <<lastErr, identity>>
       \/ /\ m.is = "garbled"
          /\ StepTo(j, h, "check") /\ Failed(j, h, "other")
          /\ net' = net \ {m}
          /\ UNCHANGED <<tries, sockets, identity, lateSent, vars>>

\* The read ends without a packet: at its deadline, or because the host
\* refuses the port.  A cancel does not end it.
ReadFails(j, h) ==
    /\ step[j][h] = "wait"
    /\ \E e \in {"timeout", "other"} : Failed(j, h, e)
    /\ StepTo(j, h, "check")
    /\ UNCHANGED <<tries, sockets, net, identity, lateSent, vars>>

\* The process dies, its sockets with it.
NetCrash ==
    /\ Crash
    /\ step' = [j \in Jobs |-> [h \in Hosts |-> "none"]]
    /\ sockets' = {}
    /\ net' = {}
    /\ UNCHANGED <<tries, lastErr, identity, lateSent>>

\* What GetIdentity does not take part in.
Elsewhere(A) == A /\ UNCHANGED <<clientVars, net, identity, lateSent>>

OtherScanStep(j, h) == UpsertDiscovered(j, h) \/ InsertResult(j, h) \/ Assign(j, h)

NetScanStep(j, h) == \/ NetConnect(j, h) \/ Check(j, h) \/ Send(j, h) \/ ReadFails(j, h)
                     \/ \E m \in Of(j, h) : Receive(m)
                     \/ Elsewhere(OtherScanStep(j, h))

NetNext == \/ \E j \in Jobs : Elsewhere(Create(j) \/ RunnerStep(j))
           \/ \E j \in Jobs, h \in Hosts : NetScanStep(j, h)
           \/ \E r \in Requests : Elsewhere(RequestStep(r) \/ \E j \in Jobs : CancelGet(r, j))
           \/ \E m \in net : Respond(m)
           \/ Elsewhere(ServerStep)
           \/ NetCrash

NetSpec == NetInit /\ [][NetNext]_netVars

\* The goroutines are scheduled and a read ends at its deadline.  The network
\* and the devices owe nothing: no answer need ever arrive.
NetFairness == /\ \A j \in Jobs : WF_netVars(Elsewhere(RunnerStep(j)))
               /\ \A j \in Jobs, h \in Hosts : WF_netVars(NetScanStep(j, h))
               /\ \A r \in Requests : WF_netVars(Elsewhere(RequestStep(r)))

NetFairSpec == NetSpec /\ NetFairness
-----------------------------------------------------------------------------
(* Correctness. *)

Attempts == IF Retries < 0 THEN 1 ELSE Retries + 1

\* The variables of the scans keep their types, and the retry loop runs
\* exactly while scanOne is in GetIdentity.
NetTypeOK ==
    /\ step \in [Jobs -> [Hosts -> LoopStep]]
    /\ tries \in [Jobs -> [Hosts -> 0..Attempts]]
    /\ lastErr \in [Jobs -> [Hosts -> {"none", "timeout", "other"}]]
    /\ lateSent \in [Jobs -> [Hosts -> Nat]]
    /\ sockets \subseteq Jobs \X Hosts
    /\ net \subseteq [job : Jobs, host : Hosts, id : 1..Attempts, is : Answers \cup {"request"}]
    /\ \A j \in Jobs, h \in Hosts : scan[j][h] = "get" <=> step[j][h] # "none"

\* defer g.Conn.Close() under errgroup's limit: a job never holds more
\* sockets than its pool size, and none once clients see a final status.
SocketsWithinPool ==
    \A j \in Jobs : LET open == {h \in Hosts : <<j, h>> \in sockets} IN
        /\ Cardinality(open) <= Limit
        /\ status[j] \in Terminal => open = {}

\* Context: ctx in the GoSNMP value: after a cancel at most one more request
\* leaves per scan, of the scans that had passed their check, and these are
\* never more than the pool size: no retries, no newly launched scans.
CancelStopsTraffic ==
    \A j \in Jobs : /\ \A h \in Hosts : lateSent[j][h] <= 1
                    /\ Cardinality({h \in Hosts : lateSent[j][h] > 0}) <= Limit

\* The classification of errors, as it ends up in the result rows: "no
\* response" means that every attempt was made and the last one was not
\* answered in time; an element means that a device which knows the job's
\* community answered.
VerdictIsEarned ==
    \A j \in Jobs, h \in Hosts :
        /\ results[j][h] = "no_response" => /\ tries[j][h] = Attempts
                                            /\ lastErr[j][h] = "timeout"
        /\ results[j][h] \in {"saved", "unsaved"} => /\ tries[j][h] \in 1..Attempts
                                                     /\ Device[h].community = Community[j]

\* What the element is made of is what its device holds: a value for every
\* OID it knows, whatever way its name and value are written; "<nil>", and
\* not an empty string, for one it does not know.
DeviceStr(h, oid) ==
    LET known == {n \in DOMAIN Device[h].values : n.text = oid}
        v == Device[h].values[CHOOSE n \in known : TRUE]
    IN  IF known = {} \/ v.type = "nil" THEN "<nil>"
        ELSE IF v.type = "number" THEN ToString(v.num) ELSE v.str.text
IdentityIsDevices ==
    \A j \in Jobs, h \in Hosts : scan[j][h] = "upsert" =>
        /\ identity[j][h].SysName.text = DeviceStr(h, "sysName")
        /\ identity[j][h].SysDescr.text = DeviceStr(h, "sysDescr")
        /\ identity[j][h].SysObjectID = Str(FALSE, DeviceStr(h, "sysObjectID"))
        /\ identity[j][h].SysUpTime \in 0..(Word - 1)

\* With the network in the model, the jobs behave as DiscoveryJob says, its
\* fairness included: every GetIdentity returns, whatever the network does.
ImplementsJob == FairSpec

\* The liveness of DiscoveryJob, where the process may die: a job whose rules
\* are loaded reaches a final status, and one nobody cancels ends, unless the
\* process crashed.
JobEnds ==
    \A j \in Jobs :
        /\ pc[j] = "launch" ~> (status[j] \in Terminal \/ crashes > 0)
        /\ pc[j] = "register" ~> (status[j] \in Terminal \/ j \in cancelling \/ crashes > 0)
=============================================================================
