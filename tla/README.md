# netcluster: a TLA+ model of the API server

netcluster discovers network devices over SNMP, evaluates ordered rules on the
host name of each device and files the device into a cluster. One Go process
serves the HTTP API and runs the discoveries; everything durable is in
PostgreSQL. This directory holds the specification of the parts of that server
whose correctness depends on the order of steps, the TLC runs that check it on
small instances, and the TLAPS proofs that extend the results to every instance.

## 1. Inventory

| Component (under `src/`) | State | Operations | Correct when |
|---|---|---|---|
| Discovery jobs: `internal/api/http/discovery.go`, `internal/discovery/orchestrator.go` | job and result rows; map of cancel functions; one context, one goroutine and an errgroup per job | create, run, scan one host, cancel | statuses are final and truthful, scans stay within their job, a job can be cancelled and ends |
| Target expansion: `internal/discovery/targets.go` | none | expand an address, a CIDR block or a range | the addresses are exactly those of the block, and never more than the cap |
| Assignment: `internal/assignment`, `internal/clusters`, the cluster, element and history repositories | elements, clusters, history | assign, get or create a cluster, rename, delete, redistribute one or many | references hold, a key names one cluster, a row is one verdict, the audit trail agrees |
| Rule storage: `internal/storage/postgres/rule_repo.go` | rules, ordered by a unique priority | create, update, delete, reorder | the order is unambiguous at every moment, a reorder is atomic, requests end |
| Rule engine: `internal/ruleengine` | none | validate, evaluate, render a template, dry run | the first match decides, a saved rule can be rendered |
| Pipeline DSL: `internal/dsl` | none | apply, encode, decode, parse | no operation leaves the bounds of its value, a pipeline survives its storage |
| SNMP client: `internal/snmp` | one socket and the attempts of one request | read the identity of a device | ends whatever the network does, tells silence from other errors, gives its socket back |
| Read endpoints and pagination: `internal/api/http`, the queries of the repositories | none | list in pages, get, count | pages are complete and bounded, deleted rows stay hidden, answers agree |
| Router, health, static files, DTOs, generated API documents | none | dispatch, render | |
| Configuration, migrations, start-up: `cmd/apiserver`, `internal/config`, `migrate.go` | environment, schema | once at start | |
| Web interface: `web/` | browser | calls the API | |

How they interact. A create request inserts a job row and starts a goroutine
that outlives the request. It runs `Orchestrator.Run`: mark the job running,
load the rules, start one scan per target in an errgroup of limited size, wait,
write the final status. A scan reads the device, upserts the element, records
the result and calls `assignment.Service.Assign`, which evaluates the loaded
rules, gets or creates the cluster, updates the element and inserts a history
row, each a statement of its own. Redistribute requests call the same `Assign`
concurrently; rename, delete and rule edits interleave with all of them. A cancel request
finds the job's cancel function in a map under a mutex.

What is hard: cancellation that races the registration, the rule load, the
launch of the next scan and the very statements that record the outcome;
statements that fail, or that the database carries out after their caller has
given up and gone on; a process that
dies with jobs in flight and resumes nothing; assignments that use rules, names
and cluster ids that are stale; a reorder that passes through intermediate
priorities under a unique index, with row locks, deadlocks and a connection
pool. `PROJECT.json` lists these as hazards, line by line, with the properties
that cover them.

## 2. Modules

| Module | Models | Proofs |
|---|---|---|
| `JobLifecycle` | the abstract promise of the API: a job moves along its lifecycle, completes only when everything was attempted, is cancelled only on its own request, and is final; only a row that was cut off may follow | |
| `DiscoveryJob` | handlers, goroutines, contexts, errgroup, cancel map, rows | `DiscoveryJobProofs` |
| `SnmpScan` | `DiscoveryJob` with the SNMP client, the network and the devices inside its scans | `SnmpScanProofs` |
| `Assignment` | elements, clusters, rules as far as they are referenced, history, `Assign`, redistribute, deletes | `AssignmentProofs` |
| `RuleStore` | the rules table and its transactions | `RuleStoreProofs` |
| `Dsl` | the operations of pipelines, and their JSON form | `RuleEngineProofs` |
| `RuleEngine` | validation, storage and evaluation of rules, with the pipelines of `Dsl` | `RuleEngineProofs` |
| `Parser` | the text syntax of pipelines, rune by rune | `ParserProofs` |
| `Grammar` | the language of pipelines, said without a parser: which pipelines a text denotes | `ParserProofs` |
| `RuleText` | `RuleEngine` composed with `Parser`: rules whose pipelines are texts, and how pipelines are written down | `ParserProofs` |
| `Targets` | expansion of target specifications | `TargetsProofs` |
| `Listing` | pages, filters, lookups and counts over rows that change | `ListingProofs` |
| `MC*` | instances for TLC | |

`DiscoveryJob` implements `JobLifecycle` through a refinement mapping in which
the attempted targets are the scans that are done, and the rows cut off the
inserts left to the server. `SnmpScan` extends
`DiscoveryJob`: it replaces the one step in which `GetIdentity` ends with some
outcome by the steps of a retry loop over a network, keeps every other step, and
implements `DiscoveryJob` with the identity as the refinement mapping. The other
modules meet at
their constants: the duplicate-free target set of `DiscoveryJob` is what
`Targets` shows of one specification; the verdict tables of `Assignment`
(`RuleOf`, `KeyOf`: a function of rules and name, a key only from a rule) are
what `RuleEngine` shows of `Evaluate`; that policies are ordered lists without
ties is what `RuleStore` shows.

A definition whose name ends in a suffix such as `Wait_NotCancelled` is a mutant:
the definition after it with a plausible bug. No specification uses it; it
shows that the property it is listed with in `PROJECT.json` would notice.

### DiscoveryJob

A job's goroutine has one step per statement or decision of `runInBackground`
and `Run` (`pc[j]`): register in the map, mark running, load rules, mark failed,
the loop (check the context, then `g.Go`, which may block), wait, write the
final status, clean up. A scan has one step per statement of `scanOne`
(`scan[j][h]`): connect, get, upsert, record, assign. A cancel request has its
three steps (read the job, look up the function, call it). `Crash` loses the
process and keeps the rows.

A statement is one step of its caller, which gets one of `Outcomes`: "ok", an
error ("unknown", with `DbFaults`), or, under a cancelled context, "cancelled". It
is not one step of the database. pgx gives a statement up as soon as its context is
cancelled, and the final status is then written under another context on another
connection; the server may still carry the first one out, before or after that.
So a statement that is under way when its context is cancelled or the process
dies (`LeaveToServer`, `CancelCall`, `Crash`), or that ends with an error, is
left to the server: `sentStatus`, `sentResult` and `sentElements` hold it, and
`ServerStep` carries it out at any later moment, or never. A statement that begins
under a cancelled context is not sent at all. A late row may thus appear after
the final status, and `FinalIsFinal` and `JobLifecycle` (`cutOff`, `LateReport`) say exactly
which: one that was cut off, for a host without a row, of a cancelled job, or
of any job if the database fails by itself. `DbFaults` stands for outages as well as
for statements the database refuses, such as a system name that is not valid
UTF-8. What `Assign` does and loses is the subject of `Assignment`. Targets are a set: the
loop visits them in list order, and no property depends on which comes first.

### SnmpScan

`GetIdentity` dials (`NetConnect`), and a scan is then in the retry loop of the
library (`step[j][h]`): check the context and the number of tries, send, wait.
The library gosnmp is not under `src/`; its loop is modelled as the client
relies on it and marked external: one socket per request, `Retries` repetitions
after the first attempt, a deadline per attempt, the context looked at before
each attempt and not during a read, answers to earlier attempts of the same
request accepted, an answer that cannot be decoded ends the attempt. `net` holds
the datagrams under way. A datagram may be lost (it is never delivered),
delayed past its deadline, overtaken, or duplicated; the device of each host
answers like `snmptest/agent.go` (nothing to a wrong community, no such object
for an unknown name) or with an error status. `Verdict` and `Receive` are the
classification of errors and the decoding of the identity in
`gosnmp_client.go`: names with and without a leading dot, values that are not
strings, a missing value printed as `<nil>`, numbers that wrap at `Word` (2^32
in the code). `lateSent` and `identity` are bookkeeping.

### Assignment

A goroutine (`pc[p]`) is a discovery job's scans, one after the other, or a
redistribute request. Loading rules, reading elements, get-or-create, update and
history insert are separate steps, so everything can happen in between. `policy`
is the content of the rules table as an element sees it; editing or deleting a
rule changes it, and goroutines keep what they loaded (`pol[p]`). Foreign keys
are part of the statements: an update or insert that names a missing row fails,
a delete of a referenced row is refused. A crash differs from failing statements
only in that nothing follows, which the model allows at any point. A statement carried out
after its caller gave up needs no state of its own here: it is a goroutine that waits at
this statement for long, next to the one that went on, and the theorems are for any
number of goroutines.

### RuleStore

A request begins a transaction (a single statement is one as well), locks and
writes row after row, and commits or rolls back. PostgreSQL is modelled as these
statements use it under READ COMMITTED, and marked external: a writer waits for
a row locked by another, or for another transaction that touched the index entry
it wants; a cycle of waiting is broken by failing one; a violated unique
constraint fails at once when the other row is committed or its own. A failed
statement aborts the transaction on the server, a broken client connection keeps
its locks until the rollback. A request needs one of `PoolSize` connections.

### RuleEngine and Dsl

A request body carries pipelines as JSON; `Receive` decodes them, `ValidateRule`
refuses undefined groups, `Create` and `Update` encode them again for the table.
Discovery and redistribute load and decode the enabled rules and run the loop of
`Evaluate`, one step per rule; the dry run does the same with one candidate that
was never stored. The template walk is a function from a template to its pieces,
shared by validation and rendering as in the code. `Dsl` has every operation of
the registry; a text is a sequence of characters, some of which have two bytes,
since `pad` counts both. A slice expression out of bounds is a panic, an outcome
of its own next to a value and an error. Go's `strings` functions are written
down as the documentation of the package defines them and marked external; what a
regular expression captures is a table of the instance. The query of the dry run
that tells whether the cluster exists reads and changes nothing, and is left out.

### Parser and RuleText

`pos` is the parser's position, `stage` the place in its code: one stage per
loop or decision of `parser.go`, so that every rune is read by a step of its own.
`Rune` is defined only where a rune is left, as the slice access of the code is: a
read without its bounds check would be an evaluation error of TLC, and a typing
condition of the proofs that cannot be met. `RuleText` runs `Evaluate` on rules with parsed pipelines that were never validated, as
tests of `ruleengine` do: operations that do not exist and arguments of the
wrong number are then met by `Apply`.

Two references stand beside the parser. `Grammar` says which pipelines a text
denotes (`Pipelines`), part by part and without reading from left to right: bars
separate steps, commas arguments, and a part may have white space around it.
`AcceptsGrammar` is that `Parse` ends with the one pipeline the text denotes, or
with an error when it denotes none. `Writings` in `RuleText` goes the other way:
how a pipeline is written down, with either quote, with escapes, with white
space or without. `ParsedAsWritten` is that it is read back as it was meant.

### Listing

The rows of elements and of one job's results, as far as a reader can tell:
`lastSeen`, `deleted`, `cluster`, `recorded`. The writes are the statements of
the repositories; a client walks through a listing page by page, and each page is
one statement with the filter, order, limit and offset of the query. A filter is a
cluster, a status, both or neither; the status column agrees with `cluster_id`
(`AssignedIffClustered`, proved for `Assignment`) and is derived from it (`Status`). The moment an upsert writes is that of the start of
its statement, which may have waited for the row, so `last_seen_at` can go back.
`owed`, `disturbed`, `quiet`, `received` and `buried` are bookkeeping.

### Targets

`ExpandTargets` and its two loops, on addresses of a few bytes of a few bits.
How the text of a specification is parsed belongs to Go's package `net`. `pow2` is
the table of the powers of two up to the size of the address space.

## 3. Runs

| Run | Instance | Shows |
|---|---|---|
| `jobs` | 2 jobs of 2 and 1 hosts that share one, pool of 2, 2 scans in all, 1 cancel request, failing statements, 1 crash and what may follow it | `TypeOK`, `ResultElementExists`, `CompletedIsComplete`, `NoScanOutlivesJob`, `AtMostOneLateScan`, `FinalIsFinal`, `ImplementsLifecycle` |
| `snmp` | 1 job, 2 hosts (a device that answers in every way, one of another community), 1 retry, pool size 0, cancel, 1 crash, fair | `SocketsWithinPool`, `CancelStopsTraffic`, `VerdictIsEarned`, `IdentityIsDevices`, `FinalIsFinal`, `ImplementsJob`, `JobEnds`, `GoroutineEnds` |
| `terminal` | 1 job, 1 target, cancel, fair | violated: `AlwaysTerminal` |
| `race` | 2 goroutines on 1 element, 2 clusters, 2 rules, faults | `TypeOK`, `NoDanglingReference`, `OneClusterPerKey`, `RowIsOneVerdict` |
| `audit` | 1 goroutine, 2 elements, no faults | `AuditAgrees` |
| `unaudited` | 2 goroutines, no faults | violated: `EveryUpdateAudited` |
| `reorder` | 2 requests of any kind, 3 rules, lists of up to 2, priorities that meet placeholders and final values, faults | `TypeOK`, `UniquePriorities`, `NoSelfCollision`, `AllOrNothing` |
| `requests_end` | 3 requests, 2 rules, 2 connections, fair | `RequestEnds` |
| `placeholder` | 1 request at a time, a negative priority | violated: `PlaceholderIsFree` |
| `targets` | 6-bit addresses of 3 bytes, every specification, cap 8 | `ExpansionIsExact` |
| `rule_engine` | dry runs of every template of up to 6 characters over `{`, `}` and a letter, and of every operation with arguments of every type; up to 3 stored rules, 4 host names; every text of up to 4 of 12 runes, and every written sample with one rune added, removed or replaced | `WalkIsLossless`, `EvaluateIsFirstMatch`, `ValidatedNeverFallsBack`, `NeverPanics`, `PadFits`, `SavedAsSent`, `AcceptsGrammar`, `ParsedAsWritten`, `Progress` |
| `listing` | 3 hosts, 1 cluster, 2 moments, every listing (filters on cluster and status), limits missing, refused, zero and above the maximum | `NoneSkipped`, `QuietWalkIsExact`, `PageFits`, `DeletedStaysHidden` |

Why the bounds are enough to be interesting. In `jobs` two scans of one job
run at once, or one of each job on the host they share, and a cancel can hit
the wrong job, cut off a status, a result or an element, whose late commits meet
everything that follows, and come twice. Two constraints of `MCDiscoveryJob` keep the
run small: no third scan is started (`FewScans`), and a crash is that of a server with one job
(`CrashOfOneJob`), since what a crash does to one job does not depend on another.
`FinalIsFinal` is checked in `snmp` as well, where the database fails nothing by itself
and so only a cancelled job may get a late row. In `snmp` the pool of size zero is a pool of one, so that the second scan waits
for the first; two attempts are enough for an answer to the first to arrive
during the second; numbers wrap at 4. Two goroutines on one element produce every order
of their updates and audit rows; two cluster ids let a key be deleted and
created anew. Two requests and lists of two rules deadlock, collide with each other, with
a row outside the list and with themselves (a list with a repeated id); three
requests and two connections make one wait for a connection held by a
transaction that waits for a lock. Three bytes have a carry through two of them,
and some blocks lie above, at and below the cap. Six characters hold two adjacent tokens, and four runes reach every stage of the
parser; the samples have several steps and arguments, and one step more than is
allowed. Three rows and pages of one or two have rows that move from one page to
another, and two moments make timestamps collide; `OneTable` leaves out the states in which
both elements and results have rows, since no statement touches both.
Ids are never reused and a client walks through one listing, so each run ends
when they are used up; that, and not a deadlock of the program, is why the runs
whose configurations say so do not check for deadlock. `RequestEnds` and `GoroutineEnds` say what matters instead.

Fairness is weak fairness of each goroutine: the Go scheduler runs a goroutine that can
run, and a statement under a live context returns. In `snmp` nothing is assumed of
the network or the devices: an answer need never arrive, and a read ends
because it has a deadline (`NetFairness`). That `GetIdentity` returns, which
`DiscoveryJob` takes for granted, is there a consequence (`ImplementsJob` is its
specification with fairness). The liveness runs have no failing statements: without
a database nothing could be promised, since the code retries nothing. No fairness is
assumed of `ServerStep`: what is left to the server may never be done. A crash
ends what it interrupts, and `JobEnds` says so. Each request is made once, so a lock
is not taken from a waiting request again and again, and weak fairness is
enough. Nothing is assumed about clients: they need not cancel or come back.

### Where comments and code differ

- `terminal`: the comment of `Run` says that it always leaves the job in a
  terminal status. A cancel that comes before the status is written, or while
  the rules are loaded, makes these statements fail, and the status "failed" is
  written under the same cancelled context. The job stays pending or running.
  `JobEnds` in `snmp` shows what does hold: a job whose rules are loaded, or
  that is not cancelled, ends unless the process dies.
- `unaudited`: the package comment of `assignment` says that a history row is
  always written. A concurrent reassignment frees the cluster of the first
  verdict, a delete removes it, and the insert fails on its foreign key. `audit`
  and `AuditAgreesHolds` show that it holds with one assignment at a time.
- `placeholder`: the comment of `Reorder` says that no existing row can hold a
  negative placeholder. Priorities in requests are not checked, so one can, and
  the reorder then fails; `AllOrNothing` shows that it fails without effect.

Seen while modelling, and not the subject of a run: the comments of
`ElementRepo.List` and `ListByJob` say that zero means no limit, but that the
handler always sets a positive default; a request with `limit=0` is accepted and
gets every row in one answer, the exception that `PageFits` states. A row
that is refreshed between two pages moves up past the offset, and the walk misses it
although it was there all the time: `NoneSkipped` promises the rows that kept their place only.
`Get` and `Rename` of a cluster answer `member_count` 0. `ErrClusterNotEmpty` is
documented as a cluster that "still has member elements", but history rows and
soft-deleted elements hold on to it as well (`ClusterReferenced`). The comment
of `FromJSON` says that malformed input is reported "rather than silently
dropped", but arguments no operation knows, and those after a missing one, are
dropped (`FromJSON` in `Dsl`). `pad` falls short of the length when characters
have several bytes; `PadFits` states what holds. A null argument is accepted in a
dry run and cannot be saved.

## 4. Proofs

The theorems hold for any sets of jobs, hosts, goroutines, rules and so on, under
the named assumptions of the modules. `ConstAssumption` gives the constants their
types (the hosts are finite; the pool of connections is not empty; the cap of
`Targets` is below the size of the address space, as the 4096 of `MaxTargets` is below 2^32: at exactly
that size the walk of the block of all addresses would come back to its start). `NetAssumption` and
`DeviceAssumption` (`SnmpScan`) say what a device may hold: names and texts with or without
a leading dot, numbers, nothing. `DslAssumption` says that upper and lower case stay
within the characters, `RuleEngineAssumption` that request bodies have the fields and
types JSON decoding gives them, that a template is a text, and that a match gives each group of its
pattern a text. `RuneAssumption` keeps the value of a panic apart from the
runes, and letters, digits, white space and punctuation apart from each other.
`SampleAssumption` says which pipelines can be written as texts.

**DiscoveryJobProofs.** `IndInv` is `TypeOK` and six parts: `PcInv` (what
a goroutine's position says about the status and the cancel map, and which status
write may still arrive), `ScanInv` (the loop has started exactly the targets it has
passed; scans are in flight only during the loop and the wait), `CancelInv` (a
context is done early only by a request), `LateInv`, `RowInv` (a row, and an
insert left to the server, belong to their own scan, and never both for one host) and
`CompleteInv`. None of the properties is inductive alone: that no scan outlives
its job, for instance, needs to know that a goroutine past `Wait` has no active
scan, that nobody else writes the status, and that no earlier write of it is still
under way. From it follow
`CompletedIsCompleteHolds`, `ScansWithinJob` (with `ScanningIsCancellable`: a
job with scans in flight can be cancelled), `CancelIsOrderly` (with
`CancelledOnlyOnRequest`),
`ResultElementExistsHolds`, the action property `FinalIsFinalHolds` and the
refinement `Refinement`: every step is a step of `JobLifecycle` or leaves it
unchanged; a cancel and a crash are its steps `Cancel` and `Die`, which cut off the
rows under way (`LeaveIsInterrupts`). `ConcurrencyLimitHolds` rests on facts about cardinalities.

**SnmpScanProofs.** `NetStepRefines` shows that every step with the network is a
step of `DiscoveryJob` or a stutter, so that its `IndInv` and all its theorems
hold here (`NetImplementsJob`). `ScanNetInv` adds `NetTypeOK`, `LoopInv` (where a retry
loop stands, and who holds a socket), `NetInv` (a datagram under way belongs to
an attempt that was made, and an answer comes from a device of the job's community) and
`EarnedInv` (the row a scan is about to store is the outcome of its loop): an answer
proves a community only because of what is known of the datagram it came in. They give
`VerdictIsEarnedHolds`, `SocketsWithinPoolHolds` (with `ConcurrencyLimitHolds`) and,
with `TrafficInv` (after a cancel no scan joins those that have sent or are about
to send, which are no more than the pool), `CancelStopsTrafficHolds`, for any number of retries, any devices and any loss and
duplication. `IdentityIsDevicesHolds` follows the values instead of the verdicts:
`IdentityInv` carries what a device holds under a name (`ReadsDevice`) through the
datagram that brings it (`BindingIsDevices`) to the row that is stored, for any
OIDs, in whatever form names and values are written (`OneValueEach`).

**AssignmentProofs.** `IndInv` adds `CallInv` (from get-or-create on, `Assign`
holds a cluster that was created under the key it rendered) and `KeyInv` to the
properties themselves. It gives `NoDanglingReferenceHolds`,
`KeysIdentifyClusters` (with `HistoryKeyIsClusterKey`: a rename never changes
what audit rows say) and `RowsAreVerdicts` (with `AssignedIffClustered`: the status
column agrees with the cluster) for any number of goroutines and
with failing statements. `AuditAgreesHolds` assumes one goroutine and no faults,
and adds `PendingAudit`: the element just updated still is what was written, so
that its foreign keys keep the cluster and the rule in place until the audit row is there. The
run `unaudited` shows that the assumption is needed. `TypeCorrect` states the types alone.

**RuleStoreProofs.** `IndInv` is `TypeOK`, `RequestInv` (what a request at each
position holds), `LockInv` (two transactions never lock the same row),
`IndexInv` (which index entries a transaction has touched),
`UniquePriorities` and `UniqueViews` (every transaction's own view has unique
priorities as well). Uniqueness of the committed rows is not inductive alone: a
commit publishes what was checked against other rows at an earlier time, and
only locks and touched entries keep that check valid. `PassInv` describes how
far the two passes of a reorder have come, and gives `NoSelfCollisionHolds`: a write
collides with a rule of its own list only if that rule came with a negative
priority and is not moved yet, the case behind the run `placeholder`;
`AllOrNothingHolds` says that every change of what readers see is the whole
effect of one request. `TypeCorrect` states the types alone.

**ListingProofs.** The order of a listing is total, and the rank of a row is the
number of rows before it; a page is the rows whose ranks are in a window, and has
as many rows as the window unless the listing ends in it (`PageSize`, `PageFull`).
`SkipInv` says that the rows still owed have ranks at or behind the offset. A
write can raise the rank of such a row but not lower it as long as no row leaves the listing
(`RankNeverShrinks`), whence `NoneSkippedHolds` for any rows and clocks.
`TypeCorrect`, `PageFitsHolds` and `DeletedStaysHiddenHolds` need
only the types and the bookkeeping. `QuietWalkIsExactHolds` needs the other
direction: the ranks of the rows fill an interval from zero (`RanksFill`), so that a page is
the rows at the next positions (`PageRows`), and `QuietInv` says that what a client has received in
a quiet walk is the first `offset` rows of the listing.

**RuleEngineProofs.** `IndInv` says that every stored row is the encoded form of a
validated rule, that the loop of `Evaluate` holds the enabled rows in their order and has not yet met a match
(`LoopInv`), and that a result is the outcome of the request under way (`ResultInv`).
`IndInvHolds` rests on the round trip of pipelines through JSON (`RuleRoundTrip`):
decoding what was encoded gives the rule that was sent, which is `SavedAsSentHolds`.
`EvaluateIsFirstMatchHolds` (the first match decides, and a failed pipeline leaves its
group as it was captured) and `ValidatedNeverFallsBackHolds` (every token has a value,
every transform a group) follow from it. Operations that do not exist and wrong numbers of
arguments are refused by `FromJSON`, not by `ValidateRule`, and enter through the types.
`NeverPanicsHolds` goes through every operation of the registry (`FnType`: given the
arguments it is registered for, an operation makes a text or fails); its
hypothesis `ReplaceAllMakesText` is about Go's package `regexp`, whose replacement is external: it returns a
text, or the pattern does not compile. `PadFitsHolds` and `WalkIsLosslessHolds` are
about two loops, the padding and the template walk, for texts of any length.

These loops are recursive functions. Their values come from `Recursion` and
`DownRecursion`, which show that a function that is made from its own smaller (or
greater) arguments exists, and so is the one CHOOSE names; what holds for all of
them comes from `NatSetInduction` and `IntervalInduction`, which say induction of sets instead of
formulas. The theorems are about `Spec`, the requests and the evaluations of rules that came through them; the run
also has the steps of `RuleText`, which evaluate rules that were never validated.

**TargetsProofs.** An address is a number written in bytes. `NextVal` shows that the
byte-wise carry of `nextIP` adds one to the number (and wraps at the end of the address
space only), `MaskVal` that a mask rounds it down to a multiple of the size of the block,
`ValInjective` and `AddressOf` that every number below the size of the address space has
one address. A block and a range are then intervals of numbers (`BlockIsInterval`,
`ContainsVal`), with as many addresses as numbers (`AddressesOf`). The list alone does not say
where the loops are: `IndInv` adds that it counts up from the first address, and that the current address
follows it, around to zero at the end (`Walked`). With it, an address outside of the block means
that the list is complete (`StillInside`), also for a block at the very end of the
address space, where the next address is zero; the cap is what excludes that zero is in the
block again. `ExpansionIsExactHolds` is for bytes and addresses of any width and
for any cap that the assumption allows. The inductive invariant was checked with TLC on the instance of
`targets` before it was proved.

**ParserProofs.** `ParserInv` says at which stages a rune is left to be read; it
gives, with the measure `Left`, `ProgressHolds`: the parser
comes closer to its end with every step, on any text over any runes.

`AcceptsGrammarHolds` rests on `GrammarInv`: at every place of the parser, a pipeline
is denoted by the text exactly if the parser may still return it (`MayReturn`).
What it may still return is what it has read so far, followed by what the grammar finds in the
rest of the text: `ThenStep` where a step may come, `ThenOpen` behind a name, `ThenArg`,
`ThenMore` and `ThenEnd` behind a comma, an argument and a step, `InName`, `InNumber` and
`InString` within a token. Three laws connect the grammar, which speaks of whole
texts, with a parser that sees one rune: white space is passed
(`SpacePassed`), another rune decides what may come (`RuneDecides`), and so does the
end of the text (`EndDecides`). Each action then keeps `GrammarInv` by a lemma of its
own (`SpaceKeeps` ... `BarKeeps`). All of these are equivalences, so that a text which could
be split in several ways needs no argument of its own: the pipelines found are
the same set before and after a step, and one pipeline at the end. The recursive
definitions of `Grammar` are read step by step (`SeparatedSteps`, `QuotationSteps`,
`ListSteps`, `TailSteps`) with the recursion and induction lemmas of `RuleEngineProofs`.
`GrammarInv` was checked with TLC on a small instance before it was proved.

`ParsedAsWrittenHolds` uses the same laws on a text that is known: what `Joined`
and `FlattenSeq` put together stands in the text part by part (`JoinedStands`), and a name, an
integer, a text in quotes, an argument, a list of arguments and a step that
stand there are what the grammar finds there (`NameWritten` ... `StepWritten`,
`PipelineWritten`). So a written pipeline denotes itself and nothing else
(`WrittenDenotes`), and with `AcceptsGrammar` it is what `Parse` returns. It assumes of
the samples that they could be written at all (`SampleAssumption`: names are
identifiers, integers are written so that `Atoi` reads them) and that a
blank is white space. The theorems are about `ParserSpec`, which reads any of `Texts`, and
`TextsAreParsed` shows that the specification of the run, with its rules and evaluations, implements it.

Only model-checked: liveness (`JobEnds`, `GoroutineEnds`, `RequestEnds`, the
fairness part of `ImplementsJob`), which is beyond the prover. Every safety
invariant and action property that a run checks is a theorem.

## 5. Not modelled

- Of the SNMP client: how host and port are parsed, and the choice between v1
  and v2c. Both are decided before the first datagram.
- Of the read endpoints: the lists of rules, jobs and history rows, which are one
  query without pages, and the text search, which is a filter like the others.
- The parsing of target specifications (package `net`) and what a regular
  expression captures (package `regexp`).
- Routing, health check, static files, DTO conversions, the generated API
  documents (a quarter of the Go lines), configuration, the running of
  migrations, and the web interface: they keep no state and make no decision
  that a property here is about. The reasons, one by one, are in `PROJECT.json`.

## 6. Plan

In the order of importance; all but the ninth are done.

1. `DiscoveryJob`, `JobLifecycle` and their proofs.
2. `Assignment` and its proofs.
3. `RuleStore` and its proofs.
4. `Targets`.
5. `RuleEngine` and `Dsl`.
6. `Parser` and `RuleText`, with the proofs of `Parser`.
7. `SnmpScan` and its proofs, on top of `DiscoveryJob`.
8. `Listing` and its proofs.
9. A module that composes jobs, assignments and the rules table, to check the
   assumptions the modules make about each other.
10. Proofs of every safety invariant and action property that a run checks (done).
