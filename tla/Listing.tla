------------------------------- MODULE Listing -------------------------------
(***************************************************************************)
(* What clients read: the list of elements and the results of a job, both  *)
(* page by page, the element by its id and the member counts of the        *)
(* clusters, while discovery, assignment and deletes change the rows.      *)
(*   src/internal/api/http/pagination.go, the List, Get and Results        *)
(*   handlers of elements.go, clusters.go and discovery.go, and the        *)
(*   queries of the element, cluster and result repositories.              *)
(* Every page is one statement; between two pages anything may happen.     *)
(***************************************************************************)
EXTENDS Integers, FiniteSets, Sequences

CONSTANTS Hosts,        \* addresses, numbers; also the ids of their elements
          Clusters, None,
          RawLimits,    \* values of ?limit= a client may send
          Unset,        \* the parameter is missing
          NotANumber,   \* it is there and strconv.Atoi rejects it
          defaultPageLimit, maxPageLimit,
          MaxClock      \* bound: the last moment

ASSUME ConstAssumption ==
    /\ Hosts \subseteq Nat /\ IsFiniteSet(Hosts)
    /\ None \notin Clusters
    /\ Unset \notin Int /\ NotANumber \notin Int /\ Unset # NotANumber
    /\ RawLimits \subseteq Int \cup {Unset, NotANumber}
    /\ maxPageLimit \in Nat \ {0} /\ defaultPageLimit \in 1..maxPageLimit
    /\ MaxClock \in Nat \ {0}

VARIABLES
    clock,
    lastSeen,   \* lastSeen[h]: network_elements.last_seen_at, 0 without a row
    deleted,    \* elements whose deleted_at is set
    cluster,    \* cluster[h]: network_elements.cluster_id
    recorded,   \* hosts with a row in discovery_job_results, of one job
    \* a client that fetches a listing page by page
    at,         \* "idle", "walking" or "done"
    what,       \* the listing
    limit,      \* the limit of its requests, after parsePagination
    offset,     \* the offset of its next request: rows received so far
    page,       \* the rows of the last answer
    \* bookkeeping
    buried,     \* elements that were ever deleted
    owed,       \* rows in their place since the walk began, not received yet
    disturbed,  \* a row has left the listing or moved towards its end
    quiet,      \* no write since the walk began
    received    \* all rows received, in order, while the walk is quiet

rowVars  == <<lastSeen, deleted, cluster, recorded>>
walkVars == <<at, what, limit, offset, page, received>>
seenVars == <<owed, disturbed, quiet>>
vars == <<clock, rowVars, walkVars, seenVars, buried>>

-----------------------------------------------------------------------------
(* Pagination. *)

\* parsePagination: the number of a ?limit= that is accepted.
parseLimit(raw) == IF raw = Unset THEN defaultPageLimit
                   ELSE IF raw > maxPageLimit THEN maxPageLimit ELSE raw

\* parsePagination: what is not a number, or negative, is an error.
Accepted(raw) == raw # NotANumber /\ (raw # Unset => raw >= 0)

-----------------------------------------------------------------------------
(* The queries.  A listing is the results of the job, or the elements under *)
(* a filter on the cluster, the assignment status, or both; the text search *)
(* is one more conjunct of the same WHERE, and left out.                    *)

AnyStatus == ""
Filters   == [kind : {"elements"}, id : Clusters \cup {None},
              status : {AnyStatus, "assigned", "unassigned"}]
Results   == [kind |-> "results", id |-> None, status |-> AnyStatus]
Listings  == Filters \cup {Results}

Elements == {h \in Hosts : lastSeen[h] > 0}

\* WHERE deleted_at IS NULL
Live == Elements \ deleted

\* network_elements.assignment_status, which UpdateAssignment only ever sets
\* together with the cluster.
Status(h) == IF cluster[h] = None THEN "unassigned" ELSE "assigned"

\* WHERE: ElementRepo.List and DiscoveryResultRepo.ListByJob.
Matching(w) == IF w.kind = "results" THEN recorded
               ELSE {h \in Live : /\ w.id # None => cluster[h] = w.id
                                  /\ w.status # AnyStatus => Status(h) = w.status}

\* Mutants: oldest first; without the id, rows seen at the same moment come
\* in an order that need not be the same in every query.
Before_Ascending(w, a, b) ==
    IF w.kind = "results" THEN a < b
    ELSE lastSeen[a] < lastSeen[b] \/ (lastSeen[a] = lastSeen[b] /\ a < b)
Before_NoTiebreak(w, a, b) ==
    IF w.kind = "results" THEN a < b
    ELSE \/ lastSeen[a] > lastSeen[b]
         \/ lastSeen[a] = lastSeen[b] /\ (IF offset % 2 = 0 THEN a < b ELSE b < a)

\* ORDER BY last_seen_at DESC, id, and ORDER BY ip_address.
Before(w, a, b) ==
    IF w.kind = "results" THEN a < b
    ELSE lastSeen[a] > lastSeen[b] \/ (lastSeen[a] = lastSeen[b] /\ a < b)

\* The rows that come before h in the listing, and how many they are.
Ahead(w, h) == {g \in Matching(w) : Before(w, g, h)}
Rank(w, h)  == Cardinality(Ahead(w, h))

\* Mutant: one row too many.
InPage_OneMore(rank, n, from) == from <= rank /\ (n > 0 => rank <= from + n)

\* LIMIT and OFFSET; a limit of zero leaves out the LIMIT clause.
InPage(rank, n, from) == from <= rank /\ (n > 0 => rank < from + n)

Page(w, n, from) == {h \in Matching(w) : InPage(Rank(w, h), n, from)}

\* These rows, of which the first has this rank, in the order of the listing.
InOrder(w, rows, from) ==
    [i \in 1..Cardinality(rows) |-> CHOOSE h \in rows : Rank(w, h) = from + i - 1]

\* ClusterRepo.List: the elements joined to the cluster that its FILTER lets
\* into the COUNT.
Counted(c) == {h \in {e \in Elements : cluster[e] = c} : h \notin deleted}

\* ElementRepo.Get: no such row, or a deleted one, is "not found".
Found(h) == h \in Elements /\ h \notin deleted

-----------------------------------------------------------------------------
Init ==
    /\ clock = 1
    /\ lastSeen = [h \in Hosts |-> 0]
    /\ deleted = {}
    /\ cluster = [h \in Hosts |-> None]
    /\ recorded = {}
    /\ at = "idle"
    /\ what = Results
    /\ limit = defaultPageLimit
    /\ offset = 0
    /\ page = {}
    /\ buried = {}
    /\ owed = {}
    /\ disturbed = FALSE
    /\ quiet = TRUE
    /\ received = <<>>

\* A write that a walk may suffer from: a row left the listing, or moved
\* towards its end.
Disturbs == \E h \in Matching(what) :
    \/ h \notin Matching(what)'
    \/ what.kind # "results" /\ lastSeen'[h] < lastSeen[h]

\* The rows that keep their place in the order of the listing.
Still(h) == what.kind = "results" \/ lastSeen'[h] = lastSeen[h]

\* Bookkeeping of a write for the walk that is under way.
Observe ==
    /\ UNCHANGED walkVars
    /\ owed' = {h \in owed \cap Matching(what)' : Still(h)}
    /\ disturbed' = (disturbed \/ (at = "walking" /\ Disturbs))
    /\ quiet' = (quiet /\ at = "idle")

\* Mutant: a rediscovered element is no longer deleted.
UpsertDiscovered_Revives(h) ==
    /\ \E t \in 1..clock : lastSeen' = [lastSeen EXCEPT ![h] = t]
    /\ deleted' = deleted \ {h}
    /\ UNCHANGED <<clock, cluster, recorded, buried>>
    /\ Observe

\* ElementRepo.UpsertDiscovered: last_seen_at is the moment the statement
\* began, and it may have waited for the row, so it can also go back.
UpsertDiscovered(h) ==
    /\ \E t \in 1..clock : lastSeen' = [lastSeen EXCEPT ![h] = t]
    /\ UNCHANGED <<clock, deleted, cluster, recorded, buried>>
    /\ Observe

\* ElementRepo.UpdateAssignment: of deleted elements too.
UpdateAssignment(h) ==
    /\ h \in Elements
    /\ \E c \in Clusters \cup {None} : cluster' = [cluster EXCEPT ![h] = c]
    /\ UNCHANGED <<clock, lastSeen, deleted, recorded, buried>>
    /\ Observe

\* ElementRepo.SoftDelete.
SoftDelete(h) ==
    /\ Found(h)
    /\ deleted' = deleted \cup {h}
    /\ buried' = buried \cup {h}
    /\ UNCHANGED <<clock, lastSeen, cluster, recorded>>
    /\ Observe

\* DiscoveryResultRepo.InsertResult: one row per host of the job.
InsertResult(h) ==
    /\ h \notin recorded
    /\ recorded' = recorded \cup {h}
    /\ UNCHANGED <<clock, lastSeen, deleted, cluster, buried>>
    /\ Observe

Tick ==
    /\ clock < MaxClock
    /\ clock' = clock + 1
    /\ UNCHANGED <<rowVars, walkVars, seenVars, buried>>

\* A client begins to read a listing.  A limit that is not accepted is
\* answered "invalid_pagination" and begins nothing.
StartWalk(w, raw) ==
    /\ at = "idle"
    /\ Accepted(raw)
    /\ at' = "walking"
    /\ what' = w
    /\ limit' = parseLimit(raw)
    /\ owed' = Matching(w)
    /\ disturbed' = FALSE /\ quiet' = TRUE
    /\ UNCHANGED <<clock, rowVars, offset, page, received, buried>>

\* One request, one statement: the List handler of the elements, or Results.
\* The client asks for the rows after the ones it has, and stops at a page
\* that is empty or not full.
NextPage ==
    /\ at = "walking"
    /\ page' = Page(what, limit, offset)
    /\ offset' = offset + Cardinality(page')
    /\ received' = IF quiet THEN received \o InOrder(what, page', offset) ELSE <<>>
    /\ at' = IF page' = {} \/ Cardinality(page') < limit THEN "done" ELSE "walking"
    /\ owed' = owed \ page'
    /\ UNCHANGED <<clock, rowVars, what, limit, disturbed, quiet, buried>>

Write(h) == UpsertDiscovered(h) \/ UpdateAssignment(h) \/ SoftDelete(h) \/ InsertResult(h)

Next == \/ \E h \in Hosts : Write(h)
        \/ \E w \in Listings, raw \in RawLimits : StartWalk(w, raw)
        \/ NextPage
        \/ Tick

Spec == Init /\ [][Next]_vars
-----------------------------------------------------------------------------
(* Correctness. *)

\* The variables keep their types; parsePagination lets no negative limit and
\* none above the maximum through.
TypeOK ==
    /\ clock \in 1..MaxClock
    /\ lastSeen \in [Hosts -> 0..MaxClock]
    /\ deleted \subseteq Elements
    /\ cluster \in [Hosts -> Clusters \cup {None}]
    /\ recorded \subseteq Hosts
    /\ at \in {"idle", "walking", "done"}
    /\ what \in Listings
    /\ limit \in 0..maxPageLimit
    /\ offset \in Nat
    /\ page \subseteq Hosts /\ buried \subseteq Hosts /\ owed \subseteq Hosts
    /\ disturbed \in BOOLEAN /\ quiet \in BOOLEAN

\* Newest first, and "id as a tiebreaker keeps pagination stable": a walk by
\* offsets loses no row that kept its place in the listing, as long as the
\* others only appear and move up meanwhile.  Discovery does no more to them
\* than that, unless an upsert had to wait for its row; but a row that is
\* itself seen again moves up past the offset, and the walk does miss it.
NoneSkipped == at = "done" /\ ~disturbed => owed = {}

\* Without writes in between, the pages put together are the listing: every
\* row once and in order, timestamps that collide included.
QuietWalkIsExact ==
    at = "done" /\ quiet => received = InOrder(what, Matching(what), 0)

\* No page is larger than the limit of the request, nor than the maximum of
\* the API, except that a limit of zero asks for all rows.
PageFits == limit # 0 => Cardinality(page) <= limit /\ limit <= maxPageLimit

\* A deleted element never comes back: discovery goes on refreshing its row
\* and assignment goes on moving it between clusters, and no endpoint finds,
\* lists or counts it again.
DeletedStaysHidden ==
    \A h \in buried : /\ ~Found(h)
                      /\ \A f \in Filters : h \notin Matching(f)
                      /\ \A c \in Clusters : h \notin Counted(c)
=============================================================================
