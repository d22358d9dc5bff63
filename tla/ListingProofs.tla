---------------------------- MODULE ListingProofs ----------------------------
(* Proofs about Listing, for every number of hosts and clusters and every   *)
(* page limit.                                                              *)
EXTENDS Listing, FiniteSetTheorems, FunctionTheorems, SequenceTheorems, TLAPS

-----------------------------------------------------------------------------
(* The order of a listing. *)

\* A listing holds rows that exist.
LEMMA MatchingHosts ==
    ASSUME TypeOK, NEW w \in Listings
    PROVE  Matching(w) \subseteq Hosts /\ IsFiniteSet(Matching(w))
<1>1. Matching(w) \subseteq Hosts
  BY DEF TypeOK, Matching, Listings, Filters, Results, Live, Elements
<1> QED
  BY <1>1, ConstAssumption, FS_Subset

\* ORDER BY with its tiebreaker is a strict total order.
LEMMA TotalOrder ==
    ASSUME TypeOK, NEW w \in Listings, NEW a \in Hosts, NEW b \in Hosts
    PROVE  /\ ~Before(w, a, a)
           /\ a # b => Before(w, a, b) \/ Before(w, b, a)
           /\ \A c \in Hosts : Before(w, a, b) /\ Before(w, b, c) => Before(w, a, c)
<1>1. a \in Nat /\ b \in Nat /\ \A c \in Hosts : c \in Nat /\ lastSeen[c] \in Nat
  BY ConstAssumption DEF TypeOK
<1> QED
  BY <1>1 DEF Before

\* A rank is a number of rows.
LEMMA RankType ==
    ASSUME TypeOK, NEW w \in Listings, NEW h
    PROVE  IsFiniteSet(Ahead(w, h)) /\ Rank(w, h) \in Nat
BY MatchingHosts, FS_Subset, FS_CardinalityType DEF Ahead, Rank

\* Who comes before has the smaller rank.
LEMMA RankIncreases ==
    ASSUME TypeOK, NEW w \in Listings, NEW a \in Matching(w), NEW b \in Matching(w),
           Before(w, a, b)
    PROVE  Rank(w, a) < Rank(w, b)
<1>1. Ahead(w, a) \subseteq Ahead(w, b)
  BY MatchingHosts, TotalOrder DEF Ahead
<1>2. a \in Ahead(w, b) /\ a \notin Ahead(w, a)
  BY MatchingHosts, TotalOrder DEF Ahead
<1>3. Rank(w, a) <= Rank(w, b) /\ Rank(w, a) # Rank(w, b)
  BY <1>1, <1>2, RankType, FS_Subset DEF Rank
<1> QED
  BY <1>3, RankType

\* No two rows of a listing have the same rank.
LEMMA RankInjective ==
    ASSUME TypeOK, NEW w \in Listings, NEW a \in Matching(w), NEW b \in Matching(w),
           Rank(w, a) = Rank(w, b)
    PROVE  a = b
<1> SUFFICES ASSUME a # b PROVE FALSE
  OBVIOUS
<1>1. Before(w, a, b) \/ Before(w, b, a)
  BY MatchingHosts, TotalOrder
<1> QED
  BY <1>1, RankIncreases, RankType

-----------------------------------------------------------------------------
(* Pages. *)

\* LIMIT n returns at most n rows: their ranks are n numbers.
LEMMA PageSize ==
    ASSUME TypeOK, NEW w \in Listings, NEW n \in Nat \ {0}, NEW from \in Nat
    PROVE  /\ IsFiniteSet(Page(w, n, from)) /\ Cardinality(Page(w, n, from)) \in Nat
           /\ Cardinality(Page(w, n, from)) <= n
<1> DEFINE P == Page(w, n, from)
           T == from..(from + n - 1)
           f == [h \in P |-> Rank(w, h)]
<1>1. IsFiniteSet(P) /\ Cardinality(P) \in Nat
  BY MatchingHosts, FS_Subset, FS_CardinalityType DEF Page
<1>2. f \in [P -> T]
  BY RankType DEF Page, InPage
<1>3. \A a, b \in P : f[a] = f[b] => a = b
  BY RankInjective DEF Page
<1>4. f \in Injection(P, T)
  BY <1>2, <1>3, Fun_IsInj
<1>5. IsFiniteSet(T) /\ Cardinality(T) = n
  BY FS_Interval
<1>6. Cardinality(P) <= Cardinality(T)
  BY <1>4, <1>5, FS_Injection
<1> QED
  BY <1>1, <1>5, <1>6

\* A page with a limit is full unless the listing ends with it.
LEMMA PageFull ==
    ASSUME TypeOK, NEW w \in Listings, NEW n \in Nat \ {0}, NEW from \in Nat,
           NEW e \in Matching(w), Rank(w, e) >= from + n
    PROVE  Cardinality(Page(w, n, from)) >= n
<1> DEFINE A == Ahead(w, e)
           R == 0..(Rank(w, e) - 1)
           f == [h \in A |-> Rank(w, h)]
           P == Page(w, n, from)
           T == from..(from + n - 1)
           g == [h \in P |-> Rank(w, h)]
<1>1. A \subseteq Matching(w) /\ IsFiniteSet(A) /\ Cardinality(A) = Rank(w, e)
  BY RankType DEF Ahead, Rank
<1>2. \A h \in A : Rank(w, h) \in R
  <2> SUFFICES ASSUME NEW h \in A PROVE Rank(w, h) \in R
    OBVIOUS
  <2>1. h \in Matching(w) /\ Before(w, h, e)
    BY DEF Ahead
  <2>2. Rank(w, h) < Rank(w, e) /\ Rank(w, h) \in Nat /\ Rank(w, e) \in Nat
    BY <2>1, RankIncreases, RankType
  <2> QED
    BY <2>2
<1>3. f \in Injection(A, R)
  <2>1. f \in [A -> R]
    BY <1>2
  <2>2. \A a, b \in A : f[a] = f[b] => a = b
    BY <1>1, RankInjective
  <2> QED
    BY <2>1, <2>2, Fun_IsInj
<1>4. IsFiniteSet(R) /\ Cardinality(R) = Rank(w, e)
  <2> DEFINE n0 == Rank(w, e)
  <2>1. n0 \in Nat
    BY RankType
  <2> HIDE DEF n0
  <2>2. 0 \in Int /\ n0 - 1 \in Int /\ (IF 0 > n0 - 1 THEN 0 ELSE (n0 - 1) - 0 + 1) = n0
    BY <2>1
  <2>3. IsFiniteSet(0..(n0 - 1)) /\ Cardinality(0..(n0 - 1)) = n0
    BY <2>2, FS_Interval
  <2> QED
    BY <2>3 DEF n0
<1>5. \A r \in R : \E h \in A : f[h] = r
  <2> HIDE DEF f, A, R
  <2>1. Cardinality(A) = Cardinality(R) <=> f \in Surjection(A, R)
    BY <1>3, <1>4, FS_Injection
  <2>2. f \in Surjection(A, R)
    BY <1>1, <1>4, <2>1
  <2> QED
    BY <2>2, Fun_SurjectionProperties
<1>6. g \in [P -> T]
  BY RankType DEF Page, InPage
<1>7. \A r \in T : \E h \in P : g[h] = r
  <2> SUFFICES ASSUME NEW r \in T PROVE \E h \in P : g[h] = r
    OBVIOUS
  <2>1. r \in R
    BY RankType
  <2>2. PICK h \in A : Rank(w, h) = r
    BY <1>5, <2>1
  <2>3. h \in P
    BY <1>1, <2>2 DEF Page, InPage
  <2> QED
    BY <2>2, <2>3
<1>8. g \in Surjection(P, T)
  BY <1>6, <1>7, Fun_IsSurj
<1>9. IsFiniteSet(P)
  BY PageSize
<1>10. Cardinality(T) <= Cardinality(P)
  BY <1>8, <1>9, FS_Surjection
<1>11. Cardinality(T) = n
  BY FS_Interval
<1> QED
  BY <1>10, <1>11

-----------------------------------------------------------------------------
(* Type correctness, and what follows from it alone. *)

\* What parsePagination lets through is a page limit.
LEMMA ParsedLimit ==
    ASSUME NEW raw \in RawLimits, Accepted(raw)
    PROVE  parseLimit(raw) \in 0..maxPageLimit
BY ConstAssumption DEF Accepted, parseLimit

\* Before a walk there is no page.
WalkInv == /\ at = "idle" => offset = 0 /\ page = {} /\ owed = {}
           /\ buried \subseteq deleted
           /\ limit # 0 => Cardinality(page) <= limit

\* Every write, request and tick keeps the types and the page limit.
LEMMA TypeStep == TypeOK /\ WalkInv /\ [Next]_vars => (TypeOK /\ WalkInv)'
<1> SUFFICES ASSUME TypeOK, WalkInv, [Next]_vars PROVE (TypeOK /\ WalkInv)'
  OBVIOUS
<1> USE ConstAssumption
<1>1. ASSUME NEW h \in Hosts, Write(h) PROVE (TypeOK /\ WalkInv)'
  <2>0. Observe
    BY <1>1 DEF Write, UpsertDiscovered, UpdateAssignment, SoftDelete, InsertResult
  <2>1. /\ UNCHANGED <<clock, at, what, limit, offset, page, received>>
        /\ owed' \subseteq owed /\ disturbed' \in BOOLEAN /\ quiet' \in BOOLEAN
    <3>1. UNCHANGED clock
      BY <1>1 DEF Write, UpsertDiscovered, UpdateAssignment, SoftDelete, InsertResult
    <3>2. disturbed' \in BOOLEAN /\ quiet' \in BOOLEAN
      BY <2>0 DEF Observe
    <3> QED
      BY <2>0, <3>1, <3>2 DEF Observe, walkVars
  <2>2. lastSeen' \in [Hosts -> 0..MaxClock] /\ \A g \in Hosts : lastSeen[g] > 0 => lastSeen'[g] > 0
    <3>1. CASE UpsertDiscovered(h)
      <4>1. PICK t \in 1..clock : lastSeen' = [lastSeen EXCEPT ![h] = t]
        BY <3>1 DEF UpsertDiscovered
      <4>2. t \in 0..MaxClock /\ t > 0 /\ lastSeen \in [Hosts -> 0..MaxClock]
        BY DEF TypeOK
      <4> QED
        BY <4>1, <4>2
    <3>2. CASE lastSeen' = lastSeen
      BY <3>2 DEF TypeOK
    <3> QED
      BY <1>1, <3>1, <3>2 DEF Write, UpdateAssignment, SoftDelete, InsertResult
  <2>3. cluster' \in [Hosts -> Clusters \cup {None}] /\ recorded' \subseteq Hosts
    BY <1>1 DEF Write, UpsertDiscovered, UpdateAssignment, SoftDelete, InsertResult, TypeOK
  <2>4. /\ deleted' \subseteq deleted \cup Elements /\ deleted \subseteq deleted'
        /\ buried' \subseteq Hosts /\ buried' \subseteq deleted'
    BY <1>1 DEF Write, UpsertDiscovered, UpdateAssignment, SoftDelete, InsertResult, TypeOK, Found,
       WalkInv
  <2>5. Elements \subseteq Elements'
    BY <2>2 DEF Elements
  <2>6. clock \in 1..MaxClock /\ deleted \subseteq Elements /\ owed \subseteq Hosts
    BY DEF TypeOK
  <2>7. deleted' \subseteq Elements' /\ owed' \subseteq Hosts
    BY <2>1, <2>4, <2>5, <2>6
  <2>8. TypeOK'
    BY <2>1, <2>2, <2>3, <2>4, <2>7 DEF TypeOK
  <2>9. WalkInv'
    BY <2>1, <2>4 DEF WalkInv
  <2> QED
    BY <2>8, <2>9
<1>2. ASSUME NEW w \in Listings, NEW raw \in RawLimits, StartWalk(w, raw)
      PROVE  (TypeOK /\ WalkInv)'
  <2>1. parseLimit(raw) \in 0..maxPageLimit /\ Matching(w) \subseteq Hosts
    BY <1>2, ParsedLimit, MatchingHosts DEF StartWalk
  <2>2. Cardinality({}) = 0
    BY FS_EmptySet
  <2>3. UNCHANGED <<clock, lastSeen, deleted, cluster, recorded, offset, page, buried>>
    BY <1>2 DEF StartWalk, rowVars
  <2>4. Elements' = Elements
    BY <2>3 DEF Elements
  <2>5. /\ at' = "walking" /\ what' = w /\ limit' \in 0..maxPageLimit /\ owed' \subseteq Hosts
        /\ disturbed' = FALSE /\ quiet' = TRUE /\ page = {}
    BY <1>2, <2>1 DEF StartWalk, WalkInv
  <2>6. TypeOK'
    BY <2>3, <2>4, <2>5 DEF TypeOK
  <2> QED
    BY <2>2, <2>3, <2>5, <2>6 DEF TypeOK, WalkInv
<1>3. CASE NextPage
  <2>1. Page(what, limit, offset) \subseteq Hosts /\ IsFiniteSet(Page(what, limit, offset))
    BY MatchingHosts, FS_Subset DEF Page, TypeOK
  <2>2. Cardinality(page') \in Nat
    BY <1>3, <2>1, FS_CardinalityType DEF NextPage
  <2>3. limit # 0 => Cardinality(page') <= limit
    BY <1>3, PageSize DEF NextPage, TypeOK
  <2>4. UNCHANGED <<clock, lastSeen, deleted, cluster, recorded, what, limit, disturbed, quiet, buried>>
    BY <1>3 DEF NextPage, rowVars
  <2>5. Elements' = Elements
    BY <2>4 DEF Elements
  <2>6. /\ at' \in {"walking", "done"} /\ page' \subseteq Hosts /\ owed' \subseteq Hosts
        /\ offset' \in Nat
    <3>1. /\ page' = Page(what, limit, offset) /\ offset' = offset + Cardinality(page')
          /\ owed' = owed \ page' /\ at' \in {"walking", "done"}
      BY <1>3 DEF NextPage
    <3>2. offset \in Nat /\ owed \subseteq Hosts
      BY DEF TypeOK
    <3>3. offset' \in Nat
      BY <2>2, <3>1, <3>2
    <3> QED
      BY <2>1, <3>1, <3>2, <3>3
  <2>7. TypeOK'
    BY <2>4, <2>5, <2>6 DEF TypeOK
  <2> QED
    BY <2>3, <2>4, <2>6, <2>7 DEF WalkInv
<1>4. CASE Tick
  BY <1>4 DEF Tick, TypeOK, WalkInv, rowVars, walkVars, seenVars, Elements
<1>5. CASE UNCHANGED vars
  BY <1>5 DEF vars, TypeOK, WalkInv, rowVars, walkVars, seenVars, Elements
<1> QED
  BY <1>1, <1>2, <1>3, <1>4, <1>5 DEF Next

\* Every variable stays in its type for ever.
THEOREM TypeCorrect == Spec => [](TypeOK /\ WalkInv)
<1>1. Init => TypeOK /\ WalkInv
  <2> SUFFICES ASSUME Init PROVE TypeOK /\ WalkInv
    OBVIOUS
  <2> USE ConstAssumption DEF Init
  <2>1. Results \in Listings
    BY DEF Listings
  <2>2. clock \in 1..MaxClock /\ limit \in 0..maxPageLimit
    OBVIOUS
  <2>3. lastSeen \in [Hosts -> 0..MaxClock] /\ cluster \in [Hosts -> Clusters \cup {None}]
    OBVIOUS
  <2>4. TypeOK
    BY <2>1, <2>2, <2>3 DEF TypeOK
  <2>5. WalkInv
    BY FS_EmptySet DEF WalkInv
  <2> QED
    BY <2>4, <2>5
<1> QED
  BY <1>1, TypeStep, PTL DEF Spec

\* No answer has more rows than its limit, nor a limit above the maximum,
\* zero excepted.
THEOREM PageFitsHolds == Spec => []PageFits
<1>1. TypeOK /\ WalkInv => PageFits
  BY DEF TypeOK, WalkInv, PageFits
<1> QED
  BY <1>1, TypeCorrect, PTL

\* A deleted element is neither found, listed nor counted again.
THEOREM DeletedStaysHiddenHolds == Spec => []DeletedStaysHidden
<1>1. WalkInv => DeletedStaysHidden
  BY DEF WalkInv, DeletedStaysHidden, Found, Matching, Filters, Live, Counted
<1> QED
  BY <1>1, TypeCorrect, PTL
-----------------------------------------------------------------------------
(* A walk loses nothing that kept its place. *)

\* While no row has left the listing or moved down it, a row that stayed in
\* its place and was not received yet is at or after the offset of the next
\* request.
SkipInv == /\ at # "idle" => owed \subseteq Matching(what)
           /\ at = "walking" /\ ~disturbed => \A e \in owed : Rank(what, e) >= offset
           /\ NoneSkipped

\* A statement that changes none of the rows changes no listing.
LEMMA SameListing ==
    ASSUME UNCHANGED <<lastSeen, deleted, cluster, recorded>>, NEW w, NEW e
    PROVE  Matching(w)' = Matching(w) /\ Rank(w, e)' = Rank(w, e)
<1>1. Matching(w)' = Matching(w)
  BY DEF Matching, Status, Live, Elements
<1>2. \A g : Before(w, g, e)' = Before(w, g, e)
  BY DEF Before
<1>3. Ahead(w, e)' = Ahead(w, e)
  BY <1>1, <1>2 DEF Ahead
<1> QED
  BY <1>1, <1>3 DEF Rank

\* A write that does not disturb a walk moves no row in front of another.
LEMMA RankNeverShrinks ==
    ASSUME TypeOK, TypeOK', what' = what, ~Disturbs,
           NEW e \in Matching(what), Still(e)
    PROVE  Rank(what, e)' >= Rank(what, e)
<1>1. what \in Listings /\ Matching(what) \subseteq Hosts
  BY MatchingHosts DEF TypeOK
<1>2. \A h \in Hosts : h \in Nat /\ lastSeen[h] \in Nat /\ lastSeen'[h] \in Nat
  BY ConstAssumption DEF TypeOK
<1>3. \A g \in Ahead(what, e) : g \in Ahead(what, e)'
  <2> SUFFICES ASSUME NEW g \in Ahead(what, e) PROVE g \in Ahead(what, e)'
    OBVIOUS
  <2>1. g \in Matching(what) /\ Before(what, g, e)
    BY DEF Ahead
  <2>2. g \in Matching(what)' /\ (what.kind # "results" => ~(lastSeen'[g] < lastSeen[g]))
    BY <2>1 DEF Disturbs
  <2>3. what.kind # "results" => lastSeen'[e] = lastSeen[e]
    BY DEF Still
  <2>4. Before(what, g, e)'
    BY <1>1, <1>2, <2>1, <2>2, <2>3 DEF Before
  <2> QED
    BY <2>2, <2>4 DEF Ahead
<1>4. Matching(what)' \subseteq Hosts
  BY DEF TypeOK, Matching, Listings, Filters, Results, Live, Elements
<1>5. IsFiniteSet(Ahead(what, e)')
  BY <1>4, ConstAssumption, FS_Subset DEF Ahead
<1> QED
  BY <1>3, <1>5, FS_Subset, FS_CardinalityType DEF Rank

\* Every write, request and tick keeps the unread rows after the offset.
LEMMA SkipStep ==
    TypeOK /\ TypeOK' /\ WalkInv /\ SkipInv /\ [Next]_vars => SkipInv'
<1> SUFFICES ASSUME TypeOK, TypeOK', WalkInv, SkipInv, [Next]_vars PROVE SkipInv'
  OBVIOUS
<1>1. ASSUME NEW h \in Hosts, Write(h) PROVE SkipInv'
  <2>1. Observe
    BY <1>1 DEF Write, UpsertDiscovered, UpdateAssignment, SoftDelete, InsertResult
  <2>2. /\ UNCHANGED <<at, what, offset>>
        /\ \A e \in owed' : e \in owed /\ e \in Matching(what)' /\ Still(e)
        /\ disturbed' = (disturbed \/ (at = "walking" /\ Disturbs))
    BY <2>1 DEF Observe, walkVars
  <2>3. owed' \subseteq Matching(what)'
    BY <2>2
  <2>4. ASSUME at = "walking", ~disturbed', NEW e \in owed' PROVE Rank(what, e)' >= offset
    <3>1. ~Disturbs /\ e \in Matching(what) /\ Rank(what, e) >= offset
      BY <2>2, <2>4 DEF SkipInv
    <3>2. Rank(what, e)' >= Rank(what, e)
      BY <2>2, <2>4, <3>1, RankNeverShrinks
    <3>3. Rank(what, e) \in Nat /\ offset \in Nat
      BY RankType DEF TypeOK
    <3>4. Rank(what, e)' \in Nat
      <4>1. Matching(what)' \subseteq Hosts
        BY <2>2 DEF TypeOK, Matching, Listings, Filters, Results, Live, Elements
      <4> QED
        BY <4>1, ConstAssumption, FS_Subset, FS_CardinalityType DEF Rank, Ahead
    <3> QED
      BY <3>1, <3>2, <3>3, <3>4
  <2>5. at = "done" /\ ~disturbed' => owed' = {}
    BY <2>2 DEF SkipInv, NoneSkipped
  <2> QED
    BY <2>2, <2>3, <2>4, <2>5 DEF SkipInv, NoneSkipped
<1>2. ASSUME NEW w \in Listings, NEW raw \in RawLimits, StartWalk(w, raw) PROVE SkipInv'
  <2>1. /\ UNCHANGED <<lastSeen, deleted, cluster, recorded>>
        /\ at' = "walking" /\ what' = w /\ owed' = Matching(w) /\ offset' = 0
    BY <1>2 DEF StartWalk, rowVars, WalkInv
  <2>2. Matching(w)' = Matching(w)
    BY <2>1, SameListing
  <2>3. \A e : Rank(w, e)' \in Nat
    BY <2>1, SameListing, RankType
  <2>4. \A e : Rank(what, e)' = Rank(w, e)'
    BY <2>1 DEF Rank, Ahead, Before, Matching
  <2>5. Matching(what)' = Matching(w)'
    BY <2>1 DEF Matching
  <2> QED
    BY <2>1, <2>2, <2>3, <2>4, <2>5 DEF SkipInv, NoneSkipped
<1>3. CASE NextPage
  <2> DEFINE P == Page(what, limit, offset)
  <2>1. /\ UNCHANGED <<lastSeen, deleted, cluster, recorded, what, limit, disturbed>>
        /\ at = "walking" /\ page' = P /\ offset' = offset + Cardinality(P)
        /\ owed' = owed \ P
        /\ at' = IF P = {} \/ Cardinality(P) < limit THEN "done" ELSE "walking"
    BY <1>3 DEF NextPage, rowVars
  <2>2. what \in Listings /\ limit \in Nat /\ offset \in Nat /\ owed \subseteq Matching(what)
    BY <2>1 DEF TypeOK, SkipInv
  <2>3. Matching(what)' = Matching(what) /\ \A e : Rank(what, e)' = Rank(what, e)
    BY <2>1, SameListing DEF Rank, Ahead, Before, Matching
  <2>4. ASSUME ~disturbed, NEW e \in owed \ P
        PROVE  limit \in Nat \ {0} /\ Rank(what, e) >= offset + limit
    <3>1. e \in Matching(what) /\ Rank(what, e) >= offset /\ Rank(what, e) \in Nat
      BY <2>1, <2>2, <2>4, RankType DEF SkipInv
    <3>2. ~InPage(Rank(what, e), limit, offset)
      BY <2>4, <3>1 DEF Page
    <3> QED
      BY <2>2, <3>1, <3>2 DEF InPage
  <2>5. ASSUME ~disturbed, NEW e \in owed \ P
        PROVE  Rank(what, e) >= offset + Cardinality(P) /\ at' = "walking"
    <3>1. limit \in Nat \ {0} /\ Rank(what, e) >= offset + limit
      BY <2>4, <2>5
    <3>2. e \in Matching(what) /\ Rank(what, e) \in Nat
      BY <2>2, <2>5, RankType
    <3>3. Cardinality(P) \in Nat /\ Cardinality(P) <= limit
      BY <2>2, <3>1, PageSize
    <3>4. Cardinality(P) >= limit
      BY <2>2, <3>1, <3>2, PageFull
    <3>5. P # {}
      BY <3>1, <3>4, FS_EmptySet
    <3> HIDE DEF P
    <3>6. at' = "walking"
      BY <2>1, <2>2, <3>3, <3>4, <3>5
    <3> QED
      BY <2>2, <3>1, <3>2, <3>3, <3>6
  <2> HIDE DEF P
  <2>6. at' # "idle"
    BY <2>1
  <2>7. owed' \subseteq Matching(what)'
    BY <2>1, <2>2, <2>3
  <2>8. ~disturbed' => \A e \in owed' : Rank(what, e)' >= offset'
    BY <2>1, <2>3, <2>5
  <2>9. at' = "done" /\ ~disturbed' => owed' = {}
    BY <2>1, <2>5
  <2> QED
    BY <2>7, <2>8, <2>9 DEF SkipInv, NoneSkipped
<1>4. CASE Tick \/ UNCHANGED vars
  <2>1. UNCHANGED <<lastSeen, deleted, cluster, recorded, at, what, offset, owed, disturbed>>
    BY <1>4 DEF Tick, vars, rowVars, walkVars, seenVars
  <2>2. Matching(what)' = Matching(what) /\ \A e : Rank(what, e)' = Rank(what, e)
    BY <2>1, SameListing DEF Rank, Ahead, Before, Matching
  <2> QED
    BY <2>1, <2>2 DEF SkipInv, NoneSkipped
<1> QED
  BY <1>1, <1>2, <1>3, <1>4 DEF Next

\* A walk by offsets loses no row that kept its place, as long as the other
\* rows only appear and move up meanwhile.
THEOREM NoneSkippedHolds == Spec => []NoneSkipped
<1>1. Init => SkipInv
  BY DEF Init, SkipInv, NoneSkipped
<1>2. SkipInv => NoneSkipped
  BY DEF SkipInv
<1> QED
  BY <1>1, <1>2, SkipStep, TypeCorrect, PTL DEF Spec

-----------------------------------------------------------------------------
(* A walk without writes reads the listing. *)

\* The row of a listing with this rank, and its first n rows.
RowAt(w, r) == CHOOSE h \in Matching(w) : Rank(w, h) = r
Rows(w, n)  == [k \in 1..n |-> RowAt(w, k - 1)]

\* The ranks of a listing are the numbers below its length.
LEMMA RanksFill ==
    ASSUME TypeOK, NEW w \in Listings
    PROVE  /\ Cardinality(Matching(w)) \in Nat
           /\ \A h \in Matching(w) : Rank(w, h) \in 0..(Cardinality(Matching(w)) - 1)
           /\ \A r \in 0..(Cardinality(Matching(w)) - 1) :
                RowAt(w, r) \in Matching(w) /\ Rank(w, RowAt(w, r)) = r
<1> DEFINE M == Matching(w)
           N == Cardinality(M)
           R == 0..(N - 1)
           f == [h \in M |-> Rank(w, h)]
<1>1. M \subseteq Hosts /\ IsFiniteSet(M) /\ N \in Nat
  BY MatchingHosts, FS_CardinalityType
<1>2. ASSUME NEW h \in M PROVE Rank(w, h) \in R
  <2>1. Ahead(w, h) \subseteq M /\ h \notin Ahead(w, h)
    BY <1>1, TotalOrder DEF Ahead
  <2>2. Rank(w, h) <= N /\ Rank(w, h) # N
    BY <1>1, <2>1, FS_Subset DEF Rank
  <2>3. Rank(w, h) \in Nat
    BY RankType
  <2> HIDE DEF N
  <2> QED
    BY <1>1, <2>2, <2>3
<1>3. f \in Injection(M, R)
  <2>1. f \in [M -> R]
    BY <1>2
  <2>2. \A a, b \in M : f[a] = f[b] => a = b
    BY RankInjective
  <2> QED
    BY <2>1, <2>2, Fun_IsInj
<1>4. IsFiniteSet(R) /\ Cardinality(R) = N
  <2> HIDE DEF N
  <2> QED
    BY <1>1, FS_Interval
<1>5. ASSUME NEW r \in R PROVE \E h \in M : Rank(w, h) = r
  <2>1. f \in Surjection(M, R)
    <3> HIDE DEF f, M, R
    <3>1. Cardinality(M) = Cardinality(R) <=> f \in Surjection(M, R)
      BY <1>3, <1>4, FS_Injection
    <3> QED
      BY <1>4, <3>1
  <2>2. PICK h \in M : f[h] = r
    <3> HIDE DEF f, M, R
    <3> QED
      BY <2>1, Fun_SurjectionProperties
  <2> QED
    BY <2>2
<1>6. ASSUME NEW r \in R PROVE RowAt(w, r) \in M /\ Rank(w, RowAt(w, r)) = r
  BY <1>5, <1>6 DEF RowAt
<1> QED
  BY <1>1, <1>2, <1>6

\* A page is the rows whose ranks follow the offset, in their order.
LEMMA PageRows ==
    ASSUME TypeOK, NEW w \in Listings, NEW n \in Nat,
           NEW from \in 0..Cardinality(Matching(w))
    PROVE  LET N == Cardinality(Matching(w))
               P == Page(w, n, from)
               c == Cardinality(P)
           IN  /\ c \in Nat /\ from + c <= N
               /\ P = {} \/ c < n => from + c = N
               /\ InOrder(w, P, from) = [k \in 1..c |-> RowAt(w, from + k - 1)]
<1> DEFINE M == Matching(w)
           N == Cardinality(M)
           P == Page(w, n, from)
           c == Cardinality(P)
           end == IF n > 0 /\ from + n <= N THEN from + n ELSE N
           T == from..(end - 1)
           g == [h \in P |-> Rank(w, h)]
<1>1. /\ N \in Nat /\ from \in Nat /\ from <= N
      /\ end \in Nat /\ from <= end /\ end <= N
  BY RanksFill
<1>2. \A h \in M : Rank(w, h) \in 0..(N - 1)
  BY RanksFill
<1>3. \A r \in 0..(N - 1) : RowAt(w, r) \in M /\ Rank(w, RowAt(w, r)) = r
  BY RanksFill
<1>4. \A h \in M : h \in P <=> Rank(w, h) \in T
  <2> SUFFICES ASSUME NEW h \in M PROVE h \in P <=> Rank(w, h) \in T
    OBVIOUS
  <2>1. h \in P <=> InPage(Rank(w, h), n, from)
    BY DEF Page
  <2>2. Rank(w, h) \in Nat /\ Rank(w, h) < N
    BY <1>1, <1>2
  <2> HIDE DEF P, N
  <2> QED
    BY <1>1, <2>1, <2>2 DEF InPage
<1>5. P \subseteq M /\ IsFiniteSet(P) /\ c \in Nat
  BY MatchingHosts, FS_Subset, FS_CardinalityType DEF Page
<1>6. T \subseteq 0..(N - 1) /\ IsFiniteSet(T) /\ Cardinality(T) = end - from
  <2>1. T \subseteq 0..(N - 1)
    <3> HIDE DEF N, end
    <3> QED
      BY <1>1
  <2>2. from \in Int /\ end - 1 \in Int
    <3> HIDE DEF N, end
    <3> QED
      BY <1>1
  <2>3. /\ IsFiniteSet(T)
        /\ Cardinality(T) = IF from > end - 1 THEN 0 ELSE (end - 1) - from + 1
    <3> HIDE DEF N, end
    <3> QED
      BY <2>2, FS_Interval
  <2>4. (IF from > end - 1 THEN 0 ELSE (end - 1) - from + 1) = end - from
    <3> HIDE DEF N, end
    <3> QED
      BY <1>1
  <2> QED
    BY <2>1, <2>3, <2>4
<1>7. g \in [P -> T] /\ \A h \in P : g[h] = Rank(w, h)
  <2> HIDE DEF P, T
  <2> QED
    BY <1>4, <1>5
<1>8. \A r \in T : RowAt(w, r) \in P /\ g[RowAt(w, r)] = r
  <2> HIDE DEF P, T, g, N
  <2> QED
    BY <1>3, <1>4, <1>6, <1>7
<1>9. g \in Injection(P, T) /\ g \in Surjection(P, T)
  <2>1. \A a, b \in P : g[a] = g[b] => a = b
    BY <1>5, RankInjective
  <2>2. g \in Injection(P, T)
    <3> HIDE DEF g, P, T
    <3> QED
      BY <1>7, <2>1, Fun_IsInj
  <2>3. \A r \in T : \E h \in P : g[h] = r
    BY <1>8
  <2>4. g \in Surjection(P, T)
    <3> HIDE DEF g, P, T
    <3> QED
      BY <1>7, <2>3, Fun_IsSurj
  <2> QED
    BY <2>2, <2>4
<1>10. c = end - from
  <2>1. Cardinality(P) <= Cardinality(T) /\ Cardinality(T) <= Cardinality(P)
    <3> HIDE DEF g, P, T
    <3> QED
      BY <1>5, <1>6, <1>9, FS_Injection, FS_Surjection
  <2> HIDE DEF T, N, end
  <2> QED
    BY <1>1, <1>5, <1>6, <2>1
<1>11. P = {} => c = 0
  BY FS_EmptySet
<1>12. /\ c \in Nat /\ from + c <= N
       /\ P = {} \/ c < n => from + c = N
  <2>1. n > 0 /\ from + n <= N => end = from + n
    OBVIOUS
  <2>2. ~(n > 0 /\ from + n <= N) => end = N
    OBVIOUS
  <2> HIDE DEF c, P, N, end
  <2> QED
    BY <1>1, <1>5, <1>10, <1>11, <2>1, <2>2
<1>13. ASSUME NEW k \in 1..c
       PROVE  (CHOOSE h \in P : Rank(w, h) = from + k - 1) = RowAt(w, from + k - 1)
  <2> DEFINE r == from + k - 1
             row == RowAt(w, r)
  <2>1. r \in T
    <3> HIDE DEF c, P, N, end
    <3> QED
      BY <1>1, <1>10
  <2>2. row \in P /\ Rank(w, row) = r
    BY <1>7, <1>8, <2>1
  <2>3. \A h \in P : Rank(w, h) = r => h = row
    BY <1>5, <2>2, RankInjective
  <2> HIDE DEF row, r, P
  <2>4. (CHOOSE h \in P : Rank(w, h) = r) = row
    BY <2>2, <2>3
  <2> QED
    BY <2>4 DEF row, r
<1>14. InOrder(w, P, from) = [k \in 1..c |-> RowAt(w, from + k - 1)]
  <2> HIDE DEF P
  <2> QED
    BY <1>13 DEF InOrder
<1> QED
  BY <1>12, <1>14

\* While nothing is written, what was received is the first rows of the listing,
\* and all of them at the end.
QuietInv == /\ at = "idle" => received = << >>
            /\ at # "idle" /\ quiet =>
                 /\ offset <= Cardinality(Matching(what))
                 /\ received = Rows(what, offset)
                 /\ at = "done" => offset = Cardinality(Matching(what))

\* A page more, and there are that many rows more.
LEMMA RowsGrow ==
    ASSUME TypeOK, NEW w \in Listings, NEW n \in Nat, NEW c \in Nat,
           n + c <= Cardinality(Matching(w))
    PROVE  Rows(w, n) \o [k \in 1..c |-> RowAt(w, n + k - 1)] = Rows(w, n + c)
<1> DEFINE a == Rows(w, n)
           b == [k \in 1..c |-> RowAt(w, n + k - 1)]
           e == Rows(w, n + c)
           N == Cardinality(Matching(w))
<1>1. N \in Nat /\ \A r \in 0..(N - 1) : RowAt(w, r) \in Matching(w)
  BY RanksFill
<1>2. /\ \A k \in 1..(n + c) : k - 1 \in 0..(N - 1)
      /\ \A k \in 1..c : n + k - 1 \in 0..(N - 1)
      /\ \A k \in 1..n : k - 1 \in 0..(N - 1)
  <2>1. n + c <= N
    OBVIOUS
  <2> HIDE DEF N
  <2> QED
    BY <1>1, <2>1
<1>3. \A k \in 1..n : RowAt(w, k - 1) \in Matching(w)
  BY <1>1, <1>2
<1>4. \A k \in 1..c : RowAt(w, n + k - 1) \in Matching(w)
  BY <1>1, <1>2
<1>5. \A k \in 1..(n + c) : RowAt(w, k - 1) \in Matching(w)
  BY <1>1, <1>2
<1>6. a \in Seq(Matching(w)) /\ Len(a) = n /\ \A k \in 1..n : a[k] = RowAt(w, k - 1)
  BY <1>3 DEF Rows
<1>7. b \in Seq(Matching(w)) /\ Len(b) = c /\ \A k \in 1..c : b[k] = RowAt(w, n + k - 1)
  BY <1>4
<1>8. e \in Seq(Matching(w)) /\ Len(e) = n + c /\ \A k \in 1..(n + c) : e[k] = RowAt(w, k - 1)
  BY <1>5 DEF Rows
<1> HIDE DEF a, b, e
<1> DEFINE M == Matching(w)
<1> HIDE DEF M, N
<1>9. a \in Seq(M) /\ b \in Seq(M) /\ Len(a) = n /\ Len(b) = c
  BY <1>6, <1>7 DEF M
<1>10. a \o b \in Seq(M) /\ Len(a \o b) = n + c
  BY <1>9, ConcatProperties
<1>11. \A k \in 1..(n + c) : (a \o b)[k] = IF k <= n THEN a[k] ELSE b[k - n]
  BY <1>9, ConcatProperties
<1>12. ASSUME NEW k \in 1..(n + c) PROVE (a \o b)[k] = e[k]
  <2>1. CASE k <= n
    <3>1. k \in 1..n
      BY <2>1
    <3>2. (a \o b)[k] = a[k]
      BY <1>11, <2>1
    <3> QED
      BY <1>6, <1>8, <3>1, <3>2
  <2>2. CASE ~(k <= n)
    <3>1. k - n \in 1..c /\ n + (k - n) - 1 = k - 1
      BY <2>2
    <3>2. (a \o b)[k] = b[k - n]
      BY <1>11, <2>2
    <3>3. b[k - n] = RowAt(w, n + (k - n) - 1)
      BY <1>7, <3>1
    <3>4. e[k] = RowAt(w, k - 1)
      BY <1>8
    <3> QED
      BY <3>1, <3>2, <3>3, <3>4
  <2> QED
    BY <2>1, <2>2
<1>13. e \in Seq(M) /\ Len(e) = n + c
  BY <1>8 DEF M
<1>14. a \o b = e
  BY <1>10, <1>12, <1>13
<1> QED
  BY <1>14 DEF a, b, e

\* Every write, request and tick keeps what a quiet walk has received in line
\* with the listing.
LEMMA QuietStep == TypeOK /\ WalkInv /\ QuietInv /\ [Next]_vars => QuietInv'
<1> SUFFICES ASSUME TypeOK, WalkInv, QuietInv, [Next]_vars PROVE QuietInv'
  OBVIOUS
<1>1. ASSUME NEW h \in Hosts, Write(h) PROVE QuietInv'
  <2>1. Observe
    BY <1>1 DEF Write, UpsertDiscovered, UpdateAssignment, SoftDelete, InsertResult
  <2> QED
    BY <2>1 DEF Observe, walkVars, QuietInv
<1>2. ASSUME NEW w \in Listings, NEW raw \in RawLimits, StartWalk(w, raw) PROVE QuietInv'
  <2>1. /\ at = "idle" /\ at' = "walking" /\ what' = w /\ received' = << >> /\ offset' = 0
        /\ UNCHANGED <<lastSeen, deleted, cluster, recorded>>
    BY <1>2 DEF StartWalk, rowVars, WalkInv, QuietInv
  <2>2. Cardinality(Matching(what))' \in Nat
    <3>1. Matching(what)' = Matching(w)
      BY <2>1 DEF Matching, Status, Live, Elements
    <3>2. Cardinality(Matching(w)) \in Nat
      BY RanksFill
    <3> QED
      BY <3>1, <3>2
  <2>3. Rows(what, offset)' = << >>
    BY <2>1 DEF Rows
  <2> QED
    BY <2>1, <2>2, <2>3 DEF QuietInv
<1>3. CASE NextPage
  <2> DEFINE P == Page(what, limit, offset)
             c == Cardinality(P)
             N == Cardinality(Matching(what))
             more == InOrder(what, P, offset)
  <2>1. /\ UNCHANGED <<lastSeen, deleted, cluster, recorded, what, quiet>>
        /\ at = "walking" /\ offset' = offset + c
        /\ quiet => received' = received \o more
        /\ at' = IF P = {} \/ c < limit THEN "done" ELSE "walking"
    BY <1>3 DEF NextPage, rowVars
  <2>2. ASSUME quiet
        PROVE  /\ offset' <= Cardinality(Matching(what))'
               /\ received' = Rows(what, offset)'
               /\ at' = "done" => offset' = Cardinality(Matching(what))'
    <3>1. what \in Listings /\ limit \in Nat /\ offset \in Nat
      BY DEF TypeOK
    <3>2. offset <= N /\ received = Rows(what, offset) /\ N \in Nat
      BY <2>1, <2>2, <3>1, RanksFill DEF QuietInv
    <3>3. offset \in 0..N
      <4> HIDE DEF N
      <4> QED
        BY <3>1, <3>2
    <3>4. /\ c \in Nat /\ offset + c <= N
          /\ P = {} \/ c < limit => offset + c = N
          /\ more = [k \in 1..c |-> RowAt(what, offset + k - 1)]
      BY <3>1, <3>3, PageRows
    <3>5. Rows(what, offset) \o [k \in 1..c |-> RowAt(what, offset + k - 1)] = Rows(what, offset + c)
      <4> HIDE DEF c
      <4> QED
        BY <3>1, <3>4, RowsGrow
    <3>6. Cardinality(Matching(what))' = N
      <4>1. Matching(what)' = Matching(what)
        BY <2>1, SameListing
      <4> QED
        BY <4>1
    <3>7. received' = Rows(what, offset + c)
      <4> HIDE DEF c, more
      <4> QED
        BY <2>1, <2>2, <3>2, <3>4, <3>5
    <3>8. Rows(what, offset)' = Rows(what, offset + c)
      <4>1. \A r : RowAt(what, r)' = RowAt(what, r)
        <5>1. Matching(what)' = Matching(what) /\ \A h : Rank(what, h)' = Rank(what, h)
          BY <2>1, SameListing DEF Rank, Ahead, Before, Matching
        <5> QED
          BY <5>1 DEF RowAt
      <4> HIDE DEF c
      <4> QED
        BY <2>1, <4>1 DEF Rows
    <3> HIDE DEF c, P, N, more
    <3> QED
      BY <2>1, <3>4, <3>6, <3>7, <3>8
  <2>3. at' # "idle" /\ quiet' = quiet
    BY <2>1
  <2> QED
    BY <2>2, <2>3 DEF QuietInv
<1>4. CASE Tick \/ UNCHANGED vars
  <2>1. UNCHANGED <<lastSeen, deleted, cluster, recorded, at, what, offset, received, quiet>>
    BY <1>4 DEF Tick, vars, rowVars, walkVars, seenVars
  <2>2. /\ Cardinality(Matching(what))' = Cardinality(Matching(what))
        /\ \A n : Rows(what, n)' = Rows(what, n)
    <3>1. Matching(what)' = Matching(what) /\ \A h : Rank(what, h)' = Rank(what, h)
      BY <2>1, SameListing DEF Rank, Ahead, Before, Matching
    <3>2. \A r : RowAt(what, r)' = RowAt(what, r)
      BY <3>1 DEF RowAt
    <3> QED
      BY <3>1, <3>2 DEF Rows
  <2>3. Rows(what, offset)' = Rows(what, offset)
    <3>1. \A r : RowAt(what, r)' = RowAt(what, r)
      <4>1. Matching(what)' = Matching(what) /\ \A h : Rank(what, h)' = Rank(what, h)
        BY <2>1, SameListing DEF Rank, Ahead, Before, Matching
      <4> QED
        BY <4>1 DEF RowAt
    <3> QED
      BY <2>1, <3>1 DEF Rows
  <2> QED
    BY <2>1, <2>2, <2>3 DEF QuietInv
<1> QED
  BY <1>1, <1>2, <1>3, <1>4 DEF Next

\* Without writes in between, the pages of every limit put together are the
\* listing: every row once and in order.
THEOREM QuietWalkIsExactHolds == Spec => []QuietWalkIsExact
<1>1. Init => QuietInv
  BY DEF Init, QuietInv
<1>2. QuietInv => QuietWalkIsExact
  <2> SUFFICES ASSUME QuietInv, at = "done", quiet
               PROVE  received = InOrder(what, Matching(what), 0)
    BY DEF QuietWalkIsExact
  <2>1. received = Rows(what, Cardinality(Matching(what)))
    BY DEF QuietInv
  <2>2. \A k \in 1..Cardinality(Matching(what)) : 0 + k - 1 = k - 1
    OBVIOUS
  <2> QED
    BY <2>1, <2>2 DEF Rows, RowAt, InOrder
<1> QED
  BY <1>1, <1>2, QuietStep, TypeCorrect, PTL DEF Spec
=============================================================================
