-------------------------- MODULE RuleEngineProofs --------------------------
(***************************************************************************)
(* Proofs about RuleEngine: the verdict is that of the first rule that     *)
(* matches, validation makes the fallback of the template unnecessary, and *)
(* what is saved is what was sent.                                         *)
(***************************************************************************)
EXTENDS RuleEngine, FiniteSetTheorems, SequenceTheorems, TLAPS

-----------------------------------------------------------------------------
(* Induction, and functions that are defined by recursion. *)

\* A set that holds 0 and, with a number, its successor, holds all numbers: the
\* induction the definitions of the model need, said of sets.  The intervals
\* from 0 to a number that is missing have no least one.
LEMMA NatSetInduction ==
    ASSUME NEW S, 0 \in S, \A n \in Nat : n \in S => n + 1 \in S
    PROVE  Nat \subseteq S
<1>1. SUFFICES ASSUME NEW n \in Nat, n \notin S
               PROVE  FALSE
  OBVIOUS
<1> DEFINE R == StrictSubsetOrdering(0..n)
           T == {0..k : k \in {j \in 0..n : j \notin S}}
<1>2. IsWellFoundedOn(R, SUBSET (0..n))
  <2>1. IsFiniteSet(0..n)
    BY FS_Interval
  <2>2. SUBSET (0..n) = FiniteSubsetsOf(0..n)
    BY <2>1, FS_Subset DEF FiniteSubsetsOf
  <2> QED
    BY <2>2, FS_StrictSubsetOrderingWellFounded
<1>3. T \subseteq SUBSET (0..n) /\ T # {}
  BY <1>1
<1>4. PICK U \in T : \A V \in T : <<V, U>> \notin R
  BY <1>2, <1>3, WFMin
<1>5. PICK k \in 0..n : k \notin S /\ U = 0..k
  BY <1>4
<1>6. k # 0 /\ k - 1 \notin S /\ k - 1 \in 0..n
  BY <1>5
<1>7. 0..(k - 1) \in T /\ 0..(k - 1) \subseteq 0..k /\ 0..(k - 1) # 0..k
  BY <1>6, <1>5
<1>8. <<0..(k - 1), U>> \in R
  BY <1>7, <1>5, <1>3 DEF StrictSubsetOrdering
<1> QED
  BY <1>4, <1>7, <1>8

\* A set that holds a number of 0..N whenever it holds all before it holds all.
LEMMA IntervalInduction ==
    ASSUME NEW N \in Nat, NEW S, \A n \in 0..N : 0..(n - 1) \subseteq S => n \in S
    PROVE  0..N \subseteq S
<1> DEFINE T == {m \in Nat : m <= N => 0..m \subseteq S}
<1>1. 0 \in T
  <2>1. 0 \in 0..N /\ 0..(0 - 1) = {} /\ 0..0 = {0}
    OBVIOUS
  <2> QED
    BY <2>1
<1>2. ASSUME NEW m \in Nat, m \in T PROVE m + 1 \in T
  <2> SUFFICES ASSUME m + 1 <= N PROVE 0..(m + 1) \subseteq S
    OBVIOUS
  <2>1. 0..((m + 1) - 1) \subseteq S /\ m + 1 \in 0..N
    BY <1>2
  <2>2. m + 1 \in S
    BY <2>1
  <2> QED
    BY <2>1, <2>2
<1>3. Nat \subseteq T
  <2> HIDE DEF T
  <2> QED
    BY <1>1, <1>2, NatSetInduction
<1>4. N \in T
  BY <1>3
<1> QED
  BY <1>4

\* A set of numbers that is not empty has a least one.
LEMMA LeastNumber ==
    ASSUME NEW I, I \subseteq Nat, I # {}
    PROVE  \E m \in I : \A n \in I : m <= n
<1> DEFINE T == {m \in Nat : \A n \in I : m <= n}
<1>1. SUFFICES ASSUME \A m \in I : m \notin T
               PROVE  FALSE
  OBVIOUS
<1>2. 0 \in T
  OBVIOUS
<1>3. ASSUME NEW m \in Nat, m \in T PROVE m + 1 \in T
  BY <1>1, <1>3
<1>4. Nat \subseteq T
  <2> HIDE DEF T
  <2> QED
    BY <1>2, <1>3, NatSetInduction
<1>5. PICK m \in I : m \in Nat
  OBVIOUS
<1>6. m + 1 \in T
  BY <1>4, <1>5
<1> QED
  BY <1>5, <1>6

\* G[n] makes the value at n from the values before it, within V.
StaysWithin(G, V, N) == \A n \in 0..N : \A g \in [0..(n - 1) -> V] : G[n][g] \in V
MadeBy(f, G, N) == \A n \in 0..N : f[n] = G[n][[k \in 0..(n - 1) |-> f[k]]]

\* There is a function on 0..N whose every value is made from the values before
\* it.
LEMMA Recursion ==
    ASSUME NEW N \in Nat, NEW V, NEW G, StaysWithin(G, V, N)
    PROVE  \E f \in [0..N -> V] : MadeBy(f, G, N)
<1> USE DEF StaysWithin, MadeBy
<1> DEFINE Good(f, m) == \A n \in 0..m : f[n] = G[n][[k \in 0..(n - 1) |-> f[k]]]
           S == {m \in Nat : m <= N => \E f \in [0..m -> V] : Good(f, m)}
<1>1. 0 \in S
  <2> DEFINE e == [k \in 0..(0 - 1) |-> 0]
             f == [n \in 0..0 |-> G[0][e]]
  <2>1. e \in [0..(0 - 1) -> V] /\ 0 \in 0..N
    OBVIOUS
  <2>2. f \in [0..0 -> V]
    BY <2>1
  <2>3. [k \in 0..(0 - 1) |-> f[k]] = e
    OBVIOUS
  <2>4. f[0] = G[0][e]
    OBVIOUS
  <2>5. Good(f, 0)
    BY <2>3, <2>4
  <2> QED
    BY <2>2, <2>5
<1>2. ASSUME NEW m \in Nat, m \in S PROVE m + 1 \in S
  <2> SUFFICES ASSUME m + 1 <= N PROVE \E f \in [0..(m + 1) -> V] : Good(f, m + 1)
    OBVIOUS
  <2>1. PICK h \in [0..m -> V] : Good(h, m)
    BY <1>2
  <2> DEFINE f == [n \in 0..(m + 1) |-> IF n <= m THEN h[n] ELSE G[m + 1][h]]
  <2>2. h = [k \in 0..((m + 1) - 1) |-> h[k]] /\ h \in [0..((m + 1) - 1) -> V]
    <3>1. (m + 1) - 1 = m
      OBVIOUS
    <3>2. h = [k \in 0..m |-> h[k]]
      BY <2>1
    <3> QED
      BY <2>1, <3>1, <3>2
  <2>3. G[m + 1][h] \in V
    <3>1. m + 1 \in 0..N /\ h \in [0..((m + 1) - 1) -> V]
      BY <2>2
    <3> QED
      BY <3>1
  <2>4. f \in [0..(m + 1) -> V]
    BY <2>1, <2>3
  <2>5. ASSUME NEW n \in 0..(m + 1) PROVE f[n] = G[n][[k \in 0..(n - 1) |-> f[k]]]
    <3>1. [k \in 0..(n - 1) |-> f[k]] = [k \in 0..(n - 1) |-> h[k]]
      OBVIOUS
    <3>2. CASE n \in 0..m
      <4>1. f[n] = h[n] /\ h[n] = G[n][[k \in 0..(n - 1) |-> h[k]]]
        BY <2>1, <3>2
      <4> QED
        BY <3>1, <4>1
    <3>3. CASE n = m + 1
      <4>1. f[n] = G[n][h]
        BY <3>3
      <4>2. [k \in 0..(n - 1) |-> h[k]] = h
        BY <2>2, <3>3
      <4> QED
        BY <3>1, <4>1, <4>2
    <3> QED
      BY <3>2, <3>3
  <2> QED
    BY <2>4, <2>5
<1>3. Nat \subseteq S
  <2> HIDE DEF S
  <2> QED
    BY <1>1, <1>2, NatSetInduction
<1>4. N \in S
  BY <1>3
<1> QED
  BY <1>4

\* The same from the end: a set that holds a number of a..b whenever it holds all
\* behind it holds all; and there is a function whose every value is made from
\* the values behind it.
LEMMA DownInduction ==
    ASSUME NEW a \in Int, NEW b \in Int, NEW S, \A n \in a..b : (n + 1)..b \subseteq S => n \in S
    PROVE  a..b \subseteq S
<1>1. SUFFICES ASSUME a <= b PROVE a..b \subseteq S
  OBVIOUS
<1> DEFINE N == b - a
           T == {m \in 0..N : b - m \in S}
<1>2. ASSUME NEW m \in 0..N, 0..(m - 1) \subseteq T PROVE m \in T
  <2>1. ASSUME NEW n \in ((b - m) + 1)..b PROVE n \in S
    <3>1. b - n \in 0..(m - 1) /\ b - (b - n) = n
      OBVIOUS
    <3> QED
      BY <1>2, <3>1
  <2>2. b - m \in a..b
    BY <1>1
  <2> QED
    BY <2>1, <2>2
<1>3. 0..N \subseteq T
  <2>1. N \in Nat
    BY <1>1
  <2> HIDE DEF N, T
  <2> QED
    BY <1>2, <2>1, IntervalInduction
<1>4. ASSUME NEW n \in a..b PROVE n \in S
  <2>1. b - n \in T /\ b - (b - n) = n
    BY <1>3
  <2> QED
    BY <2>1
<1> QED
  BY <1>4

StaysWithinDown(G, V, a, b) == \A n \in a..b : \A g \in [(n + 1)..b -> V] : G[n][g] \in V
MadeByDown(f, G, a, b) == \A n \in a..b : f[n] = G[n][[k \in (n + 1)..b |-> f[k]]]

\* The same for a function defined from the end of its range backwards.
LEMMA DownRecursion ==
    ASSUME NEW a \in Int, NEW b \in Int, NEW V, NEW G, StaysWithinDown(G, V, a, b)
    PROVE  \E f \in [a..b -> V] : MadeByDown(f, G, a, b)
<1>1. CASE a > b
  <2> DEFINE f == [n \in a..b |-> 0]
  <2>1. a..b = {}
    BY <1>1
  <2>2. f \in [a..b -> V] /\ MadeByDown(f, G, a, b)
    BY <2>1 DEF MadeByDown
  <2> QED
    BY <2>2
<1>2. CASE a <= b
  <2> DEFINE N == b - a
             back(n, g) == [k \in ((b - n) + 1)..b |-> g[b - k]]
             H == [n \in 0..N |-> [g \in [0..(n - 1) -> V] |-> G[b - n][back(n, g)]]]
  <2>1. N \in Nat
    BY <1>2
  <2>2. ASSUME NEW n \in 0..N, NEW g \in [0..(n - 1) -> V]
        PROVE  b - n \in a..b /\ back(n, g) \in [((b - n) + 1)..b -> V] /\ H[n][g] = G[b - n][back(n, g)]
    <3>1. b - n \in a..b
      BY <1>2
    <3>2. \A k \in ((b - n) + 1)..b : b - k \in 0..(n - 1)
      OBVIOUS
    <3> QED
      BY <3>1, <3>2
  <2>3. StaysWithin(H, V, N)
    <3> SUFFICES ASSUME NEW n \in 0..N, NEW g \in [0..(n - 1) -> V] PROVE H[n][g] \in V
      BY DEF StaysWithin
    <3> HIDE DEF H, back, N
    <3> QED
      BY <2>2 DEF StaysWithinDown
  <2>4. PICK h \in [0..N -> V] : MadeBy(h, H, N)
    <3> HIDE DEF H, N
    <3> QED
      BY <2>1, <2>3, Recursion
  <2> DEFINE f == [n \in a..b |-> h[b - n]]
  <2>5. f \in [a..b -> V]
    <3>1. \A n \in a..b : b - n \in 0..N
      OBVIOUS
    <3> HIDE DEF N
    <3> QED
      BY <2>4, <3>1
  <2>6. ASSUME NEW n \in a..b PROVE f[n] = G[n][[k \in (n + 1)..b |-> f[k]]]
    <3> DEFINE m == b - n
               g == [k \in 0..(m - 1) |-> h[k]]
    <3>1. m \in 0..N /\ b - m = n /\ \A k \in 0..(m - 1) : k \in 0..N
      OBVIOUS
    <3>2. g \in [0..(m - 1) -> V]
      <4> HIDE DEF N, m
      <4> QED
        BY <2>4, <3>1
    <3>3. h[m] = H[m][g]
      <4> HIDE DEF H, N
      <4> QED
        BY <2>4, <3>1 DEF MadeBy
    <3>4. H[m][g] = G[b - m][back(m, g)]
      <4> HIDE DEF H, N, m, g, back
      <4> QED
        BY <2>2, <3>1, <3>2
    <3>5. back(m, g) = [k \in (n + 1)..b |-> f[k]]
      <4>1. ((b - m) + 1)..b = (n + 1)..b
        BY <3>1
      <4>2. \A k \in (n + 1)..b : k \in a..b /\ b - k \in 0..(m - 1)
        OBVIOUS
      <4> QED
        BY <4>1, <4>2
    <3>6. f[n] = h[m]
      OBVIOUS
    <3> HIDE DEF f, m, g, back, H
    <3> QED
      BY <3>1, <3>3, <3>4, <3>5, <3>6
  <2> HIDE DEF f
  <2> QED
    BY <2>5, <2>6 DEF MadeByDown
<1> QED
  BY <1>1, <1>2

-----------------------------------------------------------------------------
(* The rows that are enabled. *)

\* Enabled is what its recursive definition says, read step by step.
LEMMA EnabledSteps ==
    ASSUME NEW S, NEW table \in Seq(S), \A r \in S : r.enabled \in BOOLEAN
    PROVE  \E rows \in [0..Len(table) -> Seq(S)] :
             /\ Enabled(table) = rows[Len(table)]
             /\ rows[0] = << >>
             /\ \A n \in 1..Len(table) :
                  rows[n] = IF table[n].enabled THEN Append(rows[n - 1], table[n])
                            ELSE rows[n - 1]
<1> DEFINE N == Len(table)
           V == Seq(S)
           body(f) == [n \in 0..N |-> IF n = 0 THEN << >>
                                      ELSE IF table[n].enabled THEN Append(f[n - 1], table[n])
                                      ELSE f[n - 1]]
           make(n, g) == IF n = 0 THEN << >>
                         ELSE IF table[n].enabled THEN Append(g[n - 1], table[n])
                         ELSE g[n - 1]
           G == [n \in 0..N |-> [g \in [0..(n - 1) -> V] |-> make(n, g)]]
<1>1. N \in Nat
  OBVIOUS
<1>2. ASSUME NEW n \in 0..N, NEW g \in [0..(n - 1) -> V] PROVE G[n][g] = make(n, g) /\ make(n, g) \in V
  <2>1. G[n][g] = make(n, g)
    OBVIOUS
  <2>2. CASE n = 0
    BY <2>2
  <2>3. CASE n # 0
    <3>1. n - 1 \in 0..(n - 1) /\ n \in 1..N
      BY <2>3
    <3>2. g[n - 1] \in V /\ table[n] \in S
      BY <3>1
    <3> QED
      BY <2>3, <3>2
  <2> QED
    BY <2>1, <2>2, <2>3
<1>3. PICK f \in [0..N -> V] : MadeBy(f, G, N)
  <2>1. StaysWithin(G, V, N)
    BY <1>2 DEF StaysWithin
  <2> HIDE DEF G, V, N
  <2> QED
    BY <1>1, <2>1, Recursion
<1>4. ASSUME NEW n \in 0..N PROVE f[n] = body(f)[n]
  <2> DEFINE g == [k \in 0..(n - 1) |-> f[k]]
  <2>1. g \in [0..(n - 1) -> V]
    BY <1>3
  <2>2. f[n] = make(n, g)
    BY <1>2, <1>3, <2>1 DEF MadeBy
  <2>3. n # 0 => g[n - 1] = f[n - 1]
    OBVIOUS
  <2> QED
    BY <2>2, <2>3
<1>5. f = body(f)
  BY <1>3, <1>4
<1> DEFINE rows == CHOOSE h : h = body(h)
<1>6. rows = body(rows)
  BY <1>5
<1>7. Enabled(table) = rows[N]
  BY DEF Enabled
<1> HIDE DEF rows
<1>8. \A n \in 0..N : rows[n] \in V
  <2> DEFINE T == {n \in 0..N : rows[n] \in V}
  <2>1. ASSUME NEW n \in 0..N, 0..(n - 1) \subseteq T PROVE n \in T
    <3>1. rows[n] = make(n, rows)
      BY <1>6
    <3>2. ASSUME n = 0 PROVE rows[n] \in V
      BY <3>1, <3>2
    <3>3. ASSUME n # 0 PROVE rows[n] \in V
      <4>1. n - 1 \in T /\ n \in 1..N
        BY <2>1, <3>3
      <4>2. rows[n - 1] \in Seq(S) /\ table[n] \in S
        BY <4>1
      <4> QED
        BY <3>1, <3>3, <4>2
    <3>4. rows[n] \in V
      BY <3>2, <3>3
    <3> QED
      BY <3>4
  <2>2. 0..N \subseteq T
    <3> HIDE DEF T
    <3> QED
      BY <1>1, <2>1, IntervalInduction
  <2> QED
    BY <2>2
<1>9. rows \in [0..N -> V]
  BY <1>6, <1>8
<1>10. \A n \in 0..N : rows[n] = make(n, rows)
  BY <1>6
<1>11. rows[0] = << >> /\ \A n \in 1..N : rows[n] = make(n, rows)
  <2>1. 0 \in 0..N /\ \A n \in 1..N : n \in 0..N /\ n # 0
    OBVIOUS
  <2> QED
    BY <1>10, <2>1
<1> QED
  BY <1>7, <1>9, <1>11

\* The rows e are the enabled ones among the first n of the table, in its order:
\* at says where in the table each of them is.
Places(e, table, n, at) ==
    /\ at \in [1..Len(e) -> 1..n]
    /\ \A k \in 1..Len(e) : e[k] = table[at[k]] /\ table[at[k]].enabled
    /\ \A j, k \in 1..Len(e) : j < k => at[j] < at[k]
    /\ \A m \in 1..n : table[m].enabled => \E k \in 1..Len(e) : at[k] = m

\* Enabled loses no enabled row, adds none and keeps their order.
LEMMA EnabledRows ==
    ASSUME NEW S, NEW table \in Seq(S), \A r \in S : r.enabled \in BOOLEAN
    PROVE  /\ Enabled(table) \in Seq(S)
           /\ \E at : Places(Enabled(table), table, Len(table), at)
<1> DEFINE N == Len(table)
<1>1. PICK rows \in [0..N -> Seq(S)] :
             /\ Enabled(table) = rows[N]
             /\ rows[0] = << >>
             /\ \A n \in 1..N :
                  rows[n] = IF table[n].enabled THEN Append(rows[n - 1], table[n])
                            ELSE rows[n - 1]
  BY EnabledSteps
<1> DEFINE T == {n \in 0..N : \E at : Places(rows[n], table, n, at)}
<1>2. ASSUME NEW n \in 0..N, 0..(n - 1) \subseteq T PROVE n \in T
  <2>1. ASSUME n = 0 PROVE Places(rows[n], table, n, << >>)
    BY <1>1, <2>1 DEF Places
  <2>2. ASSUME n # 0 PROVE \E at : Places(rows[n], table, n, at)
    <3> DEFINE e == rows[n - 1]
               L == Len(e)
    <3>1. n \in 1..N /\ n - 1 \in T /\ e \in Seq(S) /\ L \in Nat /\ table[n] \in S
      BY <1>1, <1>2, <2>2
    <3>2. PICK at : Places(e, table, n - 1, at)
      BY <3>1
    <3>3. at \in [1..L -> 1..(n - 1)]
      BY <3>2 DEF Places
    <3>4. ASSUME table[n].enabled PROVE \E b : Places(rows[n], table, n, b)
      <4> DEFINE d == Append(e, table[n])
                 b == [k \in 1..(L + 1) |-> IF k = L + 1 THEN n ELSE at[k]]
      <4>1. rows[n] = d /\ Len(d) = L + 1 /\ d[L + 1] = table[n]
            /\ \A k \in 1..L : d[k] = e[k]
        <5>1. rows[n] = d
          BY <1>1, <3>1, <3>4
        <5> QED
          BY <3>1, <5>1, AppendProperties
      <4>2. b \in [1..Len(d) -> 1..n]
        BY <3>1, <3>3, <4>1
      <4>3. ASSUME NEW k \in 1..Len(d) PROVE d[k] = table[b[k]] /\ table[b[k]].enabled
        <5>1. CASE k = L + 1
          BY <3>1, <3>4, <4>1, <5>1
        <5>2. CASE k \in 1..L
          BY <3>1, <3>2, <4>1, <5>2 DEF Places
        <5> QED
          BY <3>1, <4>1, <5>1, <5>2
      <4>4. ASSUME NEW j \in 1..Len(d), NEW k \in 1..Len(d), j < k PROVE b[j] < b[k]
        <5>1. CASE k = L + 1
          BY <3>1, <3>3, <4>1, <4>4, <5>1
        <5>2. CASE k \in 1..L
          BY <3>1, <3>2, <4>1, <4>4, <5>2 DEF Places
        <5> QED
          BY <3>1, <4>1, <5>1, <5>2
      <4>5. ASSUME NEW m \in 1..n, table[m].enabled PROVE \E k \in 1..Len(d) : b[k] = m
        <5>1. CASE m = n
          <6>1. L + 1 \in 1..Len(d) /\ b[L + 1] = m
            BY <3>1, <4>1, <5>1
          <6> QED
            BY <6>1
        <5>2. CASE m \in 1..(n - 1)
          <6>1. PICK k \in 1..L : at[k] = m
            BY <3>2, <4>5, <5>2 DEF Places
          <6>2. k \in 1..Len(d) /\ b[k] = m
            BY <3>1, <4>1, <6>1
          <6> QED
            BY <6>2
        <5>3. m = n \/ m \in 1..(n - 1)
          BY <3>1
        <5> QED
          BY <5>1, <5>2, <5>3
      <4> HIDE DEF b, d
      <4>6. Places(d, table, n, b)
        BY <4>2, <4>3, <4>4, <4>5 DEF Places
      <4> QED
        BY <4>1, <4>6
    <3>5. ASSUME ~table[n].enabled PROVE Places(rows[n], table, n, at)
      <4>1. rows[n] = e
        BY <1>1, <3>1, <3>5
      <4>2. at \in [1..L -> 1..n] /\ \A m \in 1..n : table[m].enabled => m \in 1..(n - 1)
        BY <3>1, <3>3, <3>5
      <4> QED
        BY <3>2, <4>1, <4>2 DEF Places
    <3> QED
      BY <3>4, <3>5
  <2>3. \E at : Places(rows[n], table, n, at)
    BY <2>1, <2>2
  <2> QED
    BY <2>3
<1>3. 0..N \subseteq T
  <2> HIDE DEF T
  <2>1. N \in Nat
    OBVIOUS
  <2> QED
    BY <1>2, <2>1, IntervalInduction
<1>4. N \in T
  BY <1>3
<1> QED
  BY <1>1, <1>4

-----------------------------------------------------------------------------
(* The JSON form of a pipeline. *)

\* The arguments of an operation have different names.
LEMMA ArgNamesDistinct ==
    ASSUME NEW name \in DOMAIN registry
    PROVE  /\ Len(registry[name].ArgNames) \in Nat
           /\ \A m, n \in 1..Len(registry[name].ArgNames) :
                registry[name].ArgNames[m] = registry[name].ArgNames[n] => m = n
<1>1. registry[name].ArgNames \in
        {<< >>, <<"cutset">>, <<"old", "new">>, <<"old", "new", "n">>, <<"pattern", "repl">>,
         <<"substr">>, <<"start", "end">>, <<"pos", "text">>, <<"text">>, <<"length", "pad">>,
         <<"value">>, <<"table", "fallback">>}
  BY DEF registry, OpSpec
<1> QED
  BY <1>1

\* What FromJSON takes from an object.
Given(jo) ==
    LET gap == SelectInSeq(registry[jo.op].ArgNames, LAMBDA n : n \notin DOMAIN jo.args)
    IN  IF gap = 0 THEN Len(registry[jo.op].ArgNames) ELSE gap - 1
GivenArgs(jo) == [n \in 1..Given(jo) |-> unmarshalArg(jo.args[registry[jo.op].ArgNames[n]])]
FineObject(jo) == /\ jo.op \in DOMAIN registry
                  /\ Given(jo) >= registry[jo.op].MinArgs
                  /\ \A n \in 1..Given(jo) : GivenArgs(jo)[n] # None

\* FromJSON by its parts: every object is checked, then all are taken over.
LEMMA FromJSONParts ==
    ASSUME NEW ops
    PROVE  FromJSON(ops) = IF \A k \in DOMAIN ops : FineObject(ops[k])
                           THEN [k \in DOMAIN ops |-> [Name |-> ops[k].op, Args |-> GivenArgs(ops[k])]]
                           ELSE None
BY DEF FromJSON, FineObject, GivenArgs, Given

\* The arguments that are given are those before the first name that is
\* missing.
LEMMA GivenIsPrefix ==
    ASSUME NEW jo, jo.op \in DOMAIN registry
    PROVE  /\ Given(jo) \in 0..Len(registry[jo.op].ArgNames)
           /\ \A n \in 1..Given(jo) : registry[jo.op].ArgNames[n] \in DOMAIN jo.args
           /\ Given(jo) < Len(registry[jo.op].ArgNames) =>
                registry[jo.op].ArgNames[Given(jo) + 1] \notin DOMAIN jo.args
<1> DEFINE names == registry[jo.op].ArgNames
           I == {n \in 1..Len(names) : names[n] \notin DOMAIN jo.args}
<1>1. Len(names) \in Nat
  BY ArgNamesDistinct
<1>2. Given(jo) = IF I # {} THEN (IF Min(I) = 0 THEN Len(names) ELSE Min(I) - 1) ELSE Len(names)
  BY DEF Given, SelectInSeq
<1>3. CASE I = {}
  BY <1>1, <1>2, <1>3
<1>4. CASE I # {}
  <2>1. Min(I) \in I /\ \A n \in I : Min(I) <= n
    <3>1. I \subseteq Nat
      OBVIOUS
    <3> HIDE DEF I
    <3>2. \E m \in I : \A n \in I : m <= n
      BY <1>4, <3>1, LeastNumber
    <3> QED
      BY <3>2 DEF Min
  <2>2. Given(jo) = Min(I) - 1 /\ Min(I) \in 1..Len(names)
    BY <1>1, <1>2, <1>4, <2>1
  <2>3. ASSUME NEW n \in 1..Given(jo) PROVE names[n] \in DOMAIN jo.args
    <3>1. n \in 1..Len(names) /\ n < Min(I)
      BY <1>1, <2>2
    <3>2. n \notin I
      BY <1>1, <2>1, <2>2, <3>1
    <3> QED
      BY <3>1, <3>2
  <2>4. Given(jo) \in 0..Len(names)
    BY <1>1, <2>2
  <2>5. Given(jo) + 1 = Min(I)
    BY <1>1, <2>2
  <2>6. names[Given(jo) + 1] \notin DOMAIN jo.args
    BY <2>1, <2>5
  <2> HIDE DEF I
  <2> QED
    BY <2>3, <2>4, <2>6
<1> QED
  BY <1>3, <1>4

\* MarshalJSON, with the conditions and the arguments of an operation by name.
Marshals(o) == /\ o.Name \in DOMAIN registry
               /\ \A n \in DOMAIN o.Args : marshalArg(o.Args[n]) # None
ArgName(o, n) == argNameFor(registry[o.Name], n)
NamedArgs(o) == [name \in {ArgName(o, n) : n \in DOMAIN o.Args} |->
                    marshalArg(o.Args[CHOOSE n \in DOMAIN o.Args : ArgName(o, n) = name])]

\* MarshalJSON by its parts: every operation is checked, then written with names.
LEMMA MarshalJSONParts ==
    ASSUME NEW p
    PROVE  MarshalJSON(p) = IF \A k \in DOMAIN p : Marshals(p[k])
                            THEN [k \in DOMAIN p |-> [op |-> p[k].Name, args |-> NamedArgs(p[k])]]
                            ELSE None
BY DEF MarshalJSON, Marshals, NamedArgs, ArgName

\* An argument that has a value comes back as it was.
LEMMA ArgumentRoundTrip ==
    ASSUME NEW v, marshalArg(unmarshalArg(v)) # None, unmarshalArg(v) # None
    PROVE  unmarshalArg(marshalArg(unmarshalArg(v))) = unmarshalArg(v)
BY DEF marshalArg, unmarshalArg, Arg, Json

\* An operation that FromJSON accepts and MarshalJSON writes comes back as it
\* was.
LEMMA OperationRoundTrip ==
    ASSUME NEW jo, FineObject(jo), NEW o, o = [Name |-> jo.op, Args |-> GivenArgs(jo)], Marshals(o),
           NEW back, back = [op |-> o.Name, args |-> NamedArgs(o)]
    PROVE  FineObject(back) /\ GivenArgs(back) = o.Args
<1> DEFINE g == Given(jo)
           names == registry[jo.op].ArgNames
<1>1. /\ jo.op \in DOMAIN registry /\ o.Name = jo.op /\ back.op = jo.op
      /\ o.Args = GivenArgs(jo) /\ back.args = NamedArgs(o) /\ DOMAIN o.Args = 1..g
  BY DEF FineObject, GivenArgs
<1>2. g \in 0..Len(names) /\ Len(names) \in Nat
  BY <1>1, GivenIsPrefix, ArgNamesDistinct
<1>3. \A n \in 1..g : ArgName(o, n) = names[n]
  BY <1>1, <1>2 DEF ArgName, argNameFor
<1>4. DOMAIN back.args = {names[n] : n \in 1..g}
  BY <1>1, <1>3 DEF NamedArgs
<1>5. ASSUME NEW n \in 1..g PROVE back.args[names[n]] = marshalArg(o.Args[n])
  <2>1. (CHOOSE m \in DOMAIN o.Args : ArgName(o, m) = names[n]) = n
    BY <1>1, <1>2, <1>3, ArgNamesDistinct
  <2>2. names[n] \in {ArgName(o, m) : m \in DOMAIN o.Args}
    BY <1>1, <1>3
  <2> QED
    BY <1>1, <2>1, <2>2 DEF NamedArgs
<1>6. Given(back) = g
  <2>1. /\ Given(back) \in 0..Len(names)
        /\ \A n \in 1..Given(back) : names[n] \in DOMAIN back.args
        /\ Given(back) < Len(names) => names[Given(back) + 1] \notin DOMAIN back.args
    BY <1>1, GivenIsPrefix
  <2>2. ASSUME Given(back) < g PROVE FALSE
    <3>1. Given(back) + 1 \in 1..g
      BY <1>2, <2>1, <2>2
    <3> QED
      BY <1>2, <1>4, <2>1, <2>2, <3>1
  <2>3. ASSUME g < Given(back) PROVE FALSE
    <3>1. g + 1 \in 1..Given(back)
      BY <1>2, <2>1, <2>3
    <3>2. PICK n \in 1..g : names[g + 1] = names[n]
      BY <1>4, <2>1, <3>1
    <3>3. g + 1 \in 1..Len(names) /\ n \in 1..Len(names) /\ n # g + 1
      BY <1>2, <2>1, <3>1
    <3> QED
      BY <1>1, <3>2, <3>3, ArgNamesDistinct
  <2> QED
    BY <1>2, <2>1, <2>2, <2>3
<1>7. ASSUME NEW n \in 1..g PROVE GivenArgs(back)[n] = o.Args[n]
  <2>1. GivenArgs(back)[n] = unmarshalArg(marshalArg(o.Args[n]))
    BY <1>1, <1>5, <1>6 DEF GivenArgs
  <2>2. o.Args[n] = unmarshalArg(jo.args[names[n]])
    BY <1>1 DEF GivenArgs
  <2>3. marshalArg(o.Args[n]) # None /\ o.Args[n] # None
    BY <1>1 DEF Marshals, FineObject
  <2> QED
    BY <2>1, <2>2, <2>3, ArgumentRoundTrip
<1>8. GivenArgs(back) = o.Args
  BY <1>1, <1>6, <1>7 DEF GivenArgs
<1>9. FineObject(back)
  BY <1>1, <1>6, <1>8 DEF FineObject
<1> QED
  BY <1>8, <1>9

\* A pipeline that was read from JSON and can be written comes back as the same
\* operations with the same arguments.
LEMMA PipelineRoundTrip ==
    ASSUME NEW ops, FromJSON(ops) # None, MarshalJSON(FromJSON(ops)) # None
    PROVE  FromJSON(MarshalJSON(FromJSON(ops))) = FromJSON(ops)
<1> DEFINE p == FromJSON(ops)
           json == MarshalJSON(p)
<1>1. /\ \A k \in DOMAIN ops : FineObject(ops[k])
      /\ p = [k \in DOMAIN ops |-> [Name |-> ops[k].op, Args |-> GivenArgs(ops[k])]]
  BY FromJSONParts
<1>2. /\ \A k \in DOMAIN p : Marshals(p[k])
      /\ json = [k \in DOMAIN p |-> [op |-> p[k].Name, args |-> NamedArgs(p[k])]]
  <2>1. MarshalJSON(p) # None
    OBVIOUS
  <2> HIDE DEF p
  <2> QED
    BY <2>1, MarshalJSONParts
<1> HIDE DEF p, json
<1>3. ASSUME NEW k \in DOMAIN ops
      PROVE  FineObject(json[k]) /\ json[k].op = p[k].Name /\ GivenArgs(json[k]) = p[k].Args
  <2>1. p[k] = [Name |-> ops[k].op, Args |-> GivenArgs(ops[k])] /\ k \in DOMAIN p
    BY <1>1
  <2>2. json[k] = [op |-> p[k].Name, args |-> NamedArgs(p[k])]
    BY <1>2, <2>1
  <2> QED
    BY <1>1, <1>2, <2>1, <2>2, OperationRoundTrip
<1>4. DOMAIN json = DOMAIN ops /\ DOMAIN p = DOMAIN ops
  BY <1>1, <1>2
<1>5. FromJSON(json) = [k \in DOMAIN ops |-> [Name |-> json[k].op, Args |-> GivenArgs(json[k])]]
  BY <1>3, <1>4, FromJSONParts
<1>6. \A k \in DOMAIN ops : p[k] = [Name |-> json[k].op, Args |-> GivenArgs(json[k])]
  BY <1>1, <1>3
<1> QED
  BY <1>1, <1>5, <1>6 DEF p, json

-----------------------------------------------------------------------------
(* The rules that are sent, saved and evaluated. *)

\* The rules requests carry, those that pass the validation, as rows of the
\* table, and as they are evaluated.
Sent      == {Decode(b) : b \in {c \in Bodies \cup TestBodies : Sound(Decode(c))}}
Valid     == {r \in Sent : ValidateRule(r) = {}}
Saved     == {Encode(r) : r \in {v \in Valid : Sound(Encode(v))}}
Evaluated == Valid \cup {[r EXCEPT !.enabled = TRUE] : r \in Valid}

\* A rule that can be encoded comes back from the table as it was sent.
LEMMA RuleRoundTrip ==
    ASSUME NEW r \in Sent
    PROVE  /\ r.enabled \in BOOLEAN /\ r.pattern \in DOMAIN GroupsOf
           /\ r = [enabled |-> r.enabled, pattern |-> r.pattern,
                   transforms |-> r.transforms, template |-> r.template]
           /\ Encode(r).enabled = r.enabled /\ Encode(r).pattern = r.pattern
           /\ Sound(Encode(r)) => Decode(Encode(r)) = r
<1>1. PICK b \in Bodies \cup TestBodies : r = Decode(b) /\ Sound(Decode(b))
  BY DEF Sent
<1> DEFINE t == [g \in DOMAIN b.transforms |-> FromJSON(b.transforms[g])]
           e == [g \in DOMAIN r.transforms |-> MarshalJSON(r.transforms[g])]
           d == [g \in DOMAIN e |-> FromJSON(e[g])]
<1>2. /\ b = [enabled |-> b.enabled, pattern |-> b.pattern,
              transforms |-> b.transforms, template |-> b.template]
      /\ b.enabled \in BOOLEAN /\ b.pattern \in DOMAIN GroupsOf
  BY RuleEngineAssumption
<1>3. r = [enabled |-> b.enabled, pattern |-> b.pattern, transforms |-> t, template |-> b.template]
  BY <1>1, <1>2 DEF Decode
<1>4. Encode(r) = [enabled |-> b.enabled, pattern |-> b.pattern,
                   transforms |-> e, template |-> b.template]
  BY <1>3 DEF Encode
<1>5. ASSUME Sound(Encode(r)) PROVE Decode(Encode(r)) = r
  <2>1. Decode(Encode(r)) = [enabled |-> b.enabled, pattern |-> b.pattern,
                             transforms |-> d, template |-> b.template]
    BY <1>4 DEF Decode
  <2>2. DOMAIN d = DOMAIN t /\ r.transforms = t
    BY <1>3
  <2>3. ASSUME NEW g \in DOMAIN t PROVE d[g] = t[g]
    <3>1. t[g] = FromJSON(b.transforms[g]) /\ t[g] # None
      BY <1>1, <2>2 DEF Sound
    <3>2. e[g] = MarshalJSON(t[g]) /\ e[g] # None
      BY <1>4, <1>5, <2>2 DEF Sound
    <3>3. d[g] = FromJSON(e[g])
      BY <2>2
    <3> QED
      BY <3>1, <3>2, <3>3, PipelineRoundTrip
  <2>4. d = t
    BY <2>2, <2>3
  <2> QED
    BY <1>3, <2>1, <2>4
<1> HIDE DEF t, e, d
<1> QED
  BY <1>2, <1>3, <1>4, <1>5

\* A rule that is evaluated compiles, and refers to groups of its pattern only.
LEMMA EvaluatedRules ==
    ASSUME NEW r \in Evaluated
    PROVE  /\ r.pattern \in DOMAIN GroupsOf /\ GroupsOf[r.pattern] # None
           /\ DOMAIN r.transforms \cup extractTemplateTokens(r.template) \subseteq GroupsOf[r.pattern]
<1>1. PICK v \in Valid : r = v \/ r = [v EXCEPT !.enabled = TRUE]
  BY DEF Evaluated
<1>2. v \in Sent /\ ValidateRule(v) = {}
  BY DEF Valid
<1>3. r.pattern = v.pattern /\ r.transforms = v.transforms /\ r.template = v.template
  BY <1>1, <1>2, RuleRoundTrip
<1>4. GroupsOf[v.pattern] # None
  BY <1>2 DEF ValidateRule
<1>5. (DOMAIN v.transforms \cup extractTemplateTokens(v.template)) \ GroupsOf[v.pattern] = {}
  BY <1>2, <1>4 DEF ValidateRule
<1> QED
  BY <1>2, <1>3, <1>4, <1>5, RuleRoundTrip

\* A row of the table, decoded: it is evaluated as it was sent.
LEMMA SavedRules ==
    ASSUME NEW row \in Saved
    PROVE  /\ row.enabled \in BOOLEAN
           /\ Decode(row) \in Evaluated
           /\ Decode(row).enabled = row.enabled /\ Decode(row).pattern = row.pattern
BY RuleRoundTrip DEF Saved, Valid, Evaluated

-----------------------------------------------------------------------------
(* The loop of Evaluate. *)

\* While Evaluate runs, no rule before the position of the loop matches; the
\* rules of a discovery or redistribute are the enabled ones of the table, that
\* of a test is the candidate.
LoopInv ==
    pc \in {"evaluate", "return"} =>
        /\ op \in {"test", "assign"}
        /\ host \in Hosts
        /\ rules \in Seq(Evaluated)
        /\ i \in 1..(Len(rules) + 1)
        /\ \A j \in 1..(i - 1) : ~Matches(rules[j])
        /\ op = "assign" => rules = ListEnabledOrdered
        /\ op = "test" => req \in Valid /\ rules = <<[req EXCEPT !.enabled = TRUE]>>

\* The result is that of the rule at the position of the loop.
ResultInv ==
    IF pc = "return" THEN \/ i = Len(rules) + 1 /\ result = NoResult
                          \/ /\ i <= Len(rules) /\ Matches(rules[i])
                             /\ result = MatchResult(i, rules[i], Captures(rules[i]))
    ELSE result = NoResult

IndInv ==
    /\ stored \in Seq(Saved)
    /\ pc \in {"idle", "validate", "evaluate", "return", "panic"}
    /\ pc = "validate" => req \in Sent
    /\ LoopInv
    /\ ResultInv

\* Inserting and removing a row leaves rows.
LEMMA InsertRow ==
    ASSUME NEW S, NEW s \in Seq(S), NEW n \in 1..(Len(s) + 1), NEW e \in S
    PROVE  InsertAt(s, n, e) \in Seq(S) /\ \E m \in DOMAIN InsertAt(s, n, e) : InsertAt(s, n, e)[m] = e
<1> DEFINE a == SubSeq(s, 1, n - 1)
           b == SubSeq(s, n, Len(s))
<1>1. a \in Seq(S) /\ Len(a) = n - 1 /\ b \in Seq(S) /\ n \in Nat
  OBVIOUS
<1> HIDE DEF a, b
<1>2. a \o <<e>> \in Seq(S) /\ Len(a \o <<e>>) = n /\ (a \o <<e>>)[n] = e
  BY <1>1
<1>3. /\ (a \o <<e>>) \o b \in Seq(S)
      /\ Len((a \o <<e>>) \o b) = n + Len(b) /\ ((a \o <<e>>) \o b)[n] = e
  <2> DEFINE c == a \o <<e>>
  <2>1. c \in Seq(S) /\ Len(c) = n /\ c[n] = e
    BY <1>2
  <2> HIDE DEF c
  <2>2. c \o b \in Seq(S) /\ Len(c \o b) = n + Len(b) /\ (c \o b)[n] = e
    <3>1. n \in 1..Len(c) /\ Len(c) \in Nat /\ Len(b) \in Nat
      BY <1>1, <2>1
    <3>2. c \o b \in Seq(S) /\ Len(c \o b) = Len(c) + Len(b)
      BY <1>1, <2>1, ConcatProperties
    <3>3. (c \o b)[n] = c[n]
      BY <1>1, <2>1, <3>1, ConcatProperties
    <3> QED
      BY <2>1, <3>2, <3>3
  <2> QED
    BY <2>2 DEF c
<1>4. InsertAt(s, n, e) = (a \o <<e>>) \o b
  BY DEF InsertAt, a, b
<1>5. n \in DOMAIN ((a \o <<e>>) \o b)
  BY <1>1, <1>3
<1> QED
  BY <1>3, <1>4, <1>5

\* A deleted row leaves a table that is one row shorter.
LEMMA RemoveRow ==
    ASSUME NEW S, NEW s \in Seq(S), NEW n \in 1..Len(s)
    PROVE  RemoveAt(s, n) \in Seq(S) /\ Len(RemoveAt(s, n)) = Len(s) - 1
<1> DEFINE a == SubSeq(s, 1, n - 1)
           b == SubSeq(s, n + 1, Len(s))
<1>1. a \in Seq(S) /\ Len(a) = n - 1 /\ b \in Seq(S) /\ Len(b) = Len(s) - n
  OBVIOUS
<1>2. RemoveAt(s, n) = a \o b
  BY DEF RemoveAt
<1> HIDE DEF a, b
<1>3. a \o b \in Seq(S) /\ Len(a \o b) = Len(s) - 1
  BY <1>1
<1> QED
  BY <1>2, <1>3

\* What Assign evaluates.
LEMMA Listed ==
    ASSUME stored \in Seq(Saved)
    PROVE  ListEnabledOrdered \in Seq(Evaluated) /\ Len(ListEnabledOrdered) = Len(Enabled(stored))
<1>1. Enabled(stored) \in Seq(Saved)
  BY EnabledRows, SavedRules
<1> QED
  BY <1>1, SavedRules DEF ListEnabledOrdered

\* A call of Evaluate starts at the first rule.
LEMMA CallStep ==
    ASSUME IndInv, NEW rs \in Seq(Evaluated), NEW h \in Hosts, Call(rs, h), op' \in {"test", "assign"},
           op' = "assign" => rs = ListEnabledOrdered,
           op' = "test" => req \in Valid /\ rs = <<[req EXCEPT !.enabled = TRUE]>>,
           UNCHANGED <<stored, req, result>>, pc # "return"
    PROVE  IndInv'
<1>1. ListEnabledOrdered' = ListEnabledOrdered
  BY DEF ListEnabledOrdered
<1>2. LoopInv'
  BY <1>1 DEF LoopInv, Call
<1> QED
  BY <1>2 DEF IndInv, ResultInv, Call

\* Every request of a client and every rule of the loop keeps the invariant.
LEMMA IndInvStep == IndInv /\ [Next]_vars => IndInv'
<1> SUFFICES ASSUME IndInv, [Next]_vars
             PROVE  IndInv'
  OBVIOUS
<1>1. ASSUME Receive("create", Bodies) \/ Receive("update", Bodies) \/ Receive("test", TestBodies)
      PROVE  IndInv'
  <2>1. pc = "idle" /\ pc' = "validate" /\ UNCHANGED <<stored, rules, host, i, result>> /\ req' \in Sent
    BY <1>1 DEF Receive, Sent
  <2> QED
    BY <2>1 DEF IndInv, LoopInv, ResultInv
<1>2. CASE Refuse
  BY <1>2 DEF IndInv, LoopInv, ResultInv, Refuse, Answered
<1>3. ASSUME pc = "validate", ValidateRule(req) = {}, Sound(Encode(req))
      PROVE  Encode(req) \in Saved
  BY <1>3 DEF IndInv, Saved, Valid
<1>4. ASSUME NEW n \in 1..(Len(stored) + 1), Create(n) PROVE IndInv'
  <2>1. stored' \in Seq(Saved)
    BY <1>3, <1>4, InsertRow DEF IndInv, Create
  <2> QED
    BY <1>4, <2>1 DEF IndInv, LoopInv, ResultInv, Create, Answered
<1>5. ASSUME NEW n \in DOMAIN stored, NEW m \in DOMAIN stored, Update(n, m) PROVE IndInv'
  <2>1. stored \in Seq(Saved) /\ n \in 1..Len(stored) /\ m \in 1..Len(stored)
    BY DEF IndInv
  <2>2. RemoveAt(stored, n) \in Seq(Saved) /\ m \in 1..(Len(RemoveAt(stored, n)) + 1)
    BY <2>1, RemoveRow
  <2>3. stored' \in Seq(Saved)
    BY <1>3, <1>5, <2>2, InsertRow DEF Update
  <2> QED
    BY <1>5, <2>3 DEF IndInv, LoopInv, ResultInv, Update, Answered
<1>6. ASSUME NEW h \in Hosts, Test(h) PROVE IndInv'
  <2> DEFINE r == [req EXCEPT !.enabled = TRUE]
  <2>1. req \in Valid /\ <<r>> \in Seq(Evaluated)
    <3>1. req \in Valid
      BY <1>6 DEF IndInv, Test, Valid
    <3>2. r \in Evaluated
      BY <3>1 DEF Evaluated
    <3> HIDE DEF r
    <3> QED
      BY <3>1, <3>2
  <2> HIDE DEF r
  <2>2. Call(<<r>>, h) /\ UNCHANGED <<stored, op, req, result>> /\ op = "test" /\ pc # "return"
    BY <1>6 DEF Test, r
  <2>3. r = [req EXCEPT !.enabled = TRUE]
    BY DEF r
  <2> QED
    BY <2>1, <2>2, <2>3, CallStep
<1>7. ASSUME NEW h \in Hosts, Assign(h) PROVE IndInv'
  <2>1. ListEnabledOrdered \in Seq(Evaluated)
    BY Listed DEF IndInv
  <2>2. /\ Call(ListEnabledOrdered, h) /\ UNCHANGED <<stored, req, result>>
        /\ op' = "assign" /\ pc # "return"
    BY <1>7 DEF Assign
  <2> QED
    BY <2>1, <2>2, CallStep
<1>8. ASSUME pc = "evaluate", UNCHANGED <<stored, op, req, rules, host>>
      PROVE  /\ stored' \in Seq(Saved)
             /\ op' \in {"test", "assign"} /\ host' \in Hosts /\ rules' \in Seq(Evaluated)
             /\ op' = "assign" => rules' = ListEnabledOrdered'
             /\ op' = "test" => req' \in Valid /\ rules' = <<[req' EXCEPT !.enabled = TRUE]>>
             /\ \A j \in 1..(i - 1) : ~Matches(rules[j])'
             /\ \A r : Matches(r)' = Matches(r) /\ Captures(r)' = Captures(r)
  BY <1>8 DEF IndInv, LoopInv, ListEnabledOrdered, Matches, Captures
<1>9. CASE Skip
  <2>1. i' \in 1..(Len(rules') + 1)
    BY <1>9 DEF IndInv, LoopInv, Skip
  <2>2. ASSUME NEW j \in 1..(i' - 1) PROVE ~Matches(rules[j])'
    <3>1. i \in Nat /\ i' = i + 1
      BY <1>9 DEF IndInv, LoopInv, Skip
    <3>2. CASE j = i
      BY <1>8, <1>9, <3>2 DEF Skip
    <3>3. CASE j \in 1..(i - 1)
      BY <1>8, <1>9, <3>3 DEF Skip
    <3> QED
      BY <3>1, <3>2, <3>3
  <2>3. LoopInv'
    BY <1>8, <1>9, <2>1, <2>2 DEF LoopInv, Skip
  <2> QED
    BY <1>8, <1>9, <2>3 DEF IndInv, ResultInv, Skip
<1>10. CASE evaluateMatch
  <2>1. pc' \in {"return", "panic"} /\ UNCHANGED <<stored, op, req, rules, host, i>>
    BY <1>10 DEF evaluateMatch
  <2>2. LoopInv'
    BY <1>8, <1>10, <2>1 DEF IndInv, LoopInv, evaluateMatch
  <2>3. ResultInv'
    BY <1>8, <1>10, <2>1 DEF IndInv, ResultInv, evaluateMatch, MatchResult, TransformedCaptures, Ends
  <2> QED
    BY <1>8, <1>10, <2>1, <2>2, <2>3 DEF IndInv, evaluateMatch
<1>11. CASE Unmatched
  <2>1. LoopInv'
    BY <1>8, <1>11 DEF IndInv, LoopInv, Unmatched
  <2>2. ResultInv'
    BY <1>11 DEF IndInv, LoopInv, ResultInv, Unmatched
  <2> QED
    BY <1>8, <1>11, <2>1, <2>2 DEF IndInv, Unmatched
<1>12. CASE Return
  BY <1>12 DEF IndInv, LoopInv, ResultInv, Return, Answered
<1>13. CASE UNCHANGED vars
  <2>1. ListEnabledOrdered' = ListEnabledOrdered /\ \A r : Matches(r)' = Matches(r) /\ Captures(r)' = Captures(r)
    BY <1>13 DEF vars, ListEnabledOrdered, Matches, Captures
  <2> QED
    BY <1>13, <2>1 DEF vars, IndInv, LoopInv, ResultInv
<1> QED
  BY <1>1, <1>2, <1>4, <1>5, <1>6, <1>7, <1>9, <1>10, <1>11, <1>12, <1>13 DEF Next

\* The table holds validated rules in the form in which they come back as they
\* were sent, and Evaluate works on rules from it.
THEOREM IndInvHolds == Spec => []IndInv
<1>1. Init => IndInv
  BY DEF Init, IndInv, LoopInv, ResultInv
<1> QED
  BY <1>1, IndInvStep, PTL DEF Spec

-----------------------------------------------------------------------------
(* The theorems. *)

\* The values of a result are the groups of the rule's pattern.
LEMMA ResultParts ==
    ASSUME IndInv, pc = "return", i <= Len(rules)
    PROVE  /\ rules[i] \in Evaluated /\ i \in Nat /\ i # 0
           /\ Captures(rules[i]) # None =>
                /\ MatchOf[rules[i].pattern][host] # None
                /\ DOMAIN MatchResult(i, rules[i], Captures(rules[i])).values = GroupsOf[rules[i].pattern]
<1>1. rules \in Seq(Evaluated) /\ i \in 1..Len(rules) /\ host \in Hosts
  BY DEF IndInv, LoopInv
<1>2. rules[i] \in Evaluated /\ i \in Nat /\ i # 0
  BY <1>1
<1>3. rules[i].pattern \in DOMAIN GroupsOf /\ GroupsOf[rules[i].pattern] # None
  BY <1>2, EvaluatedRules
<1>4. Captures(rules[i]) = MatchOf[rules[i].pattern][host]
  BY <1>3 DEF Captures
<1>5. ASSUME Captures(rules[i]) # None
      PROVE  DOMAIN Captures(rules[i]) = GroupsOf[rules[i].pattern]
  BY <1>1, <1>3, <1>4, <1>5, RuleEngineAssumption
<1> QED
  BY <1>2, <1>4, <1>5 DEF MatchResult, TransformedCaptures

\* Every token of the rule that decides has a value, and every transform a group
\* of the pattern: the fallback of renderTemplate is dead code behind the
\* validation of Create, Update and Test.  The operations of a pipeline and how
\* many arguments they have are not ValidateRule's business but FromJSON's.
THEOREM ValidatedNeverFallsBackHolds == Spec => []ValidatedNeverFallsBack
<1>1. IndInv => ValidatedNeverFallsBack
  <2> SUFFICES ASSUME IndInv, result.rule # 0
               PROVE  /\ extractTemplateTokens(rules[result.rule].template) \subseteq DOMAIN result.values
                      /\ DOMAIN rules[result.rule].transforms \subseteq DOMAIN result.values
    BY DEF ValidatedNeverFallsBack
  <2>1. /\ pc = "return" /\ i <= Len(rules) /\ Captures(rules[i]) # None
        /\ result = MatchResult(i, rules[i], Captures(rules[i]))
    BY DEF IndInv, ResultInv, NoResult, Matches
  <2>2. result.rule = i
    BY <2>1 DEF MatchResult
  <2>3. DOMAIN result.values = GroupsOf[rules[i].pattern] /\ rules[i] \in Evaluated
    BY <2>1, ResultParts
  <2> QED
    BY <2>2, <2>3, EvaluatedRules
<1> QED
  BY <1>1, IndInvHolds, PTL

\* Where an evaluated rule stands in the table.
LEMMA Standing ==
    ASSUME IndInv, pc \in {"evaluate", "return"}, op = "assign"
    PROVE  \E at : /\ Places(Enabled(stored), stored, Len(stored), at)
                   /\ Len(Enabled(stored)) = Len(rules)
                   /\ \A k \in 1..Len(rules) :
                        /\ at[k] \in DOMAIN stored /\ stored[at[k]].enabled
                        /\ rules[k] = Decode(stored[at[k]])
                        /\ Matches(rules[k]) <=> MatchOf[stored[at[k]].pattern][host] # None
<1>1. stored \in Seq(Saved) /\ rules = ListEnabledOrdered
  BY DEF IndInv, LoopInv
<1>2. PICK at : Places(Enabled(stored), stored, Len(stored), at)
  BY <1>1, EnabledRows, SavedRules
<1>3. Len(rules) = Len(Enabled(stored)) /\ Enabled(stored) \in Seq(Saved)
  BY <1>1, Listed, EnabledRows, SavedRules
<1>4. ASSUME NEW k \in 1..Len(rules)
      PROVE  /\ at[k] \in DOMAIN stored /\ stored[at[k]].enabled
             /\ rules[k] = Decode(stored[at[k]])
             /\ Matches(rules[k]) <=> MatchOf[stored[at[k]].pattern][host] # None
  <2>1. k \in 1..Len(Enabled(stored)) /\ k \in DOMAIN Enabled(stored)
    BY <1>3
  <2>2. at[k] \in 1..Len(stored) /\ Enabled(stored)[k] = stored[at[k]] /\ stored[at[k]].enabled
    BY <1>2, <2>1 DEF Places
  <2>3. rules[k] = Decode(stored[at[k]])
    BY <1>1, <2>1, <2>2 DEF ListEnabledOrdered
  <2>4. stored[at[k]] \in Saved
    BY <1>1, <2>2
  <2>5. /\ rules[k] \in Evaluated /\ rules[k].enabled
        /\ rules[k].pattern = stored[at[k]].pattern
    BY <2>2, <2>3, <2>4, SavedRules
  <2>6. GroupsOf[rules[k].pattern] # None
    BY <2>5, EvaluatedRules
  <2> QED
    BY <1>1, <2>2, <2>3, <2>5, <2>6 DEF Matches, Captures
<1> QED
  BY <1>2, <1>3, <1>4

\* The verdict of a discovery or redistribute is that of the first row, in the
\* order of the priorities, that is enabled and matches: whatever was created,
\* edited and moved before, and however many rules there are.
THEOREM EvaluateIsFirstMatchHolds == Spec => []EvaluateIsFirstMatch
<1>1. IndInv => EvaluateIsFirstMatch
  <2> DEFINE hits == {n \in DOMAIN stored : /\ stored[n].enabled
                                            /\ MatchOf[stored[n].pattern][host] # None}
             m == CHOOSE n \in hits : \A l \in hits : n <= l
  <2> SUFFICES ASSUME IndInv, pc = "return", op = "assign"
               PROVE  IF hits = {} THEN result = NoResult
                      ELSE /\ result.rule # 0
                           /\ rules[result.rule] = Decode(stored[m])
                           /\ DOMAIN result.values = GroupsOf[stored[m].pattern]
                           /\ result.key = << >> <=> << >> \in result.warnings
                           /\ \A g \in DOMAIN result.values \cap result.warnings :
                                 result.values[g] = MatchOf[stored[m].pattern][host][g]
    BY DEF EvaluateIsFirstMatch
  <2>1. PICK at : /\ Places(Enabled(stored), stored, Len(stored), at)
                  /\ Len(Enabled(stored)) = Len(rules)
                  /\ \A k \in 1..Len(rules) :
                       /\ at[k] \in DOMAIN stored /\ stored[at[k]].enabled
                       /\ rules[k] = Decode(stored[at[k]])
                       /\ Matches(rules[k]) <=> MatchOf[stored[at[k]].pattern][host] # None
    BY Standing
  <2>2. /\ stored \in Seq(Saved) /\ rules \in Seq(Evaluated) /\ i \in 1..(Len(rules) + 1)
        /\ \A j \in 1..(i - 1) : ~Matches(rules[j])
    BY DEF IndInv, LoopInv
  <2>3. ASSUME i <= Len(rules), Matches(rules[i]), result = MatchResult(i, rules[i], Captures(rules[i]))
        PROVE  at[i] \in hits
    BY <2>1, <2>2, <2>3
  <2>4. CASE hits = {}
    BY <2>3, <2>4 DEF IndInv, ResultInv
  <2>5. CASE hits # {}
    <3>1. hits \subseteq Nat /\ DOMAIN stored = 1..Len(stored)
      BY <2>2
    <3>2. m \in hits /\ \A l \in hits : m <= l
      <4> HIDE DEF hits
      <4>1. \E n \in hits : \A l \in hits : n <= l
        BY <2>5, <3>1, LeastNumber
      <4> QED
        BY <4>1
    <3> HIDE DEF m
    <3>3. PICK k \in 1..Len(rules) : at[k] = m
      BY <2>1, <3>1, <3>2 DEF Places
    <3>4. Matches(rules[k])
      BY <2>1, <3>2, <3>3
    <3>5. i <= k /\ i <= Len(rules) /\ i \in 1..Len(rules)
      BY <2>2, <3>3, <3>4
    <3>6. Matches(rules[i]) /\ result = MatchResult(i, rules[i], Captures(rules[i]))
      BY <2>2, <3>5 DEF IndInv, ResultInv
    <3>7. i = k
      <4>1. m <= at[i]
        BY <2>3, <3>2, <3>5, <3>6
      <4>2. i < k => at[i] < at[k]
        BY <2>1, <3>3, <3>5 DEF Places
      <4>3. at[i] \in Nat /\ m \in Nat
        BY <2>1, <3>1, <3>2, <3>5
      <4> QED
        BY <2>2, <3>3, <3>5, <4>1, <4>2, <4>3
    <3>8. rules[i] = Decode(stored[m]) /\ result.rule = i /\ i # 0
      BY <2>1, <2>2, <3>3, <3>6, <3>7 DEF MatchResult
    <3>9. rules[i].pattern = stored[m].pattern
      BY <2>2, <3>2, <3>8, SavedRules
    <3>10. DOMAIN result.values = GroupsOf[rules[i].pattern] /\ rules[i] \in Evaluated
      BY <3>5, <3>6, ResultParts DEF Matches
    <3>11. result.key = << >> <=> << >> \in result.warnings
      <4> DEFINE raw == Captures(rules[i])
      <4>1. DOMAIN raw = DOMAIN result.values
        BY <3>6 DEF MatchResult, TransformedCaptures
      <4>2. << >> \notin DOMAIN raw
        BY <3>10, <4>1, EvaluatedRules, RuleEngineAssumption
      <4>3. << >> \notin Ends(rules[i], raw, None)
        BY <4>2 DEF Ends
      <4> QED
        BY <3>6, <4>3 DEF MatchResult
    <3>12. ASSUME NEW g \in DOMAIN result.values \cap result.warnings
           PROVE  result.values[g] = MatchOf[stored[m].pattern][host][g]
      <4> DEFINE raw == Captures(rules[i])
      <4>1. DOMAIN raw = DOMAIN result.values
        BY <3>6 DEF MatchResult, TransformedCaptures
      <4>2. << >> \notin DOMAIN raw
        BY <3>10, <4>1, EvaluatedRules, RuleEngineAssumption
      <4>3. g \in Ends(rules[i], raw, None) /\ g \in DOMAIN raw
        BY <3>6, <3>12, <4>1, <4>2 DEF MatchResult
      <4>4. result.values[g] = raw[g]
        BY <3>6, <4>3 DEF MatchResult, TransformedCaptures
      <4>5. raw = MatchOf[rules[i].pattern][host]
        BY <3>6 DEF Matches, Captures
      <4> QED
        BY <3>9, <4>4, <4>5
    <3> QED
      BY <2>5, <3>8, <3>9, <3>10, <3>11, <3>12
  <2> QED
    BY <2>4, <2>5
<1> QED
  BY <1>1, IndInvHolds, PTL

\* What a create or update leaves in the table decodes to the rule that was sent
\* and validated.
THEOREM SavedAsSentHolds == Spec => SavedAsSent
<1>1. IndInv /\ [Next]_vars =>
        [stored' # stored => \E n \in DOMAIN stored' : Decode(stored'[n]) = req]_vars
  <2> SUFFICES ASSUME IndInv, Next, stored' # stored
               PROVE  \E n \in DOMAIN stored' : Decode(stored'[n]) = req
    OBVIOUS
  <2>1. ASSUME pc = "validate", Sound(Encode(req)), ValidateRule(req) = {}
        PROVE  Encode(req) \in Saved /\ Decode(Encode(req)) = req
    BY <2>1, RuleRoundTrip DEF IndInv, Saved, Valid
  <2>2. ASSUME NEW n \in 1..(Len(stored) + 1), Create(n)
        PROVE  \E m \in DOMAIN stored' : Decode(stored'[m]) = req
    <3>1. \E m \in DOMAIN stored' : stored'[m] = Encode(req)
      BY <2>1, <2>2, InsertRow DEF IndInv, Create
    <3> QED
      BY <2>1, <2>2, <3>1 DEF Create
  <2>3. ASSUME NEW n \in DOMAIN stored, NEW l \in DOMAIN stored, Update(n, l)
        PROVE  \E m \in DOMAIN stored' : Decode(stored'[m]) = req
    <3>1. stored \in Seq(Saved) /\ n \in 1..Len(stored) /\ l \in 1..Len(stored)
      BY DEF IndInv
    <3>2. RemoveAt(stored, n) \in Seq(Saved) /\ l \in 1..(Len(RemoveAt(stored, n)) + 1)
      BY <3>1, RemoveRow
    <3>3. \E m \in DOMAIN stored' : stored'[m] = Encode(req)
      BY <2>1, <2>3, <3>2, InsertRow DEF Update
    <3> QED
      BY <2>1, <2>3, <3>3 DEF Update
  <2> QED
    BY <2>2, <2>3 DEF Next, Receive, Refuse, Test, Assign, Skip, evaluateMatch, Unmatched, Return
<1> QED
  BY <1>1, IndInvHolds, PTL DEF Spec, SavedAsSent

-----------------------------------------------------------------------------
(* What the operations of a pipeline compute: a text, or an error. *)

Text == Seq(Char)

\* A slice of a text within its bounds is a text, as long as the bounds are apart.
LEMMA SliceType ==
    ASSUME NEW s \in Text, NEW a \in Int, NEW b \in Int, 0 <= a, a <= b, b <= Len(s)
    PROVE  Slice(s, a, b) \in Text /\ Slice(s, a, b) = SubSeq(s, a + 1, b) /\ Len(Slice(s, a, b)) = b - a
BY DEF Slice, Text

\* Two texts put together are a text.
LEMMA ConcatType ==
    ASSUME NEW s \in Text, NEW t \in Text
    PROVE  Concat(s, t) \in Text /\ Concat(s, t) = s \o t
BY DslAssumption DEF Concat, Text

\* Trimming a text leaves a text.
LEMMA TrimType ==
    ASSUME NEW s \in Text, NEW cut
    PROVE  TrimLeft(s, cut) \in Text /\ TrimRight(s, cut) \in Text
<1>1. s \in Seq(Char) /\ Len(s) \in Nat
  BY DEF Text
<1>2. TrimLeft(s, cut) \in Text
  <2> DEFINE I == {n \in 1..Len(s) : s[n] \notin cut}
  <2>1. SelectInSeq(s, LAMBDA c : c \notin cut) = IF I # {} THEN Min(I) ELSE 0
    BY DEF SelectInSeq
  <2>2. I # {} => Min(I) \in I
    <3>1. I \subseteq Nat
      OBVIOUS
    <3> HIDE DEF I
    <3> QED
      BY <3>1, LeastNumber DEF Min
  <2>3. ASSUME NEW m \in 1..Len(s) PROVE SubSeq(s, m, Len(s)) \in Text
    BY <1>1 DEF Text
  <2>4. << >> \in Text
    BY DEF Text
  <2> QED
    BY <2>1, <2>2, <2>3, <2>4 DEF TrimLeft
<1>3. TrimRight(s, cut) \in Text
  <2> DEFINE I == {n \in 1..Len(s) : s[n] \notin cut}
  <2>1. SelectLastInSeq(s, LAMBDA c : c \notin cut) = IF I # {} THEN Max(I) ELSE 0
    BY DEF SelectLastInSeq
  <2>2. I # {} => Max(I) \in I
    <3>1. SUFFICES ASSUME I # {} PROVE \E m \in I : \A n \in I : n <= m
      BY DEF Max
    <3> DEFINE J == {Len(s) - n : n \in I}
    <3>2. J \subseteq Nat /\ J # {}
      BY <1>1, <3>1
    <3>3. PICK j \in J : \A l \in J : j <= l
      <4> HIDE DEF J
      <4> QED
        BY <3>2, LeastNumber
    <3>4. PICK m \in I : j = Len(s) - m
      BY <3>3
    <3>5. \A n \in I : Len(s) - n \in J
      OBVIOUS
    <3>6. ASSUME NEW n \in I PROVE n <= m
      <4>1. Len(s) - m <= Len(s) - n
        BY <3>3, <3>4, <3>5
      <4>2. n \in Int /\ m \in Int
        BY <1>1
      <4> HIDE DEF I, J
      <4> QED
        BY <1>1, <4>1, <4>2
    <3> QED
      BY <3>6
  <2>3. ASSUME NEW m \in 0..Len(s) PROVE SubSeq(s, 1, m) \in Text
    BY <1>1 DEF Text
  <2>4. (IF I # {} THEN Max(I) ELSE 0) \in 0..Len(s)
    BY <1>1, <2>2
  <2> QED
    BY <2>1, <2>3, <2>4 DEF TrimRight
<1> QED
  BY <1>2, <1>3

\* strings.Replace ends and makes a text, also when what is replaced is empty.
LEMMA ReplaceType ==
    ASSUME NEW s \in Text, NEW old \in Text, NEW new \in Text, NEW n \in Int
    PROVE  Replace(s, old, new, n) \in Text
<1> DEFINE L == Len(s) + 1
           V == [Nat -> Text]
           found(p) == p + Len(old) - 1 <= Len(s) /\ SubSeq(s, p, p + Len(old) - 1) = old
           make(p, g) == [done \in Nat |->
             LET here == found(p) /\ done # n
                 head == IF here THEN new ELSE << >>
                 count == IF here THEN done + 1 ELSE done
             IN  IF here /\ old # << >> THEN new \o g[p + Len(old)][count]
                 ELSE IF p > Len(s) THEN head
                 ELSE head \o <<s[p]>> \o g[p + 1][count]]
           body(f) == [p \in 1..L |-> make(p, f)]
           G == [p \in 1..L |-> [g \in [(p + 1)..L -> V] |-> make(p, g)]]
<1>1. Len(s) \in Nat /\ Len(old) \in Nat /\ L \in Nat /\ (old # << >> => Len(old) > 0)
  BY DEF Text
<1>2. ASSUME NEW p \in 1..L, NEW g, \A k \in (p + 1)..L : g[k] \in V
      PROVE  make(p, g) \in V
  <2> SUFFICES ASSUME NEW done \in Nat PROVE make(p, g)[done] \in Text
    <3> HIDE DEF make
    <3>1. make(p, g) = [done \in Nat |-> make(p, g)[done]]
      BY DEF make
    <3> QED
      BY <3>1
  <2> DEFINE here == found(p) /\ done # n
             head == IF here THEN new ELSE << >>
             count == IF here THEN done + 1 ELSE done
  <2>1. count \in Nat /\ head \in Text
    BY DEF Text
  <2>2. make(p, g)[done] = IF here /\ old # << >> THEN new \o g[p + Len(old)][count]
                           ELSE IF p > Len(s) THEN head
                           ELSE head \o <<s[p]>> \o g[p + 1][count]
    OBVIOUS
  <2>3. here /\ old # << >> => p + Len(old) \in (p + 1)..L
    BY <1>1
  <2>4. ~(p > Len(s)) => p + 1 \in (p + 1)..L /\ <<s[p]>> \in Text
    BY <1>1 DEF Text
  <2> HIDE DEF here, head, count, make, found
  <2>5. CASE here /\ old # << >>
    <3>1. g[p + Len(old)][count] \in Text
      BY <1>2, <2>1, <2>3, <2>5
    <3> QED
      BY <2>2, <2>5, <3>1 DEF Text
  <2>6. CASE ~(here /\ old # << >>) /\ ~(p > Len(s))
    <3>1. g[p + 1][count] \in Text
      BY <1>2, <2>1, <2>4, <2>6
    <3>2. make(p, g)[done] = (head \o <<s[p]>>) \o g[p + 1][count]
      BY <2>2, <2>6
    <3> QED
      BY <2>1, <2>4, <2>6, <3>1, <3>2 DEF Text
  <2> QED
    BY <2>1, <2>2, <2>5, <2>6
<1> HIDE DEF make
<1>3. StaysWithinDown(G, V, 1, L)
  BY <1>2 DEF StaysWithinDown
<1>4. PICK f \in [1..L -> V] : MadeByDown(f, G, 1, L)
  <2> HIDE DEF G, V, L
  <2> QED
    BY <1>1, <1>3, DownRecursion
<1>5. ASSUME NEW p \in 1..L, NEW g, NEW h, \A k \in (p + 1)..L : g[k] = h[k]
      PROVE  make(p, g) = make(p, h)
  <2>1. old # << >> /\ found(p) => g[p + Len(old)] = h[p + Len(old)]
    BY <1>1, <1>5
  <2>2. ~(p > Len(s)) => g[p + 1] = h[p + 1]
    BY <1>1, <1>5
  <2> HIDE DEF found, L
  <2> QED
    BY <1>5, <2>1, <2>2 DEF make
<1>6. f = body(f)
  <2>1. ASSUME NEW p \in 1..L PROVE f[p] = make(p, f)
    <3> DEFINE g == [k \in (p + 1)..L |-> f[k]]
    <3>1. g \in [(p + 1)..L -> V]
      BY <1>4
    <3>2. f[p] = make(p, g)
      <4>1. f[p] = G[p][g]
        BY <1>4 DEF MadeByDown
      <4> QED
        BY <3>1, <4>1
    <3>3. \A k \in (p + 1)..L : g[k] = f[k]
      OBVIOUS
    <3> HIDE DEF g
    <3> QED
      BY <1>5, <3>2, <3>3
  <2> QED
    BY <1>4, <2>1
<1> DEFINE rest == CHOOSE h : h = body(h)
<1>7. rest = body(rest)
  BY <1>6
<1>8. Replace(s, old, new, n) = rest[1][0]
  BY DEF Replace, make
<1> HIDE DEF rest
<1>9. ASSUME NEW p \in 1..L PROVE rest[p] \in V
  <2> DEFINE T == {q \in 1..L : rest[q] \in V}
  <2>1. ASSUME NEW q \in 1..L, (q + 1)..L \subseteq T PROVE q \in T
    <3>1. rest[q] = make(q, rest)
      BY <1>7
    <3>2. \A k \in (q + 1)..L : rest[k] \in V
      BY <2>1
    <3>3. rest[q] \in V
      <4> HIDE DEF V, L
      <4> QED
        BY <1>2, <3>1, <3>2
    <3> QED
      BY <3>3
  <2>2. 1..L \subseteq T
    <3>1. 1 \in Int /\ L \in Int
      BY <1>1
    <3> HIDE DEF T, L
    <3> QED
      BY <2>1, <3>1, DownInduction
  <2> QED
    BY <2>2
<1> QED
  BY <1>1, <1>8, <1>9

\* The loop of pad ends; its result is a text that is not longer than needed, and
\* as long as needed when no character has two bytes.
LEMMA PaddingFits ==
    ASSUME NEW v \in Text, NEW p \in Text, p # << >>, NEW length \in Int, Len(v) < length
    PROVE  /\ Padding(v, length, p) \in Text
           /\ Len(Padding(v, length, p)) <= length - Len(v)
           /\ (ToSet(v) \cup ToSet(p)) \cap Wide = {} => Len(Padding(v, length, p)) = length - Len(v)
<1> DEFINE P == Len(p)
           more(b) == ByteLen(p) * b + ByteLen(v) < length /\ P * b + Len(v) < length
           make(b, g) == IF more(b) THEN p \o g[b + 1] ELSE << >>
           body(f) == [b \in 0..length |-> make(b, f)]
           G == [b \in 0..length |-> [g \in [(b + 1)..length -> Text] |-> make(b, g)]]
<1>1. P \in Nat /\ P >= 1 /\ Len(v) \in Nat /\ length > 0 /\ length \in Nat
  BY DEF Text
<1>2. ASSUME NEW b \in 0..length, more(b) PROVE b + 1 \in (b + 1)..length
  <2>1. P * b < length
    <3>1. P * b \in Int
      BY <1>1
    <3> HIDE DEF P
    <3> QED
      BY <1>1, <1>2, <3>1
  <2>2. P * b >= b
    <3>1. \A m \in Nat, n \in Nat : m >= 1 => m * n >= n
      OBVIOUS
    <3> HIDE DEF P
    <3> QED
      BY <1>1, <3>1
  <2>3. b \in Nat /\ b < length
    <3>1. P * b \in Int /\ b \in Nat
      BY <1>1
    <3> HIDE DEF P
    <3> QED
      BY <1>1, <2>1, <2>2, <3>1
  <2> QED
    BY <1>1, <2>3
<1> HIDE DEF more
<1>3. ASSUME NEW b \in 0..length, NEW g, \A k \in (b + 1)..length : g[k] \in Text
      PROVE  make(b, g) \in Text
  <2>1. CASE more(b)
    <3>1. g[b + 1] \in Text
      BY <1>2, <1>3, <2>1
    <3> QED
      BY <2>1, <3>1 DEF Text
  <2>2. CASE ~more(b)
    BY <2>2 DEF Text
  <2> QED
    BY <2>1, <2>2
<1>4. ASSUME NEW b \in 0..length, NEW g, NEW h, \A k \in (b + 1)..length : g[k] = h[k]
      PROVE  make(b, g) = make(b, h)
  BY <1>2, <1>4
<1> HIDE DEF make
<1>5. StaysWithinDown(G, Text, 0, length)
  BY <1>3 DEF StaysWithinDown
<1>6. PICK f \in [0..length -> Text] : MadeByDown(f, G, 0, length)
  <2>1. 0 \in Int
    OBVIOUS
  <2> HIDE DEF G
  <2> QED
    BY <2>1, <1>5, DownRecursion
<1>7. f = body(f)
  <2>1. ASSUME NEW b \in 0..length PROVE f[b] = make(b, f)
    <3> DEFINE g == [k \in (b + 1)..length |-> f[k]]
    <3>1. g \in [(b + 1)..length -> Text]
      BY <1>6
    <3>2. f[b] = make(b, g)
      <4>1. f[b] = G[b][g]
        BY <1>6 DEF MadeByDown
      <4> QED
        BY <3>1, <4>1
    <3>3. \A k \in (b + 1)..length : g[k] = f[k]
      OBVIOUS
    <3> HIDE DEF g
    <3> QED
      BY <1>4, <3>2, <3>3
  <2> QED
    BY <1>6, <2>1
<1> DEFINE build == CHOOSE h : h = body(h)
           needed == length - Len(v)
<1>8. build = body(build)
  BY <1>7
<1>9. Padding(v, length, p) = IF Len(build[0]) > needed THEN Slice(build[0], 0, needed) ELSE build[0]
  BY DEF Padding, make, more
<1> HIDE DEF build
<1>10. \A b \in 0..length : build[b] = make(b, build)
  BY <1>8
<1>11. \A b \in 0..length : build[b] \in Text
  <2> DEFINE T == {b \in 0..length : build[b] \in Text}
  <2>1. ASSUME NEW b \in 0..length, (b + 1)..length \subseteq T PROVE b \in T
    <3>1. \A k \in (b + 1)..length : build[k] \in Text
      BY <2>1
    <3>2. build[b] \in Text
      BY <1>3, <1>10, <3>1
    <3> QED
      BY <3>2
  <2>2. 0..length \subseteq T
    <3>1. 0 \in Int
      OBVIOUS
    <3> HIDE DEF T
    <3> QED
      BY <2>1, <3>1, DownInduction
  <2> QED
    BY <2>2
<1>12. build[0] \in Text /\ Len(build[0]) \in Nat /\ needed \in Nat
  BY <1>1, <1>11 DEF Text
<1>13. ASSUME (ToSet(v) \cup ToSet(p)) \cap Wide = {} PROVE Len(build[0]) >= needed
  <2>1. ByteLen(v) = Len(v) /\ ByteLen(p) = P
    <3>1. {n \in DOMAIN v : v[n] \in Wide} = {} /\ {n \in DOMAIN p : p[n] \in Wide} = {}
      BY <1>13 DEF ToSet
    <3> QED
      BY <1>1, <3>1, FS_EmptySet DEF ByteLen
  <2> DEFINE T == {b \in 0..length : P * b + Len(build[b]) >= needed}
  <2>2. ASSUME NEW b \in 0..length, (b + 1)..length \subseteq T PROVE P * b + Len(build[b]) >= needed
    <3>1. build[b] = make(b, build) /\ build[b] \in Text /\ Len(build[b]) \in Nat /\ b \in Nat
      BY <1>10, <1>11 DEF Text
    <3>2. CASE more(b)
      <4>1. b + 1 \in T /\ b + 1 \in 0..length
        BY <1>2, <2>2, <3>2
      <4>2. build[b] = p \o build[b + 1] /\ build[b + 1] \in Text
        BY <1>11, <3>1, <3>2, <4>1 DEF make
      <4>3. Len(build[b]) = P + Len(build[b + 1]) /\ Len(build[b + 1]) \in Nat
        BY <4>2 DEF Text
      <4>4. P * (b + 1) + Len(build[b + 1]) >= needed
        BY <4>1
      <4>5. P * (b + 1) = P * b + P /\ P * b \in Int
        BY <1>1, <3>1
      <4> HIDE DEF P, needed
      <4> QED
        BY <1>1, <1>12, <3>1, <4>3, <4>4, <4>5
    <3>3. CASE ~more(b)
      <4>1. P * b + Len(v) >= length /\ P * b \in Int
        <5>1. P * b \in Int
          BY <1>1, <3>1
        <5> QED
          BY <1>1, <2>1, <3>3, <5>1 DEF more
      <4> HIDE DEF P
      <4> QED
        BY <1>1, <3>1, <4>1
    <3> QED
      BY <3>2, <3>3
  <2>3. 0..length \subseteq T
    <3>1. 0 \in Int
      OBVIOUS
    <3>2. \A b \in 0..length : (b + 1)..length \subseteq T => b \in T
      BY <2>2
    <3> HIDE DEF T
    <3> QED
      BY <3>1, <3>2, DownInduction
  <2>4. P * 0 + Len(build[0]) >= needed
    BY <1>1, <2>3
  <2>5. P * 0 = 0
    BY <1>1
  <2> HIDE DEF P, needed
  <2> QED
    BY <1>12, <2>4, <2>5
<1>14. CASE Len(build[0]) > needed
  <2>1. Slice(build[0], 0, needed) \in Text /\ Len(Slice(build[0], 0, needed)) = needed - 0
    BY <1>12, <1>14, SliceType, SMTT(30)
  <2> QED
    BY <1>9, <1>12, <1>14, <2>1
<1>15. CASE Len(build[0]) <= needed
  BY <1>9, <1>12, <1>13, <1>15
<1> QED
  BY <1>12, <1>14, <1>15

\* pad makes a text, or refuses an empty pad.
LEMMA PadType ==
    ASSUME NEW v \in Text, NEW p \in Text, NEW length \in Int, NEW left \in BOOLEAN
    PROVE  pad(v, length, p, left) \in Text \cup {None}
<1>1. CASE p = << >>
  BY <1>1 DEF pad
<1>2. CASE p # << >> /\ Len(v) >= length
  BY <1>2 DEF pad
<1>3. CASE p # << >> /\ Len(v) < length
  <2>1. Padding(v, length, p) \in Text
    BY <1>3, PaddingFits
  <2> QED
    BY <1>3, <2>1, ConcatType DEF pad
<1> QED
  <2>1. Len(v) \in Nat
    BY DEF Text
  <2> QED
    BY <1>1, <1>2, <1>3, <2>1

\* What is cut out and put in stays within the value.
LEMMA CutType ==
    ASSUME NEW v \in Text, NEW n \in Int, NEW m \in Int, NEW text \in Text
    PROVE  /\ deleteRange(v, n, m) \in Text \cup {None}
           /\ insertAt(v, n, text) \in Text \cup {None}
           /\ InRange(n, m, v) => Slice(v, n, m) \in Text
<1>1. Len(v) \in Nat
  BY DEF Text
<1>2. deleteRange(v, n, m) \in Text \cup {None}
  <2>1. CASE InRange(n, m, v)
    <3>1. Slice(v, 0, n) \in Text /\ Slice(v, m, Len(v)) \in Text
      BY <1>1, <2>1, SliceType DEF InRange
    <3> QED
      BY <2>1, <3>1, ConcatType DEF deleteRange
  <2> QED
    BY <2>1 DEF deleteRange
<1>3. insertAt(v, n, text) \in Text \cup {None}
  <2>1. CASE n >= 0 /\ n <= Len(v)
    <3>1. Slice(v, 0, n) \in Text /\ Slice(v, n, Len(v)) \in Text
      BY <1>1, <2>1, SliceType
    <3>2. Concat(Concat(Slice(v, 0, n), text), Slice(v, n, Len(v))) \in Text
      BY <3>1, ConcatType
    <3> QED
      BY <1>1, <2>1, <3>2 DEF insertAt
  <2> QED
    BY <1>1, <2>1 DEF insertAt
<1>4. InRange(n, m, v) => Slice(v, n, m) \in Text
  BY <1>1, SliceType DEF InRange
<1> QED
  BY <1>2, <1>3, <1>4

\* An argument as FromJSON makes it.
IsArg(a) == /\ a.S = None \/ a.S \in Text
            /\ a.I = None \/ a.I \in Int
            /\ a.M = None \/ \A t \in DOMAIN a.M : a.M[t] \in Text

IsArgs(a) == Len(a) \in Nat /\ \A k \in 1..Len(a) : IsArg(a[k])

Arity(name) == registry[name].MinArgs..registry[name].MaxArgs

\* What is assumed of the regular expressions of Go, for every text: replacing
\* makes a text, or the pattern does not compile.
ReplaceAllMakesText == \A p, r, v \in Text : ReplaceAllString(p, r, v) \in Text \cup {None}

\* Every operation, given the number of arguments it is registered with, makes a
\* text or fails: whatever the arguments hold, it does not panic.
LEMMA FnType ==
    ASSUME ReplaceAllMakesText,
           NEW name \in DOMAIN registry, NEW v \in Text,
           NEW a, IsArgs(a), Len(a) \in Arity(name)
    PROVE  Fn(name, v, a) \in Text \cup {None}
<1> DEFINE s(k) == argString(a, k)
           n(k) == argInt(a, k)
           Lacks == \/ \E k \in StringArgs(name) : s(k) = None
                    \/ \E k \in IntArgs(name) : n(k) = None
<1>1. \A k \in {1, 2, 3} : /\ s(k) # None => s(k) \in Text
                           /\ n(k) # None => n(k) \in Int
  BY DEF argString, argInt, IsArgs, IsArg
<1>2. CASE Lacks
  BY <1>2 DEF Fn
<1> SUFFICES ASSUME ~Lacks PROVE Fn(name, v, a) \in Text \cup {None}
  BY <1>2
<1>3. /\ \A k \in StringArgs(name) : s(k) # None
      /\ \A k \in IntArgs(name) : n(k) # None
  OBVIOUS
<1>4. /\ \A k \in StringArgs(name) : s(k) \in Text
      /\ \A k \in IntArgs(name) : n(k) \in Int
  <2>1. StringArgs(name) \subseteq {1, 2, 3} /\ IntArgs(name) \subseteq {1, 2, 3}
    BY DEF StringArgs, IntArgs
  <2> QED
    BY <1>1, <1>3, <2>1
<1>5. << >> \in Text /\ -1 \in Int
  BY DEF Text
<1>6. CASE name = "trim"
  <2>1. Fn(name, v, a) = TrimRight(TrimLeft(v, Space), Space)
    BY <1>6 DEF Fn
  <2> HIDE DEF s, n
  <2> QED
    BY <1>5, <2>1, TrimType
<1>7. CASE name = "trimLeft"
  <2>1. s(1) \in Text
    BY <1>4, <1>7 DEF StringArgs, IntArgs
  <2>2. Fn(name, v, a) = TrimLeft(v, ToSet(s(1)))
    BY <1>7 DEF Fn
  <2> HIDE DEF s, n
  <2> QED
    BY <1>5, <2>1, <2>2, TrimType
<1>8. CASE name = "trimRight"
  <2>1. s(1) \in Text
    BY <1>4, <1>8 DEF StringArgs, IntArgs
  <2>2. Fn(name, v, a) = TrimRight(v, ToSet(s(1)))
    BY <1>8 DEF Fn
  <2> HIDE DEF s, n
  <2> QED
    BY <1>5, <2>1, <2>2, TrimType
<1>9. CASE name = "upper"
  <2>1. Fn(name, v, a) = [k \in DOMAIN v |-> ToUpper(v[k])]
    BY <1>9 DEF Fn
  <2> QED
    BY <2>1, DslAssumption DEF Text
<1>10. CASE name = "lower"
  <2>1. Fn(name, v, a) = [k \in DOMAIN v |-> ToLower(v[k])]
    BY <1>10 DEF Fn
  <2> QED
    BY <2>1, DslAssumption DEF Text
<1>11. CASE name = "replace"
  <2>1. s(1) \in Text /\ s(2) \in Text
    BY <1>4, <1>11 DEF StringArgs, IntArgs
  <2>2. Fn(name, v, a) = Replace(v, s(1), s(2), -1)
    BY <1>11 DEF Fn
  <2> HIDE DEF s, n
  <2> QED
    BY <1>5, <2>1, <2>2, ReplaceType
<1>12. CASE name = "replaceN"
  <2>1. s(1) \in Text /\ s(2) \in Text /\ n(3) \in Int
    BY <1>4, <1>12 DEF StringArgs, IntArgs
  <2>2. Fn(name, v, a) = Replace(v, s(1), s(2), n(3))
    BY <1>12 DEF Fn
  <2> HIDE DEF s, n
  <2> QED
    BY <1>5, <2>1, <2>2, ReplaceType
<1>13. CASE name = "replaceRegex"
  <2>1. s(1) \in Text /\ s(2) \in Text
    BY <1>4, <1>13 DEF StringArgs, IntArgs
  <2>2. Fn(name, v, a) = ReplaceAllString(s(1), s(2), v)
    BY <1>13 DEF Fn
  <2> QED
    BY <2>1, <2>2 DEF ReplaceAllMakesText
<1>14. CASE name = "deleteSubstring"
  <2>1. s(1) \in Text
    BY <1>4, <1>14 DEF StringArgs, IntArgs
  <2>2. Fn(name, v, a) = Replace(v, s(1), << >>, -1)
    BY <1>14 DEF Fn
  <2> HIDE DEF s, n
  <2> QED
    BY <1>5, <2>1, <2>2, ReplaceType
<1>15. CASE name = "deleteRange"
  <2>1. n(1) \in Int /\ n(2) \in Int
    BY <1>4, <1>15 DEF StringArgs, IntArgs
  <2>2. Fn(name, v, a) = deleteRange(v, n(1), n(2))
    BY <1>15 DEF Fn
  <2> HIDE DEF s, n
  <2> QED
    BY <1>5, <2>1, <2>2, CutType
<1>16. CASE name = "insertAt"
  <2>1. s(2) \in Text /\ n(1) \in Int
    BY <1>4, <1>16 DEF StringArgs, IntArgs
  <2>2. Fn(name, v, a) = insertAt(v, n(1), s(2))
    BY <1>16 DEF Fn
  <2> HIDE DEF s, n
  <2> QED
    BY <1>5, <2>1, <2>2, CutType
<1>17. CASE name = "slice"
  <2>1. n(1) \in Int /\ n(2) \in Int
    BY <1>4, <1>17 DEF StringArgs, IntArgs
  <2>2. Fn(name, v, a) = (IF InRange(n(1), n(2), v) THEN Slice(v, n(1), n(2)) ELSE None)
    BY <1>17 DEF Fn
  <2> HIDE DEF s, n
  <2> QED
    BY <1>5, <2>1, <2>2, CutType
<1>18. CASE name = "prefix"
  <2>1. s(1) \in Text
    BY <1>4, <1>18 DEF StringArgs, IntArgs
  <2>2. Fn(name, v, a) = s(1) \o v
    BY <1>18 DEF Fn
  <2> QED
    BY <2>1, <2>2 DEF Text
<1>19. CASE name = "suffix"
  <2>1. s(1) \in Text
    BY <1>4, <1>19 DEF StringArgs, IntArgs
  <2>2. Fn(name, v, a) = v \o s(1)
    BY <1>19 DEF Fn
  <2> QED
    BY <2>1, <2>2 DEF Text
<1>20. CASE name = "padLeft"
  <2>1. s(2) \in Text /\ n(1) \in Int
    BY <1>4, <1>20 DEF StringArgs, IntArgs
  <2>2. Fn(name, v, a) = pad(v, n(1), s(2), TRUE)
    BY <1>20 DEF Fn
  <2> HIDE DEF s, n
  <2> QED
    BY <1>5, <2>1, <2>2, PadType
<1>21. CASE name = "padRight"
  <2>1. s(2) \in Text /\ n(1) \in Int
    BY <1>4, <1>21 DEF StringArgs, IntArgs
  <2>2. Fn(name, v, a) = pad(v, n(1), s(2), FALSE)
    BY <1>21 DEF Fn
  <2> HIDE DEF s, n
  <2> QED
    BY <1>5, <2>1, <2>2, PadType
<1>22. CASE name = "default"
  <2>1. Fn(name, v, a) = (IF v # << >> THEN v ELSE s(1))
    BY <1>22 DEF Fn
  <2> QED
    BY <1>1, <2>1
<1>23. CASE name = "mapValues"
  <2>1. Fn(name, v, a) = mapValues(v, a)
    BY <1>23 DEF Fn
  <2>2. Len(a) \in 1..2
    BY <1>23 DEF Arity, registry, OpSpec
  <2>3. IsArg(a[1]) /\ (Len(a) = 2 => s(2) \in Text \cup {None})
    BY <1>1, <2>2 DEF IsArgs
  <2> QED
    BY <2>1, <2>2, <2>3 DEF mapValues, IsArg
<1>24. name \in {"trim", "trimLeft", "trimRight", "upper", "lower", "replace", "replaceN", "replaceRegex", "deleteSubstring",
            "deleteRange", "insertAt", "slice", "prefix", "suffix", "padLeft", "padRight", "default", "mapValues"}
  BY DEF registry
<1> QED
  BY <1>6, <1>7, <1>8, <1>9, <1>10, <1>11, <1>12, <1>13, <1>14, <1>15,
     <1>16, <1>17, <1>18, <1>19, <1>20, <1>21, <1>22, <1>23, <1>24
\* Apply is what its recursive definition says, read step by step, as long as
\* each operation makes a text or fails.
LEMMA ApplySteps ==
    ASSUME NEW p, Len(p) \in Nat, NEW input \in Text,
           \A k \in 1..Len(p) : \A v \in Text :
              p[k].Name \in DOMAIN registry /\ Len(p[k].Args) \in Arity(p[k].Name)
                => Fn(p[k].Name, v, p[k].Args) \in Text \cup {None}
    PROVE  \E value \in [0..Len(p) -> Text \cup {None}] :
             /\ Apply(p, input) = value[Len(p)]
             /\ value[0] = input
             /\ \A k \in 1..Len(p) :
                  value[k] = IF value[k - 1] \in {None, Panic} THEN value[k - 1]
                             ELSE IF /\ p[k].Name \in DOMAIN registry
                                     /\ Len(p[k].Args) \in Arity(p[k].Name)
                             THEN Fn(p[k].Name, value[k - 1], p[k].Args)
                             ELSE None
<1> DEFINE N == Len(p)
           V == Text \cup {None}
           Runs(k) == /\ p[k].Name \in DOMAIN registry
                      /\ Len(p[k].Args) \in registry[p[k].Name].MinArgs..registry[p[k].Name].MaxArgs
           make(k, g) == IF k = 0 THEN input
                         ELSE IF g[k - 1] \in {None, Panic} THEN g[k - 1]
                         ELSE IF Runs(k) THEN Fn(p[k].Name, g[k - 1], p[k].Args)
                         ELSE None
           body(f) == [k \in 0..N |-> make(k, f)]
           G == [k \in 0..N |-> [g \in [0..(k - 1) -> V] |-> make(k, g)]]
<1>1. N \in Nat
  OBVIOUS
<1>2. ASSUME NEW k \in 0..N, NEW g, \A j \in 0..(k - 1) : g[j] \in V PROVE make(k, g) \in V
  <2>1. CASE k = 0
    BY <2>1
  <2>2. CASE k # 0
    <3>1. k - 1 \in 0..(k - 1) /\ k \in 1..N
      BY <2>2
    <3>2. g[k - 1] \in V
      BY <1>2, <3>1
    <3>3. Runs(k) /\ g[k - 1] \in Text => Fn(p[k].Name, g[k - 1], p[k].Args) \in V
      BY <3>1 DEF Arity
    <3> HIDE DEF Runs
    <3> QED
      BY <2>2, <3>2, <3>3
  <2> QED
    BY <2>1, <2>2
<1> HIDE DEF Runs
<1>3. PICK f \in [0..N -> V] : MadeBy(f, G, N)
  <2>1. StaysWithin(G, V, N)
    <3> SUFFICES ASSUME NEW k \in 0..N, NEW g \in [0..(k - 1) -> V] PROVE G[k][g] \in V
      BY DEF StaysWithin
    <3>1. G[k][g] = make(k, g)
      OBVIOUS
    <3> HIDE DEF make, G, V
    <3> QED
      BY <1>2, <3>1
  <2> HIDE DEF G, V, N
  <2> QED
    BY <1>1, <2>1, Recursion
<1>4. ASSUME NEW k \in 0..N PROVE f[k] = make(k, f)
  <2> DEFINE g == [j \in 0..(k - 1) |-> f[j]]
  <2>1. g \in [0..(k - 1) -> V]
    BY <1>3
  <2>2. f[k] = make(k, g)
    <3> HIDE DEF make, V
    <3> QED
      BY <1>3, <2>1 DEF MadeBy
  <2>3. k # 0 => g[k - 1] = f[k - 1]
    OBVIOUS
  <2> HIDE DEF g
  <2> QED
    BY <2>2, <2>3
<1>5. f = body(f)
  <2> HIDE DEF make
  <2> QED
    BY <1>3, <1>4
<1> DEFINE value == CHOOSE h : h = body(h)
<1>6. value = body(value)
  BY <1>5
<1>7. Apply(p, input) = value[N]
  BY DEF Apply, Runs
<1> HIDE DEF value
<1>8. \A k \in 0..N : value[k] = make(k, value)
  <2> HIDE DEF make
  <2> QED
    BY <1>6
<1>9. \A k \in 0..N : value[k] \in V
  <2> DEFINE T == {k \in 0..N : value[k] \in V}
  <2>1. ASSUME NEW k \in 0..N, 0..(k - 1) \subseteq T PROVE k \in T
    <3>1. \A j \in 0..(k - 1) : value[j] \in V
      BY <2>1
    <3>2. value[k] \in V
      <4> HIDE DEF make, V
      <4> QED
        BY <1>2, <1>8, <3>1
    <3> QED
      BY <3>2
  <2>2. 0..N \subseteq T
    <3> HIDE DEF T
    <3> QED
      BY <1>1, <2>1, IntervalInduction
  <2> QED
    BY <2>2
<1>10. value \in [0..N -> V]
  <2> HIDE DEF make, V
  <2> QED
    BY <1>6, <1>9
<1>11. value[0] = input
  BY <1>1, <1>8
<1>12. \A k \in 1..N : k \in 0..N /\ k # 0
  OBVIOUS
<1>13. \A k \in 1..N : value[k] = make(k, value)
  BY <1>8, <1>12
<1> QED
  BY <1>7, <1>10, <1>11, <1>12, <1>13 DEF Runs, Arity

\* A pipeline as FromJSON makes it.
IsPipeline(p) == Len(p) \in Nat /\ \A k \in 1..Len(p) : IsArgs(p[k].Args)

\* The pipelines of a JSON document have arguments that are typed.
LEMMA FromJSONType ==
    ASSUME NEW ops, IsJson(ops), FromJSON(ops) # None
    PROVE  IsPipeline(FromJSON(ops))
<1>1. /\ \A k \in DOMAIN ops : FineObject(ops[k])
      /\ FromJSON(ops) = [k \in DOMAIN ops |-> [Name |-> ops[k].op, Args |-> GivenArgs(ops[k])]]
  BY FromJSONParts
<1>2. Len(ops) \in Nat /\ DOMAIN ops = 1..Len(ops)
  BY DEF IsJson
<1>3. ASSUME NEW k \in 1..Len(ops) PROVE IsArgs(GivenArgs(ops[k]))
  <2> DEFINE jo == ops[k]
             names == registry[jo.op].ArgNames
  <2>1. FineObject(jo) /\ jo.op \in DOMAIN registry
    BY <1>1, <1>2 DEF FineObject
  <2>2. /\ Len(names) \in Nat /\ Given(jo) \in 0..Len(names)
        /\ \A n \in 1..Given(jo) : names[n] \in DOMAIN jo.args
    BY <2>1, GivenIsPrefix, ArgNamesDistinct
  <2>3. ASSUME NEW n \in 1..Given(jo) PROVE IsArg(GivenArgs(jo)[n])
    <3> DEFINE v == jo.args[names[n]]
    <3>1. /\ v.s = None \/ v.s \in Text
          /\ v.i = None \/ v.i \in Int
          /\ v.m = None \/ \A t \in DOMAIN v.m : v.m[t] \in Text
      BY <1>2, <2>2 DEF IsJson, Text
    <3>2. GivenArgs(jo)[n] = unmarshalArg(v) /\ unmarshalArg(v) # None
      BY <2>1 DEF GivenArgs, FineObject
    <3> HIDE DEF v
    <3> QED
      BY <3>1, <3>2 DEF unmarshalArg, IsArg, Arg
  <2>4. Len(GivenArgs(jo)) = Given(jo) /\ Given(jo) \in Nat
    BY <2>2 DEF GivenArgs
  <2> QED
    BY <2>3, <2>4 DEF IsArgs
<1>4. Len(FromJSON(ops)) = Len(ops)
  BY <1>1, <1>2
<1>5. \A k \in 1..Len(ops) : FromJSON(ops)[k].Args = GivenArgs(ops[k])
  BY <1>1, <1>2
<1> QED
  BY <1>2, <1>3, <1>4, <1>5 DEF IsPipeline

\* The pipelines of the rules that are evaluated.
LEMMA EvaluatedPipelines ==
    ASSUME NEW r \in Evaluated, NEW g \in DOMAIN r.transforms
    PROVE  IsPipeline(r.transforms[g])
<1>1. PICK v \in Valid : r = v \/ r = [v EXCEPT !.enabled = TRUE]
  BY DEF Evaluated
<1>2. v \in Sent
  BY <1>1 DEF Valid
<1>3. r.transforms = v.transforms
  BY <1>1, <1>2, RuleRoundTrip
<1>4. PICK b \in Bodies \cup TestBodies : v = Decode(b) /\ Sound(Decode(b))
  BY <1>2 DEF Sent
<1> DEFINE t == [h \in DOMAIN b.transforms |-> FromJSON(b.transforms[h])]
<1>5. v.transforms = t
  <2>1. b = [enabled |-> b.enabled, pattern |-> b.pattern,
             transforms |-> b.transforms, template |-> b.template]
    BY RuleEngineAssumption
  <2> QED
    BY <1>4, <2>1 DEF Decode
<1>6. g \in DOMAIN b.transforms /\ r.transforms[g] = FromJSON(b.transforms[g])
  BY <1>3, <1>5
<1>7. r.transforms[g] # None
  BY <1>3, <1>4 DEF Sound
<1>8. IsJson(b.transforms[g])
  BY <1>6, RuleEngineAssumption
<1> QED
  BY <1>6, <1>7, <1>8, FromJSONType

\* The captures of the rule at the position of the loop are texts.
LEMMA CapturedTexts ==
    ASSUME IndInv, pc \in {"evaluate", "return"}, i <= Len(rules), Matches(rules[i])
    PROVE  /\ rules[i] \in Evaluated
           /\ Captures(rules[i]) = MatchOf[rules[i].pattern][host]
           /\ Captures(rules[i]) \in [GroupsOf[rules[i].pattern] -> Text]
<1>1. rules \in Seq(Evaluated) /\ i \in 1..Len(rules) /\ host \in Hosts
  BY DEF IndInv, LoopInv
<1>2. rules[i] \in Evaluated
  BY <1>1
<1>3. rules[i].pattern \in DOMAIN GroupsOf /\ GroupsOf[rules[i].pattern] # None
  BY <1>2, EvaluatedRules
<1>4. Captures(rules[i]) = MatchOf[rules[i].pattern][host] /\ Captures(rules[i]) # None
  BY <1>3 DEF Captures, Matches
<1> QED
  BY <1>1, <1>2, <1>3, <1>4, RuleEngineAssumption DEF Text

\* No pipeline slices out of bounds, whatever integers its arguments are and
\* whatever the host name is: evaluating a rule never ends the process.
THEOREM NeverPanicsHolds == ReplaceAllMakesText => (Spec => []NeverPanics)
<1> SUFFICES ASSUME ReplaceAllMakesText PROVE Spec => []NeverPanics
  OBVIOUS
<1>1. Init => NeverPanics
  BY DEF Init, NeverPanics
<1>2. IndInv /\ NeverPanics /\ [Next]_vars => NeverPanics'
  <2> SUFFICES ASSUME IndInv, NeverPanics, [Next]_vars, pc' = "panic" PROVE FALSE
    BY DEF NeverPanics
  <2>1. /\ evaluateMatch /\ pc = "evaluate" /\ i <= Len(rules) /\ Matches(rules[i])
        /\ Ends(rules[i], Captures(rules[i]), Panic) # {}
    BY DEF NeverPanics, Next, vars, Receive, Refuse, Create, Update, Test, Assign, Call, Answered,
           Skip, evaluateMatch, Unmatched, Return
  <2> DEFINE r == rules[i]
             raw == Captures(r)
  <2>2. r \in Evaluated /\ raw \in [GroupsOf[r.pattern] -> Text]
    BY <2>1, CapturedTexts
  <2>3. PICK g \in DOMAIN raw \cap DOMAIN r.transforms : Apply(r.transforms[g], raw[g]) = Panic
    BY <2>1 DEF Ends
  <2> DEFINE p == r.transforms[g]
  <2>4. IsPipeline(p) /\ raw[g] \in Text
    BY <2>2, <2>3, EvaluatedPipelines
  <2> HIDE DEF p, r, raw
  <2>5. \A k \in 1..Len(p) : \A v \in Text :
          p[k].Name \in DOMAIN registry /\ Len(p[k].Args) \in Arity(p[k].Name)
            => Fn(p[k].Name, v, p[k].Args) \in Text \cup {None}
    BY <2>4, FnType DEF IsPipeline
  <2>6. Apply(p, raw[g]) \in Text \cup {None}
    BY <2>4, <2>5, ApplySteps DEF IsPipeline
  <2> QED
    BY <2>3, <2>6, DslAssumption DEF p, Text
<1> QED
  BY <1>1, <1>2, IndInvHolds, PTL DEF Spec
-----------------------------------------------------------------------------
(* The pads. *)

\* A value is the prefix of what is appended to it, and the suffix of what is
\* put before it.
LEMMA Sides ==
    ASSUME NEW v \in Text, NEW w \in Text
    PROVE  /\ v \o w \in Text /\ Len(v \o w) = Len(v) + Len(w)
           /\ IsPrefix(v, v \o w) /\ IsSuffix(v, w \o v)
<1>1. /\ Len(v) \in Nat /\ Len(w) \in Nat
      /\ v \o w \in Text /\ Len(v \o w) = Len(v) + Len(w) /\ Len(w \o v) = Len(w) + Len(v)
  BY DEF Text
<1>2. IsPrefix(v, v \o w)
  <2>1. SubSeq(v, 1, Len(v)) = SubSeq(v \o w, 1, Len(v))
    BY <1>1 DEF Text
  <2> QED
    BY <1>1, <2>1 DEF IsPrefix
<1>3. IsSuffix(v, w \o v)
  <2> DEFINE a == Reverse(v)
             b == Reverse(w \o v)
  <2>1. a \in Text /\ Len(a) = Len(v)
    BY <1>1 DEF Reverse, Text
  <2>2. b \in Text /\ Len(b) = Len(w) + Len(v)
    BY <1>1 DEF Reverse, Text
  <2>3. ASSUME NEW k \in 1..Len(v) PROVE a[k] = b[k]
    <3>1. a[k] = v[(Len(v) - k) + 1] /\ b[k] = (w \o v)[(Len(w \o v) - k) + 1]
      BY <1>1 DEF Reverse
    <3>2. (Len(w \o v) - k) + 1 = Len(w) + ((Len(v) - k) + 1) /\ (Len(v) - k) + 1 \in 1..Len(v)
      BY <1>1
    <3>3. \A n \in 1..Len(v) : (w \o v)[Len(w) + n] = v[n]
      BY <1>1 DEF Text
    <3> QED
      BY <3>1, <3>2, <3>3
  <2> HIDE DEF a, b
  <2>4. SubSeq(a, 1, Len(a)) = SubSeq(b, 1, Len(a))
    BY <1>1, <2>1, <2>2, <2>3 DEF Text
  <2> QED
    BY <1>1, <2>1, <2>2, <2>4 DEF IsSuffix, IsPrefix, a, b
<1> QED
  BY <1>1, <1>2, <1>3

\* What pad makes of a value: at its side, not longer than asked for, and as long
\* when all characters have one byte.
LEMMA PadResult ==
    ASSUME NEW v \in Text, NEW p \in Text, NEW length \in Int, NEW left \in BOOLEAN, NEW padded,
           padded = pad(v, length, p, left), padded # None
    PROVE  LET goal == IF Len(v) >= length THEN Len(v) ELSE length
           IN  /\ IF left THEN IsSuffix(v, padded) ELSE IsPrefix(v, padded)
               /\ Len(padded) <= goal
               /\ (ToSet(v) \cup ToSet(p)) \cap Wide = {} => Len(padded) = goal
<1>1. p # << >> /\ Len(v) \in Nat
  BY DEF pad, Text
<1>2. CASE Len(v) >= length
  <2>1. padded = v
    BY <1>1, <1>2 DEF pad
  <2>2. << >> \in Text /\ v \o << >> = v /\ << >> \o v = v
    BY DEF Text
  <2>3. IsPrefix(v, v) /\ IsSuffix(v, v)
    BY <2>2, Sides
  <2> QED
    BY <1>1, <1>2, <2>1, <2>3
<1>3. CASE Len(v) < length
  <2> DEFINE w == Padding(v, length, p)
  <2>1. /\ w \in Text /\ Len(w) <= length - Len(v)
        /\ (ToSet(v) \cup ToSet(p)) \cap Wide = {} => Len(w) = length - Len(v)
    BY <1>1, <1>3, PaddingFits
  <2>2. padded = IF left THEN w \o v ELSE v \o w
    <3>1. padded = IF left THEN Concat(w, v) ELSE Concat(v, w)
      BY <1>1, <1>3 DEF pad
    <3> HIDE DEF w
    <3>2. Concat(w, v) = w \o v /\ Concat(v, w) = v \o w
      BY <2>1, ConcatType
    <3> QED
      BY <3>1, <3>2
  <2> HIDE DEF w
  <2>3. /\ IF left THEN IsSuffix(v, padded) ELSE IsPrefix(v, padded)
        /\ Len(padded) = Len(v) + Len(w)
    <3>1. /\ Len(v \o w) = Len(v) + Len(w) /\ IsPrefix(v, v \o w)
          /\ IsSuffix(v, w \o v) /\ Len(w \o v) = Len(w) + Len(v)
      BY <2>1, Sides
    <3>2. Len(v) \in Nat /\ Len(w) \in Nat
      BY <2>1 DEF Text
    <3> QED
      BY <2>2, <3>1, <3>2
  <2>4. Len(w) \in Nat
    BY <2>1 DEF Text
  <2> QED
    BY <1>1, <1>3, <2>1, <2>3, <2>4
<1> QED
  BY <1>1, <1>2, <1>3

\* A pipeline that is a pad alone.
LEMMA PadAlone ==
    ASSUME NEW p, IsPipeline(p), Len(p) = 1, p[1].Name \in {"padLeft", "padRight"},
           NEW v \in Text, Apply(p, v) # None
    PROVE  /\ p[1].Args[1].I \in Int /\ p[1].Args[2].S \in Text
           /\ Apply(p, v) = pad(v, p[1].Args[1].I, p[1].Args[2].S, p[1].Name = "padLeft")
<1> DEFINE name == p[1].Name
           a == p[1].Args
           runs == name \in DOMAIN registry /\ Len(a) \in Arity(name)
<1>1. IsArgs(a) /\ name \in DOMAIN registry /\ Arity(name) = 2..2
  BY DEF IsPipeline, registry, Arity, OpSpec
<1>2. ASSUME Len(a) \in Arity(name)
      PROVE  /\ argInt(a, 1) = a[1].I /\ argString(a, 2) = a[2].S
             /\ a[1].I = None \/ a[1].I \in Int
             /\ a[2].S = None \/ a[2].S \in Text
  BY <1>1, <1>2 DEF IsArgs, IsArg, argInt, argString
<1>3. ASSUME NEW u \in Text, Len(a) \in Arity(name)
      PROVE  Fn(name, u, a) = IF a[2].S = None \/ a[1].I = None THEN None
                              ELSE pad(u, a[1].I, a[2].S, name = "padLeft")
  <2>1. StringArgs(name) = {2} /\ IntArgs(name) = {1}
    BY DEF StringArgs, IntArgs
  <2>2. CASE a[2].S = None \/ a[1].I = None
    BY <1>2, <1>3, <2>1, <2>2 DEF Fn
  <2>3. CASE a[2].S # None /\ a[1].I # None
    <3>1. CASE name = "padLeft"
      BY <1>2, <1>3, <2>1, <2>3, <3>1 DEF Fn
    <3>2. CASE name = "padRight"
      BY <1>2, <1>3, <2>1, <2>3, <3>2 DEF Fn
    <3> QED
      BY <2>3, <3>1, <3>2
  <2> QED
    BY <2>2, <2>3
<1>4. ASSUME NEW u \in Text, Len(a) \in Arity(name) PROVE Fn(name, u, a) \in Text \cup {None}
  <2> DEFINE left == name = "padLeft"
  <2>1. left \in BOOLEAN
    OBVIOUS
  <2>2. Fn(name, u, a) = IF a[2].S = None \/ a[1].I = None THEN None
                         ELSE pad(u, a[1].I, a[2].S, left)
    BY <1>3, <1>4
  <2> HIDE DEF name, a, left
  <2>3. a[2].S # None /\ a[1].I # None => pad(u, a[1].I, a[2].S, left) \in Text \cup {None}
    BY <1>2, <1>4, <2>1, PadType
  <2> QED
    BY <2>2, <2>3
<1>5. PICK value \in [0..Len(p) -> Text \cup {None}] :
        /\ Apply(p, v) = value[Len(p)]
        /\ value[0] = v
        /\ \A k \in 1..Len(p) :
             value[k] = IF value[k - 1] \in {None, Panic} THEN value[k - 1]
                        ELSE IF p[k].Name \in DOMAIN registry /\ Len(p[k].Args) \in Arity(p[k].Name)
                        THEN Fn(p[k].Name, value[k - 1], p[k].Args)
                        ELSE None
  BY <1>4, ApplySteps
<1>6. value[1] = IF v \in {None, Panic} THEN v ELSE IF runs THEN Fn(name, v, a) ELSE None
  <2>1. 1 \in 1..Len(p) /\ 1 - 1 = 0
    OBVIOUS
  <2> QED
    BY <1>5, <2>1
<1>7. v # Panic /\ Apply(p, v) = value[1]
  BY <1>5, DslAssumption DEF Text
<1>8. runs /\ Apply(p, v) = Fn(name, v, a)
  BY <1>6, <1>7
<1> QED
  BY <1>2, <1>3, <1>8

\* What a test of a rule shows of a pad is what was asked for, for every value,
\* pad and length.
THEOREM PadFitsHolds == Spec => []PadFits
<1>1. IndInv => PadFits
  <2> DEFINE fits(g) ==
               LET a      == req.transforms[g][1].Args
                   raw    == MatchOf[req.pattern][host][g]
                   padded == result.values[g]
                   goal   == IF Len(raw) >= a[1].I THEN Len(raw) ELSE a[1].I
               IN  /\ IF req.transforms[g][1].Name = "padLeft" THEN IsSuffix(raw, padded)
                                                              ELSE IsPrefix(raw, padded)
                   /\ Len(padded) <= goal
                   /\ (ToSet(raw) \cup ToSet(a[2].S)) \cap Wide = {} => Len(padded) = goal
  <2> SUFFICES ASSUME IndInv, pc = "return", op = "test", result.rule # 0, NEW g \in Pads
               PROVE  fits(g)
    BY DEF PadFits
  <2> DEFINE r == rules[i]
             raws == Captures(r)
             p == r.transforms[g]
  <2>1. i <= Len(rules) /\ Matches(r) /\ result = MatchResult(i, r, raws)
    BY DEF IndInv, ResultInv, NoResult
  <2>2. /\ r \in Evaluated /\ raws = MatchOf[r.pattern][host]
        /\ raws \in [GroupsOf[r.pattern] -> Text]
    BY <2>1, CapturedTexts
  <2>3. r.transforms = req.transforms /\ r.pattern = req.pattern
    <3>1. req \in Valid /\ rules = <<[req EXCEPT !.enabled = TRUE]>> /\ i \in 1..Len(rules)
      BY <2>1 DEF IndInv, LoopInv
    <3>2. i = 1 /\ rules[1] = [req EXCEPT !.enabled = TRUE] /\ req \in Sent
      <4>1. Len(rules) = 1 /\ rules[1] = [req EXCEPT !.enabled = TRUE]
        BY <3>1
      <4>2. req \in Sent
        BY <3>1 DEF Valid
      <4> QED
        BY <3>1, <4>1, <4>2
    <3> QED
      BY <3>2, RuleRoundTrip
  <2> HIDE DEF r, raws
  <2>4. /\ g \in DOMAIN r.transforms /\ Len(p) = 1
        /\ p[1].Name \in {"padLeft", "padRight"} /\ g \notin result.warnings
    BY <2>3 DEF Pads
  <2>5. g \in GroupsOf[r.pattern] /\ raws[g] \in Text /\ g \in DOMAIN raws /\ IsPipeline(p)
    BY <2>2, <2>4, EvaluatedRules, EvaluatedPipelines
  <2>6. g \notin Ends(r, raws, None)
    BY <2>1, <2>4 DEF MatchResult
  <2>7. Apply(p, raws[g]) # None
    BY <2>4, <2>5, <2>6 DEF Ends
  <2>8. result.values[g] = Apply(p, raws[g])
    BY <2>1, <2>4, <2>5, <2>6 DEF MatchResult, TransformedCaptures
  <2> HIDE DEF p
  <2>9. /\ p[1].Args[1].I \in Int /\ p[1].Args[2].S \in Text
        /\ Apply(p, raws[g]) = pad(raws[g], p[1].Args[1].I, p[1].Args[2].S, p[1].Name = "padLeft")
    BY <2>4, <2>5, <2>7, PadAlone
  <2> DEFINE left == p[1].Name = "padLeft"
  <2>10. left \in BOOLEAN
    OBVIOUS
  <2> HIDE DEF left
  <2>11. result.values[g] = pad(raws[g], p[1].Args[1].I, p[1].Args[2].S, left) /\ result.values[g] # None
    BY <2>7, <2>8, <2>9 DEF left
  <2>12. LET raw == raws[g]
             padded == result.values[g]
             goal == IF Len(raw) >= p[1].Args[1].I THEN Len(raw) ELSE p[1].Args[1].I
         IN  /\ IF left THEN IsSuffix(raw, padded) ELSE IsPrefix(raw, padded)
             /\ Len(padded) <= goal
             /\ (ToSet(raw) \cup ToSet(p[1].Args[2].S)) \cap Wide = {} => Len(padded) = goal
    BY <2>5, <2>9, <2>10, <2>11, PadResult
  <2>13. req.transforms[g] = p /\ MatchOf[req.pattern][host][g] = raws[g]
    BY <2>2, <2>3 DEF p
  <2> QED
    BY <2>12, <2>13 DEF left
<1> QED
  BY <1>1, IndInvHolds, PTL
-----------------------------------------------------------------------------
(* The pieces of a template. *)

\* FlattenSeq, read step by step.
FlattenedBy(flat, s) == /\ FlattenSeq(s) = flat[Len(s)]
                        /\ flat[1] = s[1]
                        /\ \A n \in 2..Len(s) : flat[n] = flat[n - 1] \o s[n]

\* FlattenSeq has a table of partial results that grows by one part at a time.
LEMMA FlattenSteps ==
    ASSUME NEW S, NEW s \in Seq(Seq(S)), Len(s) >= 1
    PROVE  \E flat \in [0..Len(s) -> Seq(S)] : FlattenedBy(flat, s)
<1> DEFINE N == Len(s)
           V == Seq(S)
           make(n, g) == IF n = 0 THEN << >> ELSE IF n = 1 THEN s[n] ELSE g[n - 1] \o s[n]
           step(n, g) == IF n = 1 THEN s[n] ELSE g[n - 1] \o s[n]
           body(f) == [n \in 1..N |-> step(n, f)]
           G == [n \in 0..N |-> [g \in [0..(n - 1) -> V] |-> make(n, g)]]
<1>1. N \in Nat /\ \A n \in 1..N : s[n] \in V
  OBVIOUS
<1>2. ASSUME NEW n \in 0..N, NEW g, \A j \in 0..(n - 1) : g[j] \in V PROVE make(n, g) \in V
  <2>1. CASE n = 0
    BY <2>1
  <2>2. CASE n = 1
    BY <1>1, <2>2
  <2>3. CASE n # 0 /\ n # 1
    <3>1. g[n - 1] \in V /\ s[n] \in V
      BY <1>1, <1>2, <2>3
    <3> QED
      BY <2>3, <3>1
  <2> QED
    BY <2>1, <2>2, <2>3
<1>3. PICK h \in [0..N -> V] : MadeBy(h, G, N)
  <2>1. StaysWithin(G, V, N)
    <3> SUFFICES ASSUME NEW n \in 0..N, NEW g \in [0..(n - 1) -> V] PROVE G[n][g] \in V
      BY DEF StaysWithin
    <3>1. G[n][g] = make(n, g)
      OBVIOUS
    <3> HIDE DEF make, G, V
    <3> QED
      BY <1>2, <3>1
  <2> HIDE DEF G, V, N
  <2> QED
    BY <1>1, <2>1, Recursion
<1>4. ASSUME NEW n \in 0..N PROVE h[n] = make(n, h)
  <2> DEFINE g == [j \in 0..(n - 1) |-> h[j]]
  <2>1. g \in [0..(n - 1) -> V]
    <3>1. \A j \in 0..(n - 1) : j \in 0..N
      BY <1>1
    <3> HIDE DEF V, N
    <3> QED
      BY <1>3, <3>1
  <2>2. h[n] = make(n, g)
    <3> HIDE DEF make, V
    <3> QED
      BY <1>3, <2>1 DEF MadeBy
  <2>3. n # 0 => g[n - 1] = h[n - 1]
    OBVIOUS
  <2> HIDE DEF g
  <2> QED
    BY <2>2, <2>3
<1> DEFINE e == [n \in 1..N |-> h[n]]
<1>5. e = body(e)
  <2>1. ASSUME NEW n \in 1..N PROVE e[n] = step(n, e)
    <3>1. n \in 0..N /\ n # 0 /\ e[n] = h[n] /\ (n # 1 => n - 1 \in 1..N)
      BY <1>1
    <3>2. n # 1 => e[n - 1] = h[n - 1]
      BY <3>1
    <3> HIDE DEF e
    <3> QED
      BY <1>4, <3>1, <3>2
  <2> HIDE DEF step
  <2> QED
    BY <2>1
<1> DEFINE flatten == CHOOSE f : f = body(f)
<1>6. flatten = body(flatten)
  <2> HIDE DEF e, step
  <2> QED
    BY <1>5
<1>7. FlattenSeq(s) = flatten[N]
  BY <1>1 DEF FlattenSeq
<1> HIDE DEF flatten, e
<1>8. \A n \in 1..N : flatten[n] = step(n, flatten)
  <2> HIDE DEF step
  <2> QED
    BY <1>6
<1> DEFINE flat == [n \in 0..N |-> IF n = 0 THEN << >> ELSE flatten[n]]
<1>9. \A n \in 0..N : flat[n] \in V
  <2> DEFINE T == {n \in 0..N : flat[n] \in V}
  <2>1. ASSUME NEW n \in 0..N, 0..(n - 1) \subseteq T PROVE n \in T
    <3>1. \A j \in 0..(n - 1) : flat[j] \in V
      BY <2>1
    <3>2. CASE n = 0
      BY <3>2
    <3>3. CASE n # 0
      <4>1. n \in 1..N /\ flat[n] = flatten[n] /\ flatten[n] = step(n, flatten)
        BY <1>8, <3>3
      <4>2. ASSUME n # 1 PROVE flatten[n - 1] = flat[n - 1] /\ flat[n - 1] \in V
        <5>1. n - 1 \in 0..(n - 1) /\ n - 1 \in 0..N /\ n - 1 # 0
          BY <3>3, <4>2
        <5>2. flatten[n - 1] = flat[n - 1]
          BY <5>1
        <5> HIDE DEF flat, V
        <5> QED
          BY <3>1, <5>1, <5>2
      <4>3. flat[n] = make(n, flat)
        BY <3>3, <4>1, <4>2
      <4>4. make(n, flat) \in V
        <5> HIDE DEF make, flat, V
        <5> QED
          BY <1>2, <3>1
      <4> HIDE DEF make, flat, V
      <4> QED
        BY <4>3, <4>4
    <3> QED
      BY <3>2, <3>3
  <2>2. 0..N \subseteq T
    <3> HIDE DEF T
    <3> QED
      BY <1>1, <2>1, IntervalInduction
  <2> QED
    BY <2>2
<1>10. flat \in [0..N -> V]
  BY <1>9
<1>11. N \in 0..N /\ N # 0
  BY <1>1
<1>12. FlattenSeq(s) = flat[N]
  BY <1>7, <1>11
<1>13. flat[1] = s[1]
  BY <1>8, <1>11
<1>14. ASSUME NEW n \in 2..N PROVE flat[n] = flat[n - 1] \o s[n]
  <2>1. n \in 1..N /\ n # 1 /\ n # 0 /\ n - 1 # 0 /\ n - 1 \in 0..N /\ n \in 0..N
    OBVIOUS
  <2> QED
    BY <1>8, <2>1
<1> HIDE DEF flat
<1> QED
  BY <1>10, <1>12, <1>13, <1>14 DEF FlattenedBy

Longer(t, s) == Len(t) = Len(s) + 1 /\ \A n \in 1..Len(s) : t[n + 1] = s[n]

\* Brackets do not matter in a concatenation.
Associates(S) == \A x, y, z \in Seq(S) : (x \o y) \o z = x \o (y \o z)

\* It is, for texts and for everything else.
LEMMA Associative == ASSUME NEW S PROVE Associates(S)
BY ConcatAssociative DEF Associates

\* What is put in front of a sequence comes first when it is flattened.
LEMMA FlattenCons ==
    ASSUME NEW S, NEW s \in Seq(Seq(S)), NEW t \in Seq(Seq(S)),
           Longer(t, s)
    PROVE  /\ FlattenSeq(s) \in Seq(S) /\ FlattenSeq(t) \in Seq(S)
           /\ FlattenSeq(t) = t[1] \o FlattenSeq(s)
<1>0. \A x, y, z \in Seq(S) : (x \o y) \o z = x \o (y \o z)
  <2>1. Associates(S)
    BY Associative
  <2> QED
    BY <2>1 DEF Associates
<1>1. Len(s) \in Nat /\ Len(t) = Len(s) + 1 /\ t[1] \in Seq(S)
  BY DEF Longer
<1>2. PICK ft \in [0..Len(t) -> Seq(S)] : FlattenedBy(ft, t)
  <2>1. Len(t) >= 1
    BY <1>1
  <2> QED
    BY <2>1, FlattenSteps
<1>3. CASE Len(s) = 0
  <2>1. FlattenSeq(s) = s /\ s = << >>
    BY <1>3 DEF FlattenSeq
  <2>2. FlattenSeq(t) = t[1]
    BY <1>1, <1>2, <1>3 DEF FlattenedBy
  <2>3. t[1] \o << >> = t[1]
    BY <1>1
  <2> QED
    BY <1>1, <2>1, <2>2, <2>3
<1>4. CASE Len(s) # 0
  <2>1. PICK fs \in [0..Len(s) -> Seq(S)] : FlattenedBy(fs, s)
    <3>1. Len(s) >= 1
      BY <1>1, <1>4
    <3> QED
      BY <3>1, FlattenSteps
  <2> DEFINE T == {n \in 0..Len(s) : n # 0 => ft[n + 1] = t[1] \o fs[n]}
  <2>2. ASSUME NEW n \in 0..Len(s), 0..(n - 1) \subseteq T PROVE n \in T
    <3>1. CASE n = 0
      BY <3>1
    <3>2. CASE n = 1
      <4>1. 2 \in 2..Len(t) /\ 2 - 1 = 1 /\ 1 + 1 = 2 /\ 1 \in 1..Len(s)
        BY <1>1, <3>2
      <4>2. ft[2] = ft[1] \o t[2] /\ t[2] = s[1]
        BY <1>2, <4>1 DEF FlattenedBy, Longer
      <4>3. ft[1] = t[1] /\ fs[1] = s[1]
        BY <1>2, <2>1 DEF FlattenedBy
      <4>4. ft[1 + 1] = t[1] \o fs[1] /\ 1 \in 0..Len(s)
        <5>1. 1 + 1 = 2 /\ 1 \in 0..Len(s)
          BY <1>1, <3>2
        <5> QED
          BY <4>2, <4>3, <5>1
      <4> QED
        BY <3>2, <4>4
    <3>3. CASE n # 0 /\ n # 1
      <4>1. /\ n \in 2..Len(s) /\ n + 1 \in 2..Len(t) /\ n \in 1..Len(s)
            /\ n - 1 \in 0..Len(s)
            /\ n - 1 # 0 /\ n - 1 \in T /\ (n + 1) - 1 = n /\ (n - 1) + 1 = n
        <5>1. n - 1 \in 0..(n - 1)
          BY <3>3
        <5>2. n - 1 \in T
          BY <2>2, <5>1
        <5> HIDE DEF T
        <5> QED
          BY <1>1, <3>3, <5>2
      <4>2. ft[n] = t[1] \o fs[n - 1]
        BY <4>1
      <4>3. ft[n + 1] = ft[n] \o t[n + 1] /\ t[n + 1] = s[n]
        BY <1>2, <4>1 DEF FlattenedBy, Longer
      <4>4. fs[n] = fs[n - 1] \o s[n] /\ fs[n - 1] \in Seq(S) /\ s[n] \in Seq(S)
        <5>1. s[n] \in Seq(S)
          BY <4>1
        <5>2. fs[n - 1] \in Seq(S)
          BY <2>1, <4>1
        <5> QED
          BY <2>1, <4>1, <5>1, <5>2 DEF FlattenedBy
      <4>5. (t[1] \o fs[n - 1]) \o s[n] = t[1] \o (fs[n - 1] \o s[n])
        <5> DEFINE x == t[1]
                   y == fs[n - 1]
                   z == s[n]
        <5>1. x \in Seq(S) /\ y \in Seq(S) /\ z \in Seq(S)
          BY <1>1, <4>4
        <5> HIDE DEF x, y, z
        <5>2. (x \o y) \o z = x \o (y \o z)
          BY <5>1, <1>0
        <5> QED
          BY <5>2 DEF x, y, z
      <4>6. ft[n + 1] = t[1] \o fs[n]
        BY <4>2, <4>3, <4>4, <4>5
      <4> QED
        BY <4>6
    <3> QED
      BY <3>1, <3>2, <3>3
  <2>3. 0..Len(s) \subseteq T
    <3> HIDE DEF T
    <3> QED
      BY <1>1, <2>2, IntervalInduction
  <2>4. ft[Len(s) + 1] = t[1] \o fs[Len(s)]
    <3>1. Len(s) \in T
      <4>1. Len(s) \in 0..Len(s)
        BY <1>1
      <4> HIDE DEF T
      <4> QED
        BY <2>3, <4>1
    <3> QED
      BY <1>4, <3>1
  <2>5. FlattenSeq(s) \in Seq(S) /\ FlattenSeq(t) = ft[Len(s) + 1] /\ FlattenSeq(s) = fs[Len(s)]
    <3>1. Len(s) \in 0..Len(s)
      BY <1>1
    <3>2. FlattenSeq(s) = fs[Len(s)] /\ fs[Len(s)] \in Seq(S)
      BY <2>1, <3>1 DEF FlattenedBy
    <3>3. FlattenSeq(t) = ft[Len(t)] /\ Len(t) = Len(s) + 1
      BY <1>1, <1>2 DEF FlattenedBy
    <3>4. FlattenSeq(t) = ft[Len(s) + 1]
      BY <3>3
    <3> QED
      BY <3>2, <3>4
  <2>6. FlattenSeq(t) = t[1] \o FlattenSeq(s)
    BY <2>4, <2>5
  <2>7. t[1] \o FlattenSeq(s) \in Seq(S)
    BY <1>1, <2>5
  <2> QED
    BY <2>5, <2>6, <2>7
<1> QED
  BY <1>3, <1>4
\* strings.IndexByte, searching from a position on: the first one that has the
\* character, or none.
Finds(k, t, c, from) == \/ /\ k = 0
                           /\ \A n \in from..Len(t) : t[n] # c
                        \/ /\ k # 0 /\ k \in from..Len(t) /\ t[k] = c
                           /\ \A n \in from..(k - 1) : t[n] # c

\* strings.IndexByte returns the first place of the byte, or says there is none.
LEMMA IndexByteFinds ==
    ASSUME NEW t \in Text, NEW c, NEW from \in Nat, from >= 1
    PROVE  Finds(IndexByte(t, c, from), t, c, from)
<1> DEFINE I == {n \in from..Len(t) : t[n] = c}
<1>1. IndexByte(t, c, from) = IF I # {} THEN Min(I) ELSE 0
  BY DEF IndexByte, SelectInSubSeq
<1>2. Len(t) \in Nat
  BY DEF Text
<1>3. CASE I = {}
  BY <1>1, <1>3 DEF Finds
<1>4. CASE I # {}
  <2> DEFINE k == Min(I)
  <2>1. k \in I /\ \A n \in I : k <= n
    <3>1. I \subseteq Nat
      OBVIOUS
    <3> HIDE DEF I
    <3> QED
      BY <1>4, <3>1, LeastNumber DEF Min
  <2>2. k \in from..Len(t) /\ t[k] = c
    BY <2>1
  <2>3. IndexByte(t, c, from) = k
    BY <1>1, <1>4
  <2> HIDE DEF k
  <2>4. ASSUME NEW n \in from..(k - 1) PROVE t[n] # c
    <3>1. n \in from..Len(t) /\ ~(k <= n)
      BY <1>2, <2>2
    <3> QED
      BY <2>1, <3>1
  <2> QED
    BY <2>2, <2>3, <2>4 DEF Finds
<1> QED
  BY <1>3, <1>4

\* Where the walk of a template goes on, and what it leaves behind.
Piece == [token : BOOLEAN, text : Text]

Walked(walk, t) ==
    \A n \in 1..(Len(t) + 1) :
      LET open  == IndexByte(t, "{", n)
          close == IndexByte(t, "}", open)
          tail  == IF close = 0 THEN <<Literal(SubSeq(t, open, Len(t)))>>
                   ELSE <<Token(SubSeq(t, open + 1, close - 1))>> \o walk[close + 1]
      IN  walk[n] = IF n > Len(t) THEN << >>
                    ELSE IF open = 0 THEN <<Literal(SubSeq(t, n, Len(t)))>>
                    ELSE IF open > n THEN <<Literal(SubSeq(t, n, open - 1))>> \o tail
                    ELSE tail

\* walkTemplateTokens is what its recursive definition says, read step by step.
LEMMA WalkSteps ==
    ASSUME NEW t \in Text
    PROVE  \E walk \in [1..(Len(t) + 1) -> Seq(Piece)] :
             walkTemplateTokens(t) = walk[1] /\ Walked(walk, t)
<1> DEFINE L == Len(t) + 1
           V == Seq(Piece)
           open(n) == IndexByte(t, "{", n)
           close(n) == IndexByte(t, "}", open(n))
           tail(n, g) == IF close(n) = 0 THEN <<Literal(SubSeq(t, open(n), Len(t)))>>
                         ELSE <<Token(SubSeq(t, open(n) + 1, close(n) - 1))>> \o g[close(n) + 1]
           make(n, g) == IF n > Len(t) THEN << >>
                         ELSE IF open(n) = 0 THEN <<Literal(SubSeq(t, n, Len(t)))>>
                         ELSE IF open(n) > n THEN <<Literal(SubSeq(t, n, open(n) - 1))>> \o tail(n, g)
                         ELSE tail(n, g)
           body(f) == [n \in 1..L |-> make(n, f)]
           G == [n \in 1..L |-> [g \in [(n + 1)..L -> V] |-> make(n, g)]]
<1>1. Len(t) \in Nat /\ L \in Int /\ 1 \in Int
  BY DEF Text
<1>2. \A a \in Nat, b \in Int : a >= 1 /\ b <= Len(t) => SubSeq(t, a, b) \in Text
  BY <1>1 DEF Text
<1>3. ASSUME NEW n \in 1..L
      PROVE  /\ open(n) = 0 \/ open(n) \in n..Len(t)
             /\ open(n) # 0 => \/ close(n) = 0
                               \/ close(n) \in n..Len(t) /\ close(n) + 1 \in (n + 1)..L
  <2>1. open(n) = 0 \/ open(n) \in n..Len(t)
    <3>1. n \in Nat /\ n >= 1
      OBVIOUS
    <3> QED
      BY <3>1, IndexByteFinds DEF Finds
  <2>2. ASSUME open(n) # 0 PROVE close(n) = 0 \/ close(n) \in open(n)..Len(t)
    <3>1. open(n) \in Nat /\ open(n) >= 1
      <4> HIDE DEF open
      <4> QED
        BY <2>1, <2>2
    <3> HIDE DEF open
    <3> QED
      BY <3>1, IndexByteFinds DEF Finds
  <2> HIDE DEF open, close
  <2> QED
    BY <1>1, <2>1, <2>2
<1> HIDE DEF open, close
<1>4. \A x \in Text : Literal(x) \in Piece /\ Token(x) \in Piece
  BY DEF Literal, Token, Piece
<1>5. ASSUME NEW n \in 1..L, NEW g, open(n) # 0, \A k \in (n + 1)..L : g[k] \in V
      PROVE  tail(n, g) \in V
  <2>1. open(n) \in n..Len(t)
    BY <1>3, <1>5
  <2>2. CASE close(n) = 0
    <3>1. SubSeq(t, open(n), Len(t)) \in Text
      BY <1>1, <1>2, <2>1
    <3>2. Literal(SubSeq(t, open(n), Len(t))) \in Piece
      BY <1>4, <3>1
    <3> QED
      BY <2>2, <3>2
  <2>3. CASE close(n) # 0
    <3>1. close(n) \in n..Len(t) /\ close(n) + 1 \in (n + 1)..L
      BY <1>3, <1>5, <2>3
    <3>2. SubSeq(t, open(n) + 1, close(n) - 1) \in Text
      <4>1. open(n) + 1 \in Nat /\ open(n) + 1 >= 1 /\ close(n) - 1 \in Int /\ close(n) - 1 <= Len(t)
        BY <1>1, <2>1, <3>1
      <4> QED
        BY <1>2, <4>1
    <3>3. Token(SubSeq(t, open(n) + 1, close(n) - 1)) \in Piece
      BY <1>4, <3>2
    <3>4. g[close(n) + 1] \in V
      BY <1>5, <3>1
    <3> QED
      BY <2>3, <3>3, <3>4
  <2> QED
    BY <2>2, <2>3
<1> HIDE DEF tail
<1>6. ASSUME NEW n \in 1..L, NEW g, \A k \in (n + 1)..L : g[k] \in V
      PROVE  make(n, g) \in V
  <2>1. CASE n > Len(t)
    BY <2>1
  <2>2. CASE n <= Len(t) /\ open(n) = 0
    <3>1. SubSeq(t, n, Len(t)) \in Text
      BY <1>1, <1>2
    <3>2. Literal(SubSeq(t, n, Len(t))) \in Piece
      BY <1>4, <3>1
    <3> QED
      BY <1>1, <2>2, <3>2
  <2>3. CASE n <= Len(t) /\ open(n) # 0
    <3>1. tail(n, g) \in V /\ open(n) \in n..Len(t)
      BY <1>3, <1>5, <1>6, <2>3
    <3>2. SubSeq(t, n, open(n) - 1) \in Text
      BY <1>1, <1>2, <3>1
    <3>3. Literal(SubSeq(t, n, open(n) - 1)) \in Piece
      BY <1>4, <3>2
    <3> QED
      BY <1>1, <2>3, <3>1, <3>3
  <2> QED
    BY <1>1, <2>1, <2>2, <2>3
<1>7. ASSUME NEW n \in 1..L, NEW g, NEW h, \A k \in (n + 1)..L : g[k] = h[k]
      PROVE  make(n, g) = make(n, h)
  <2>1. open(n) # 0 /\ close(n) # 0 => g[close(n) + 1] = h[close(n) + 1]
    BY <1>3, <1>7
  <2>2. open(n) # 0 => tail(n, g) = tail(n, h)
    BY <2>1 DEF tail
  <2> QED
    BY <2>2
<1> HIDE DEF make
<1>8. StaysWithinDown(G, V, 1, L)
  <2> SUFFICES ASSUME NEW n \in 1..L, NEW g \in [(n + 1)..L -> V] PROVE G[n][g] \in V
    BY DEF StaysWithinDown
  <2>1. G[n][g] = make(n, g)
    OBVIOUS
  <2> HIDE DEF G, V, L
  <2> QED
    BY <1>6, <2>1
<1>9. PICK f \in [1..L -> V] : MadeByDown(f, G, 1, L)
  <2> HIDE DEF G, L, V
  <2> QED
    BY <1>1, <1>8, DownRecursion
<1>10. ASSUME NEW n \in 1..L PROVE f[n] = make(n, f)
  <2> DEFINE g == [k \in (n + 1)..L |-> f[k]]
  <2>1. g \in [(n + 1)..L -> V]
    <3>1. \A k \in (n + 1)..L : k \in 1..L
      BY <1>1
    <3> HIDE DEF L, V
    <3> QED
      BY <1>9, <3>1
  <2>2. f[n] = make(n, g)
    <3>1. f[n] = G[n][g]
      BY <1>9 DEF MadeByDown
    <3> QED
      BY <2>1, <3>1
  <2>3. \A k \in (n + 1)..L : g[k] = f[k]
    OBVIOUS
  <2> HIDE DEF g
  <2> QED
    BY <1>7, <2>2, <2>3
<1>11. f = body(f)
  BY <1>9, <1>10
<1> DEFINE walk == CHOOSE h : h = body(h)
<1>12. walk = body(walk)
  BY <1>11
<1>13. walkTemplateTokens(t) = walk[1]
  BY DEF walkTemplateTokens, make, tail, open, close
<1> HIDE DEF walk
<1>14. \A n \in 1..L : walk[n] = make(n, walk)
  BY <1>12
<1>15. \A n \in 1..L : walk[n] \in V
  <2> DEFINE T == {n \in 1..L : walk[n] \in V}
  <2>1. ASSUME NEW n \in 1..L, (n + 1)..L \subseteq T PROVE n \in T
    <3>1. \A k \in (n + 1)..L : walk[k] \in V
      BY <2>1
    <3>2. walk[n] \in V
      <4> HIDE DEF V, L
      <4> QED
        BY <1>6, <1>14, <3>1
    <3> QED
      BY <3>2
  <2>2. 1..L \subseteq T
    <3> HIDE DEF T, L
    <3> QED
      BY <1>1, <2>1, DownInduction
  <2> QED
    BY <2>2
<1>16. walk \in [1..L -> V]
  <2> HIDE DEF V, L
  <2> QED
    BY <1>12, <1>15
<1>17. Walked(walk, t)
  BY <1>14 DEF Walked, make, tail, open, close
<1> QED
  BY <1>13, <1>16, <1>17
\* One element of a sequence, and a sequence between two elements.
LEMMA SubSeqOne ==
    ASSUME NEW S, NEW t \in Seq(S), NEW n \in 1..Len(t)
    PROVE  SubSeq(t, n, n) = <<t[n]>>
<1> DEFINE u == SubSeq(t, n, n)
<1>1. n \in Int /\ n <= n /\ (n - n) + 1 = 1 /\ n + 1 - 1 = n /\ \A k \in n..n : t[k] \in S
  OBVIOUS
<1>2. u \in Seq(S) /\ Len(u) = n - n + 1 /\ \A k \in 1..(n - n + 1) : u[k] = t[n + k - 1]
  BY <1>1, SubSeqProperties
<1> HIDE DEF u
<1>3. u \in Seq(S) /\ Len(u) = 1 /\ u[1] = t[n]
  BY <1>1, <1>2
<1>4. u = <<u[1]>>
  BY <1>3
<1> QED
  BY <1>3, <1>4 DEF u

\* A sequence set between two values.
LEMMA Between ==
    ASSUME NEW S, NEW l \in S, NEW r \in S, NEW x \in Seq(S)
    PROVE  <<l>> \o x \o <<r>> \in Seq(S)
<1> DEFINE c == <<l>> \o x
<1>1. <<l>> \in Seq(S) /\ <<r>> \in Seq(S)
  OBVIOUS
<1>2. c \in Seq(S)
  BY <1>1
<1> HIDE DEF c
<1>3. c \o <<r>> \in Seq(S)
  BY <1>1, <1>2
<1> QED
  BY <1>3 DEF c

\* A piece as the template has it.
Written(a) == IF a.token THEN <<"{">> \o a.text \o <<"}">> ELSE a.text

\* Putting the pieces together again starts with the first.
LEMMA SourceCons ==
    ASSUME NEW a \in Piece, NEW rest \in Seq(Piece)
    PROVE  Source(<<a>> \o rest) = Written(a) \o Source(rest)
<1> DEFINE S == Char \cup {"{", "}"}
           pieces == <<a>> \o rest
           w(q) == [n \in DOMAIN q |-> Written(q[n])]
<1>1. ASSUME NEW b \in Piece PROVE Written(b) \in Seq(S)
  <2>1. "{" \in S /\ "}" \in S
    OBVIOUS
  <2>2. b.text \in Seq(Char) /\ Char \subseteq S
    BY DEF Piece, Text
  <2> HIDE DEF S
  <2>3. b.text \in Seq(S)
    BY <2>2
  <2>4. <<"{">> \o b.text \o <<"}">> \in Seq(S)
    BY <2>1, <2>3, Between
  <2> QED
    BY <2>3, <2>4 DEF Written
<1>2. /\ pieces \in Seq(Piece) /\ Len(pieces) = Len(rest) + 1 /\ Len(rest) \in Nat
      /\ pieces[1] = a /\ \A n \in 1..Len(rest) : pieces[n + 1] = rest[n]
  OBVIOUS
<1>3. ASSUME NEW q \in Seq(Piece)
      PROVE  /\ w(q) \in Seq(Seq(S)) /\ Len(w(q)) = Len(q)
             /\ \A n \in 1..Len(q) : w(q)[n] = Written(q[n])
             /\ Source(q) = FlattenSeq(w(q))
  <2>1. \A n \in 1..Len(q) : Written(q[n]) \in Seq(S)
    <3> HIDE DEF S
    <3> QED
      BY <1>1
  <2>2. Source(q) = FlattenSeq(w(q))
    BY DEF Source, Written
  <2> HIDE DEF S
  <2> QED
    BY <2>1, <2>2
<1> HIDE DEF pieces, w, S
<1>4. Longer(w(pieces), w(rest))
  <2>1. ASSUME NEW n \in 1..Len(rest) PROVE w(pieces)[n + 1] = w(rest)[n]
    <3>1. n + 1 \in 1..Len(pieces)
      BY <1>2
    <3> QED
      BY <1>2, <1>3, <3>1
  <2> QED
    BY <1>2, <1>3, <2>1 DEF Longer
<1>5. FlattenSeq(w(pieces)) = w(pieces)[1] \o FlattenSeq(w(rest))
  BY <1>2, <1>3, <1>4, FlattenCons
<1>6. w(pieces)[1] = Written(a)
  BY <1>2, <1>3
<1> QED
  BY <1>2, <1>3, <1>5, <1>6 DEF pieces

\* A literal has no brace that is closed later, a token no closing brace.
Whole(piece) == \A b \in DOMAIN piece.text : piece.text[b] = "}" =>
                   ~piece.token /\ \A a \in 1..b : piece.text[a] # "{"

\* A token, or a literal without an opening brace.
Closed(piece) == \A b \in DOMAIN piece.text : piece.text[b] = "{" => piece.token

\* The pieces are the template from a position on.
Rebuilds(pieces, t, n) == /\ pieces \in Seq(Piece)
                          /\ Source(pieces) = SubSeq(t, n, Len(t))
                          /\ \A k \in DOMAIN pieces :
                               Whole(pieces[k]) /\ (Closed(pieces[k]) \/ k = Len(pieces))

\* One more piece in front.
LEMMA RebuildsCons ==
    ASSUME NEW t \in Text, NEW m \in 1..(Len(t) + 1), NEW n \in 1..m,
           NEW a \in Piece, Whole(a), Written(a) = SubSeq(t, n, m - 1),
           NEW rest, Rebuilds(rest, t, m), Closed(a) \/ rest = << >>
    PROVE  Rebuilds(<<a>> \o rest, t, n)
<1>1. rest \in Seq(Piece) /\ Len(t) \in Nat /\ Len(rest) \in Nat
  BY DEF Rebuilds, Text
<1>2. /\ <<a>> \o rest \in Seq(Piece) /\ Len(<<a>> \o rest) = Len(rest) + 1
      /\ (<<a>> \o rest)[1] = a /\ \A k \in 2..(Len(rest) + 1) : (<<a>> \o rest)[k] = rest[k - 1]
  BY <1>1
<1>3. Source(<<a>> \o rest) = Written(a) \o Source(rest)
  BY <1>1, SourceCons
<1>4. SubSeq(t, n, m - 1) \o SubSeq(t, m, Len(t)) = SubSeq(t, n, Len(t))
  <2>1. /\ n \in 1..(Len(t) + 1) /\ m - 1 \in (n - 1)..Len(t)
        /\ Len(t) \in (m - 1)..Len(t) /\ (m - 1) + 1 = m
    BY <1>1
  <2>2. SubSeq(t, n, m - 1) \o SubSeq(t, (m - 1) + 1, Len(t)) = SubSeq(t, n, Len(t))
    BY <2>1, ConcatAdjacentSubSeq DEF Text
  <2> QED
    BY <2>1, <2>2
<1>5. Source(<<a>> \o rest) = SubSeq(t, n, Len(t))
  BY <1>3, <1>4 DEF Rebuilds
<1>6. ASSUME NEW k \in DOMAIN (<<a>> \o rest)
      PROVE  /\ Whole((<<a>> \o rest)[k])
             /\ Closed((<<a>> \o rest)[k]) \/ k = Len(<<a>> \o rest)
  <2>1. k \in 1..(Len(rest) + 1)
    BY <1>2
  <2>2. CASE k = 1
    <3>1. rest = << >> => Len(rest) = 0
      OBVIOUS
    <3> QED
      BY <1>2, <2>2, <3>1
  <2>3. CASE k # 1
    <3>1. /\ (<<a>> \o rest)[k] = rest[k - 1] /\ k - 1 \in DOMAIN rest
          /\ k - 1 = Len(rest) => k = Len(<<a>> \o rest)
      BY <1>1, <1>2, <2>1, <2>3
    <3> QED
      BY <3>1 DEF Rebuilds
  <2> QED
    BY <2>2, <2>3
<1> QED
  BY <1>2, <1>5, <1>6 DEF Rebuilds

\* The end of a template needs no piece; and one piece alone.
LEMMA RebuildsEnd ==
    ASSUME NEW t \in Text
    PROVE  Rebuilds(<< >>, t, Len(t) + 1)
<1>1. Source(<< >>) = << >>
  BY DEF Source, FlattenSeq
<1>2. SubSeq(t, Len(t) + 1, Len(t)) = << >>
  BY DEF Text
<1>3. DOMAIN << >> = {} /\ << >> \in Seq(Piece)
  OBVIOUS
<1> QED
  BY <1>1, <1>2, <1>3 DEF Rebuilds

\* A last piece that stands for all that is left rebuilds the end of the text.
LEMMA RebuildsLast ==
    ASSUME NEW t \in Text, NEW n \in 1..(Len(t) + 1),
           NEW a \in Piece, Whole(a), Written(a) = SubSeq(t, n, Len(t))
    PROVE  Rebuilds(<<a>>, t, n)
<1>1. Len(t) + 1 \in 1..(Len(t) + 1) /\ n \in 1..(Len(t) + 1) /\ (Len(t) + 1) - 1 = Len(t)
  BY DEF Text
<1>2. Rebuilds(<<a>> \o << >>, t, n)
  BY <1>1, RebuildsEnd, RebuildsCons
<1>3. <<a>> \o << >> = <<a>>
  OBVIOUS
<1> QED
  BY <1>2, <1>3

\* A part of a template: its characters, and those before one of them.
Part(x, t, n, m) == /\ x \in Text
                    /\ \A k \in DOMAIN x : n + k - 1 \in n..m /\ x[k] = t[n + k - 1]
                    /\ \A k \in DOMAIN x : 1..k \subseteq DOMAIN x

\* SubSeq takes the part of a text between two places.
LEMMA SubSeqPart ==
    ASSUME NEW t \in Text, NEW n \in Nat, NEW m \in Int, n >= 1, m <= Len(t)
    PROVE  Part(SubSeq(t, n, m), t, n, m)
<1> DEFINE x == SubSeq(t, n, m)
<1>1. t \in Seq(Char) /\ x \in Seq(Char)
  BY DEF Text
<1>2. Len(x) = (IF n <= m THEN m - n + 1 ELSE 0) /\ DOMAIN x = 1..Len(x) /\ x \in Text
  BY <1>1 DEF Text
<1>3. ASSUME NEW k \in 1..Len(x) PROVE k \in 1..((m - n) + 1) /\ n + k - 1 \in n..m /\ 1..k \subseteq 1..Len(x)
  <2> HIDE DEF x
  <2> QED
    BY <1>2
<1>4. ASSUME NEW k \in 1..Len(x) PROVE x[k] = t[n + k - 1]
  BY <1>1, <1>3
<1> HIDE DEF x
<1>5. Part(x, t, n, m)
  BY <1>2, <1>3, <1>4 DEF Part
<1> QED
  BY <1>5 DEF x

\* A part with the characters at its ends.
LEMMA SubSeqEnds ==
    ASSUME NEW t \in Text, NEW n \in 1..Len(t), NEW m \in (n + 1)..Len(t)
    PROVE  <<t[n]>> \o SubSeq(t, n + 1, m - 1) \o <<t[m]>> = SubSeq(t, n, m)
<1>1. t \in Seq(Char) /\ Len(t) \in Nat /\ n \in 1..Len(t) /\ m \in 1..Len(t)
  BY DEF Text
<1>2. SubSeq(t, n, n) = <<t[n]>> /\ SubSeq(t, m, m) = <<t[m]>>
  BY <1>1, SubSeqOne
<1>3. SubSeq(t, n, n) \o SubSeq(t, n + 1, m - 1) = SubSeq(t, n, m - 1)
  <2>1. n \in 1..(Len(t) + 1) /\ n \in (n - 1)..Len(t) /\ m - 1 \in n..Len(t)
    BY <1>1
  <2> QED
    BY <1>1, <2>1, ConcatAdjacentSubSeq
<1>4. SubSeq(t, n, m - 1) \o SubSeq(t, m, m) = SubSeq(t, n, m)
  <2>1. /\ n \in 1..(Len(t) + 1) /\ m - 1 \in (n - 1)..Len(t) /\ m \in (m - 1)..Len(t)
        /\ (m - 1) + 1 = m
    BY <1>1
  <2>2. SubSeq(t, n, m - 1) \o SubSeq(t, (m - 1) + 1, m) = SubSeq(t, n, m)
    BY <1>1, <2>1, ConcatAdjacentSubSeq
  <2> QED
    BY <2>1, <2>2
<1> QED
  BY <1>2, <1>3, <1>4

\* A literal is whole as long as it has no opening brace, or no closing one.
LEMMA LiteralWhole ==
    ASSUME NEW t \in Text, NEW n \in Nat, NEW m \in Int, n >= 1, m <= Len(t),
           \/ \A k \in n..m : t[k] # "{"
           \/ \A k \in n..m : t[k] # "}"
    PROVE  LET a == Literal(SubSeq(t, n, m))
           IN  /\ a \in Piece /\ Whole(a) /\ Written(a) = SubSeq(t, n, m)
               /\ (\A k \in n..m : t[k] # "{") => Closed(a)
<1> DEFINE x == SubSeq(t, n, m)
<1>1. Part(x, t, n, m)
  BY SubSeqPart
<1> HIDE DEF x
<1>2. Literal(x) \in Piece /\ Literal(x).text = x /\ ~Literal(x).token /\ Written(Literal(x)) = x
  BY <1>1 DEF Literal, Piece, Written, Part
<1>3. ASSUME NEW b \in DOMAIN x, x[b] = "}", NEW c \in 1..b PROVE x[c] # "{"
  <2> DEFINE kb == n + b - 1
             kc == n + c - 1
  <2>1. x[b] = t[kb] /\ kb \in n..m
    BY <1>1 DEF Part
  <2>2. c \in DOMAIN x
    BY <1>1 DEF Part
  <2>3. x[c] = t[kc] /\ kc \in n..m
    BY <1>1, <2>2 DEF Part
  <2> HIDE DEF kb, kc
  <2> QED
    BY <1>3, <2>1, <2>3
<1>4. Whole(Literal(x))
  BY <1>2, <1>3 DEF Whole
<1>5. ASSUME \A k \in n..m : t[k] # "{" PROVE Closed(Literal(x))
  BY <1>1, <1>2, <1>5 DEF Closed, Part
<1> QED
  BY <1>2, <1>4, <1>5 DEF x

\* A token with its braces.
Braced(t, n, m) == t[n] = "{" /\ t[m] = "}" /\ \A k \in n..(m - 1) : t[k] # "}"

\* What is between two braces, written with its braces, is what was read.
LEMMA TokenWhole ==
    ASSUME NEW t \in Text, NEW n \in 1..Len(t), NEW m \in (n + 1)..Len(t),
           Braced(t, n, m)
    PROVE  LET a == Token(SubSeq(t, n + 1, m - 1))
           IN  a \in Piece /\ Whole(a) /\ Closed(a) /\ Written(a) = SubSeq(t, n, m)
<1> DEFINE x == SubSeq(t, n + 1, m - 1)
<1>1. Part(x, t, n + 1, m - 1) /\ (n + 1)..(m - 1) \subseteq n..(m - 1)
  <2>1. /\ n + 1 \in Nat /\ m - 1 \in Int /\ n + 1 >= 1 /\ m - 1 <= Len(t)
        /\ (n + 1)..(m - 1) \subseteq n..(m - 1)
    <3>1. Len(t) \in Nat
      BY DEF Text
    <3> QED
      BY <3>1
  <2> QED
    BY <2>1, SubSeqPart
<1>2. <<t[n]>> \o x \o <<t[m]>> = SubSeq(t, n, m)
  BY SubSeqEnds
<1> HIDE DEF x
<1>3. Token(x) \in Piece /\ Token(x).text = x /\ Token(x).token
  BY <1>1 DEF Token, Piece, Part
<1>4. Written(Token(x)) = <<"{">> \o x \o <<"}">>
  BY <1>3 DEF Written
<1>5. Written(Token(x)) = SubSeq(t, n, m)
  BY <1>2, <1>4 DEF Braced
<1>6. ASSUME NEW k \in DOMAIN x PROVE x[k] # "}"
  <2> DEFINE l == (n + 1) + k - 1
  <2>1. l \in (n + 1)..(m - 1) /\ x[k] = t[l]
    BY <1>1 DEF Part
  <2> HIDE DEF l
  <2> QED
    BY <1>1, <2>1 DEF Braced
<1>7. Whole(Token(x))
  BY <1>3, <1>6 DEF Whole
<1>8. Closed(Token(x))
  BY <1>3 DEF Closed
<1> QED
  BY <1>3, <1>5, <1>7, <1>8 DEF x

\* From every position the walk rebuilds the rest of the template.
LEMMA WalkRebuilds ==
    ASSUME NEW t \in Text, NEW walk, Walked(walk, t)
    PROVE  Rebuilds(walk[1], t, 1)
<1> DEFINE L == Len(t) + 1
           T == {n \in 1..L : Rebuilds(walk[n], t, n)}
<1>1. Len(t) \in Nat /\ L \in Int /\ 1 \in Int
  BY DEF Text
<1>2. ASSUME NEW n \in 1..L, (n + 1)..L \subseteq T PROVE Rebuilds(walk[n], t, n)
  <2> DEFINE open  == IndexByte(t, "{", n)
             close == IndexByte(t, "}", open)
             tail  == IF close = 0 THEN <<Literal(SubSeq(t, open, Len(t)))>>
                      ELSE <<Token(SubSeq(t, open + 1, close - 1))>> \o walk[close + 1]
  <2>1. walk[n] = IF n > Len(t) THEN << >>
                  ELSE IF open = 0 THEN <<Literal(SubSeq(t, n, Len(t)))>>
                  ELSE IF open > n THEN <<Literal(SubSeq(t, n, open - 1))>> \o tail
                  ELSE tail
    BY DEF Walked
  <2>0. n \in Nat /\ n >= 1 /\ n <= Len(t) + 1
    BY <1>1
  <2>2. Finds(open, t, "{", n)
    BY <2>0, IndexByteFinds
  <2> HIDE DEF open
  <2>3. ASSUME open # 0 PROVE /\ open \in n..Len(t) /\ t[open] = "{"
                              /\ \A k \in n..(open - 1) : t[k] # "{"
    BY <2>2, <2>3 DEF Finds
  <2>10. ASSUME open # 0 PROVE open \in Nat /\ open >= n /\ open <= Len(t)
    <3>1. open \in n..Len(t)
      BY <2>3, <2>10
    <3> QED
      BY <1>1, <2>0, <3>1
  <2>4. ASSUME open # 0 PROVE Finds(close, t, "}", open)
    <3>1. open \in Nat /\ open >= 1
      BY <2>0, <2>4, <2>10
    <3> QED
      BY <3>1, IndexByteFinds
  <2> HIDE DEF close
  <2>5. ASSUME open # 0 PROVE Rebuilds(tail, t, open)
    <3>1. open \in 1..Len(t) /\ open \in Nat /\ open >= 1 /\ open \in 1..(Len(t) + 1)
      BY <1>1, <2>0, <2>5, <2>10
    <3>2. CASE close = 0
      <4>1. \A k \in open..Len(t) : t[k] # "}"
        BY <2>4, <2>5, <3>2 DEF Finds
      <4> DEFINE a == Literal(SubSeq(t, open, Len(t)))
      <4>2. a \in Piece /\ Whole(a) /\ Written(a) = SubSeq(t, open, Len(t))
        <5>1. Len(t) \in Int /\ Len(t) <= Len(t)
          BY <1>1
        <5> QED
          BY <3>1, <4>1, <5>1, LiteralWhole
      <4> HIDE DEF a
      <4>3. Rebuilds(<<a>>, t, open)
        BY <3>1, <4>2, RebuildsLast
      <4> QED
        BY <3>2, <4>3 DEF a
    <3>3. CASE close # 0
      <4>1. close \in open..Len(t) /\ t[close] = "}" /\ \A k \in open..(close - 1) : t[k] # "}"
        BY <2>4, <2>5, <3>3 DEF Finds
      <4>2. close # open
        <5>1. "{" # "}"
          OBVIOUS
        <5> QED
          BY <2>3, <2>5, <4>1, <5>1
      <4>3. /\ close \in (open + 1)..Len(t) /\ close + 1 \in 1..(Len(t) + 1) /\ open \in 1..(close + 1)
            /\ close + 1 \in (n + 1)..L /\ (close + 1) - 1 = close
        <5>0. close \in open..Len(t)
          BY <4>1
        <5>1. close \in Nat /\ close >= open /\ close <= Len(t)
          BY <1>1, <3>1, <5>0
        <5> QED
          BY <1>1, <2>0, <2>5, <2>10, <3>1, <4>2, <5>1
      <4> DEFINE a == Token(SubSeq(t, open + 1, close - 1))
      <4>4. a \in Piece /\ Whole(a) /\ Closed(a) /\ Written(a) = SubSeq(t, open, close)
        <5>1. Braced(t, open, close)
          BY <2>3, <2>5, <4>1 DEF Braced
        <5> QED
          BY <3>1, <4>3, <5>1, TokenWhole
      <4> HIDE DEF a
      <4>5. Rebuilds(walk[close + 1], t, close + 1)
        BY <1>2, <4>3
      <4>6. Rebuilds(<<a>> \o walk[close + 1], t, open)
        <5>1. Written(a) = SubSeq(t, open, (close + 1) - 1)
          BY <4>3, <4>4
        <5> QED
          BY <4>3, <4>4, <4>5, <5>1, RebuildsCons
      <4> QED
        BY <3>3, <4>6 DEF a
    <3> QED
      BY <3>2, <3>3
  <2> HIDE DEF tail
  <2>6. CASE n > Len(t)
    <3>1. n = Len(t) + 1
      BY <1>1, <2>6
    <3> QED
      BY <2>1, <2>6, <3>1, RebuildsEnd
  <2>7. CASE n <= Len(t) /\ open = 0
    <3> DEFINE a == Literal(SubSeq(t, n, Len(t)))
    <3>1. \A k \in n..Len(t) : t[k] # "{"
      BY <2>2, <2>7 DEF Finds
    <3>2. a \in Piece /\ Whole(a) /\ Written(a) = SubSeq(t, n, Len(t))
      <4>1. Len(t) \in Int /\ Len(t) <= Len(t)
        BY <1>1
      <4> QED
        BY <2>0, <3>1, <4>1, LiteralWhole
    <3> HIDE DEF a
    <3>3. Rebuilds(<<a>>, t, n)
      BY <3>2, RebuildsLast
    <3>4. walk[n] = <<a>>
      BY <1>1, <2>1, <2>7 DEF a
    <3> QED
      BY <3>3, <3>4
  <2>8. CASE n <= Len(t) /\ open # 0 /\ open > n
    <3> DEFINE a == Literal(SubSeq(t, n, open - 1))
    <3>1. /\ n \in Nat /\ n >= 1 /\ open - 1 \in Int /\ open - 1 <= Len(t)
          /\ open \in 1..(Len(t) + 1) /\ n \in 1..open
      BY <1>1, <2>0, <2>8, <2>10
    <3>2. a \in Piece /\ Whole(a) /\ Closed(a) /\ Written(a) = SubSeq(t, n, open - 1)
      BY <2>3, <2>8, <3>1, LiteralWhole
    <3> HIDE DEF a
    <3>3. Rebuilds(<<a>> \o tail, t, n)
      BY <2>5, <2>8, <3>1, <3>2, RebuildsCons
    <3>4. walk[n] = <<a>> \o tail
      BY <1>1, <2>1, <2>8 DEF a
    <3> QED
      BY <3>3, <3>4
  <2>9. CASE n <= Len(t) /\ open # 0 /\ ~(open > n)
    <3>1. open = n
      BY <2>0, <2>9, <2>10
    <3>2. walk[n] = tail
      BY <1>1, <2>1, <2>9
    <3> QED
      BY <2>5, <2>9, <3>1, <3>2
  <2> QED
    BY <1>1, <2>6, <2>7, <2>8, <2>9
<1>3. 1..L \subseteq T
  <2>1. \A n \in 1..L : (n + 1)..L \subseteq T => n \in T
    BY <1>2
  <2> HIDE DEF T, L
  <2> QED
    BY <1>1, <2>1, DownInduction
<1>4. 1 \in 1..L
  BY <1>1
<1> QED
  BY <1>3, <1>4

\* A template is neither lost nor doubled by its walk, whatever its braces look
\* like and however long it is.
THEOREM WalkIsLosslessHolds == Spec => []WalkIsLossless
<1>1. IndInv => WalkIsLossless
  <2> SUFFICES ASSUME IndInv, pc = "validate"
               PROVE  LET pieces == walkTemplateTokens(req.template)
                      IN  /\ Source(pieces) = req.template
                          /\ \A n \in DOMAIN pieces :
                               Whole(pieces[n]) /\ (Closed(pieces[n]) \/ n = Len(pieces))
    BY DEF WalkIsLossless, Whole, Closed
  <2> DEFINE t == req.template
  <2>1. t \in Text
    <3>1. PICK b \in Bodies \cup TestBodies : req = Decode(b)
      BY DEF IndInv, Sent
    <3>2. /\ b = [enabled |-> b.enabled, pattern |-> b.pattern,
                  transforms |-> b.transforms, template |-> b.template]
          /\ b.template \in Text
      BY RuleEngineAssumption DEF Text
    <3> QED
      BY <3>1, <3>2 DEF Decode
  <2> HIDE DEF t
  <2>2. PICK walk \in [1..(Len(t) + 1) -> Seq(Piece)] :
          walkTemplateTokens(t) = walk[1] /\ Walked(walk, t)
    BY <2>1, WalkSteps
  <2>3. Rebuilds(walkTemplateTokens(t), t, 1)
    BY <2>1, <2>2, WalkRebuilds
  <2>4. SubSeq(t, 1, Len(t)) = t
    BY <2>1 DEF Text
  <2>5. Source(walkTemplateTokens(t)) = t
    BY <2>3, <2>4 DEF Rebuilds
  <2> QED
    BY <2>3, <2>5 DEF t, Rebuilds
<1> QED
  BY <1>1, IndInvHolds, PTL
=============================================================================
