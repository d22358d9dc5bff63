---------------------------- MODULE ParserProofs ----------------------------
(* Proofs about Parser, the language it reads and the texts that are written *)
(* from pipelines, for every set of texts and samples and every limit.  The  *)
(* lemmas on recursion are those of RuleEngineProofs.                        *)
EXTENDS RuleText, RuleEngineProofs

-----------------------------------------------------------------------------
(* The parser stays within its text. *)

\* The types of what a step reads; inside a string there is a quote.
ParserInv == /\ text \in Seq(Runes)
             /\ pos \in 0..Len(text)
             /\ token \in Seq(Runes)
             /\ quote \in Runes \cup {None}
             /\ stage \in Skips \cup Tokens \cup Over \cup {"idle"}
             /\ stage = "idle" => pos = 0

\* A rune that is there is a rune of the text.
LEMMA RuneThere ==
    ASSUME ParserInv, More
    PROVE  Rune \in Runes /\ pos + 1 \in 0..Len(text)
<1>1. pos \in Nat /\ Len(text) \in Nat /\ pos < Len(text)
  BY LenProperties DEF ParserInv, More
<1>2. pos + 1 \in 1..Len(text)
  BY <1>1
<1>3. text[pos + 1] \in Runes
  BY <1>2, ElementOfSeq DEF ParserInv
<1> QED
  BY <1>2, <1>3 DEF Rune

\* Every step of Parse keeps the parser within its text.
LEMMA ParserStep ==
    ASSUME ParserInv, [ParserNext]_parserVars
    PROVE  ParserInv'
<1> USE DEF Skips, Tokens, Over
<1>1. CASE Parse
  BY <1>1, RuneAssumption, LenProperties DEF Parse, ParserInv
<1>2. CASE Parsed
  BY <1>2, LenProperties, EmptySeq DEF Parsed, ParserInv
<1>3. CASE skipSpace
  BY <1>3, RuneThere DEF skipSpace, Peek, Eat, Others, ParserInv
<1>4. CASE Empty
  BY <1>4 DEF Empty, Goto, Others, ParserInv
<1>5. CASE Ident
  <2>1. CASE Peek(isIdentStart)
    <3>1. More /\ Eat("name") /\ token' = <<Rune>> /\ quote' = quote
      BY <1>5, <2>1 DEF Ident, Peek
    <3> QED
      BY <3>1, RuneThere DEF Eat, ParserInv
  <2>2. CASE ~Peek(isIdentStart)
    BY <1>5, <2>2 DEF Ident, Fail, Goto, ParserInv
  <2> QED
    BY <2>1, <2>2
<1>6. CASE IdentPart
  <2>1. CASE Peek(isIdentPart)
    BY <1>6, <2>1, RuneThere DEF IdentPart, Peek, Eat, ParserInv
  <2>2. CASE ~Peek(isIdentPart)
    BY <1>6, <2>2 DEF IdentPart, Goto, ParserInv
  <2> QED
    BY <2>1, <2>2
<1>7. CASE Open
  <2>1. CASE Peek({"("})
    BY <1>7, <2>1, RuneThere DEF Open, Peek, Eat, Others, ParserInv
  <2>2. CASE ~Peek({"("})
    BY <1>7, <2>2 DEF Open, Fail, Goto, ParserInv
  <2> QED
    BY <2>1, <2>2
<1>8. CASE parseArg
  <2>1. CASE Fail
    BY <2>1 DEF Fail, Goto, ParserInv
  <2>2. ASSUME More, Eat("string"), quote' = Rune, token' = << >> PROVE ParserInv'
    BY <2>2, RuneThere, EmptySeq DEF Eat, ParserInv
  <2>3. ASSUME More, Eat("digits"), token' = <<Rune>>, quote' = quote PROVE ParserInv'
    BY <2>3, RuneThere DEF Eat, ParserInv
  <2> QED
    BY <1>8, <2>1, <2>2, <2>3 DEF parseArg, Peek
<1>9. CASE Escape
  <2>1. CASE More
    BY <1>9, <2>1, RuneThere DEF Escape, Eat, ParserInv
  <2>2. CASE ~More
    BY <1>9, <2>2 DEF Escape, Fail, Goto, ParserInv
  <2> QED
    BY <2>1, <2>2
<1>10. CASE parseString
  <2>1. CASE Fail
    BY <2>1 DEF Fail, Goto, ParserInv
  <2>2. ASSUME More, Eat("escape"), Others PROVE ParserInv'
    BY <2>2, RuneThere DEF Eat, Others, ParserInv
  <2>3. ASSUME More, Eat("afterArg"), UNCHANGED <<token, quote>> PROVE ParserInv'
    BY <2>3, RuneThere DEF Eat, ParserInv
  <2>4. ASSUME More, Eat("string"), token' = Append(token, Rune), quote' = quote PROVE ParserInv'
    BY <2>4, RuneThere DEF Eat, ParserInv
  <2> QED
    BY <1>10, <2>1, <2>2, <2>3, <2>4 DEF parseString, Peek
<1>11. CASE parseInt
  <2>1. CASE Fail
    BY <2>1 DEF Fail, Goto, ParserInv
  <2>2. ASSUME More, Eat("digits"), token' = Append(token, Rune), quote' = quote PROVE ParserInv'
    BY <2>2, RuneThere DEF Eat, ParserInv
  <2>3. ASSUME Goto("afterArg"), UNCHANGED <<token, quote>> PROVE ParserInv'
    BY <2>3 DEF Goto, ParserInv
  <2> QED
    BY <1>11, <2>1, <2>2, <2>3 DEF parseInt, Peek
<1>12. CASE Comma
  BY <1>12, RuneThere DEF Comma, Peek, Eat, Others, ParserInv
<1>13. CASE Close
  <2>1. CASE Peek({")"})
    BY <1>13, <2>1, RuneThere DEF Close, Peek, Eat, ParserInv
  <2>2. CASE ~Peek({")"})
    BY <1>13, <2>2 DEF Close, Fail, Goto, ParserInv
  <2> QED
    BY <2>1, <2>2
<1>14. CASE Finish
  BY <1>14 DEF Finish, Fail, Goto, Others, ParserInv
<1>15. CASE Bar
  <2>1. CASE Peek({"|"})
    BY <1>15, <2>1, RuneThere DEF Bar, Peek, Eat, Others, ParserInv
  <2>2. CASE ~Peek({"|"})
    BY <1>15, <2>2 DEF Bar, Fail, Goto, ParserInv
  <2> QED
    BY <2>1, <2>2
<1>16. CASE UNCHANGED parserVars
  BY <1>16 DEF parserVars, ParserInv
<1> QED
  BY <1>1, <1>2, <1>3, <1>4, <1>5, <1>6, <1>7, <1>8, <1>9, <1>10, <1>11, <1>12, <1>13, <1>14,
     <1>15, <1>16 DEF ParserNext, parserStep

\* Every step of the parser keeps its invariant.
LEMMA ParserInvHolds == ParserSpec => []ParserInv
<1>1. Idle => ParserInv
  BY EmptySeq, LenProperties DEF Idle, ParserInv, Skips, Tokens, Over
<1> QED
  BY <1>1, ParserStep, PTL DEF ParserSpec

-----------------------------------------------------------------------------
(* Parse ends on every text. *)

\* Every step of Parse reads a rune or comes closer to the end without one.
LEMMA ParserAdvances ==
    ASSUME ParserInv, [ParserNext]_parserVars, parserVars' # parserVars,
           stage \notin Over \cup {"idle"}
    PROVE  pos' > pos \/ (pos' = pos /\ Left' < Left)
<1> USE DEF Skips, Tokens, Over, Left
<1>0. pos \in Nat
  BY LenProperties DEF ParserInv
<1>1. ASSUME NEW s, Eat(s) PROVE pos' > pos
  BY <1>0, <1>1 DEF Eat
<1>2. ASSUME Goto("error") \/ Goto("done") PROVE pos' = pos /\ Left' < Left
  BY <1>2 DEF Goto, ParserInv
<1>3. ASSUME stage \in {"name", "digits"}, Goto("afterName") \/ Goto("afterArg")
      PROVE  pos' = pos /\ Left' < Left
  BY <1>3 DEF Goto
<1>4. parserStep
  BY DEF ParserNext, Parse, Parsed
<1>5. CASE skipSpace \/ Empty \/ Ident
  BY <1>1, <1>2, <1>5 DEF skipSpace, Empty, Ident, Fail
<1>6. CASE IdentPart \/ parseInt
  BY <1>1, <1>2, <1>3, <1>6 DEF IdentPart, parseInt, Fail
<1>7. CASE Open \/ parseArg \/ Escape
  BY <1>1, <1>2, <1>7 DEF Open, parseArg, Escape, Fail
<1>8. CASE parseString \/ Comma \/ Close
  BY <1>1, <1>2, <1>8 DEF parseString, Comma, Close, Fail
<1>9. CASE Finish \/ Bar
  BY <1>1, <1>2, <1>9 DEF Finish, Bar, Fail
<1> QED
  BY <1>4, <1>5, <1>6, <1>7, <1>8, <1>9 DEF parserStep

\* No text keeps Parse busy for ever.
THEOREM ProgressHolds == ParserSpec => Progress
<1>1. ParserInv /\ [ParserNext]_parserVars =>
        [stage \notin Over \cup {"idle"} => pos' > pos \/ (pos' = pos /\ Left' < Left)]_parserVars
  BY ParserAdvances
<1> QED
  BY <1>1, ParserInvHolds, PTL DEF ParserSpec, Progress

-----------------------------------------------------------------------------
(* What the recursive definitions of the language say, step by step. *)

\* The items that stand at the places a..b, each a member of S.
IsItems(item, S, b) == \A a \in 1..(b + 1), e \in 0..b : item[a][e] \subseteq S

\* A sequence of one item, or an item, the rune c and a sequence.
Separates(r, item, c, t, b, a, list) ==
    \/ \E v \in item[a][b] : r = <<v>>
    \/ \E m \in a..b : /\ t[m] = c
                       /\ \E v \in item[a][m - 1], x \in list[m + 1] : r = <<v>> \o x

\* Items separated by a rune are one item, or one item before the others.
LEMMA SeparatedSteps ==
    ASSUME NEW S, NEW b \in Nat, NEW item, IsItems(item, S, b), NEW c, NEW t
    PROVE  \A a \in 1..(b + 1) :
              /\ Separated(item, c, t, b)[a] \subseteq Seq(S)
              /\ \A r : r \in Separated(item, c, t, b)[a] <=>
                        Separates(r, item, c, t, b, a, Separated(item, c, t, b))
<1> DEFINE L == b + 1
           V == SUBSET Seq(S)
           marks(a) == {k \in a..b : t[k] = c}
           more(a, m, g) == {<<v>> \o x : v \in item[a][m - 1], x \in g[m + 1]}
           make(a, g) == {<<v>> : v \in item[a][b]} \cup UNION {more(a, m, g) : m \in marks(a)}
           splits(a, g, r) ==
              \/ \E v \in item[a][b] : r = <<v>>
              \/ \E m \in marks(a) : \E v \in item[a][m - 1], x \in g[m + 1] : r = <<v>> \o x
           body(f) == [a \in 1..L |-> make(a, f)]
           G == [n \in 1..L |-> [g \in [(n + 1)..L -> V] |-> make(n, g)]]
<1>1. L \in Int /\ 1 \in Int
  OBVIOUS
<1>2. ASSUME NEW n \in 1..L, NEW m \in marks(n)
      PROVE  m \in n..b /\ m + 1 \in (n + 1)..L /\ m - 1 \in 0..b /\ b \in 0..b
  OBVIOUS
<1>14. \A a, m : m \in marks(a) <=> m \in a..b /\ t[m] = c
  OBVIOUS
<1>0. ASSUME NEW n, NEW g, NEW r
      PROVE  r \in make(n, g) <=> splits(n, g, r)
  <2>1. \A m : r \in more(n, m, g) <=> \E v \in item[n][m - 1], x \in g[m + 1] : r = <<v>> \o x
    OBVIOUS
  <2> HIDE DEF more, marks
  <2> QED
    BY <2>1
<1> HIDE DEF make, marks, splits
<1>3. ASSUME NEW n \in 1..L, NEW g, \A k \in (n + 1)..L : g[k] \in V
      PROVE  make(n, g) \in V
  <2>0. \A e \in 0..b : item[n][e] \in SUBSET S
    BY DEF IsItems
  <2>1. \A v \in item[n][b] : <<v>> \in Seq(S)
    BY <2>0
  <2>2. ASSUME NEW m \in marks(n), NEW v \in item[n][m - 1], NEW x \in g[m + 1]
        PROVE  <<v>> \o x \in Seq(S)
    <3>1. m + 1 \in (n + 1)..L /\ m - 1 \in 0..b
      BY <1>2
    <3>2. v \in S /\ x \in Seq(S)
      BY <1>3, <2>0, <3>1
    <3>3. <<v>> \in Seq(S)
      BY <3>2
    <3> QED
      BY <3>2, <3>3
  <2>3. ASSUME NEW r \in make(n, g) PROVE r \in Seq(S)
    <3> HIDE DEF L, V, G, body, more
    <3>1. splits(n, g, r)
      BY <1>0
    <3> QED
      BY <2>1, <2>2, <3>1 DEF splits
  <2> QED
    BY <2>3
<1>4. ASSUME NEW n \in 1..L, NEW g, NEW h, \A k \in (n + 1)..L : g[k] = h[k]
      PROVE  make(n, g) = make(n, h)
  <2>1. \A m \in marks(n) : g[m + 1] = h[m + 1]
    BY <1>2, <1>4
  <2>2. ASSUME NEW r PROVE r \in make(n, g) <=> r \in make(n, h)
    <3> HIDE DEF L, V, G, body, more
    <3>1. splits(n, g, r) <=> splits(n, h, r)
      BY <2>1 DEF splits
    <3> QED
      BY <1>0, <3>1
  <2> QED
    BY <2>2
<1>5. StaysWithinDown(G, V, 1, L)
  <2> SUFFICES ASSUME NEW n \in 1..L, NEW g \in [(n + 1)..L -> V] PROVE G[n][g] \in V
    BY DEF StaysWithinDown
  <2>1. G[n][g] = make(n, g)
    OBVIOUS
  <2> HIDE DEF G, V, L
  <2> QED
    BY <1>3, <2>1
<1>6. ASSUME NEW f, \A n \in 1..L : f[n] \in V, NEW n \in 1..L
      PROVE  G[n][[k \in (n + 1)..L |-> f[k]]] = make(n, f)
  <2> DEFINE g == [k \in (n + 1)..L |-> f[k]]
  <2>1. g \in [(n + 1)..L -> V]
    <3>1. \A k \in (n + 1)..L : k \in 1..L
      OBVIOUS
    <3> HIDE DEF L, V
    <3> QED
      BY <1>6, <3>1
  <2>2. G[n][g] = make(n, g)
    BY <2>1
  <2>3. \A k \in (n + 1)..L : g[k] = f[k]
    OBVIOUS
  <2> HIDE DEF g, G
  <2>4. make(n, g) = make(n, f)
    BY <1>4, <2>3
  <2> QED
    BY <2>2, <2>4 DEF g
<1>7. PICK f \in [1..L -> V] : MadeByDown(f, G, 1, L)
  <2> HIDE DEF G, L, V
  <2> QED
    BY <1>1, <1>5, DownRecursion
<1>8. f = body(f)
  <2>1. \A n \in 1..L : f[n] \in V
    BY <1>7
  <2>2. \A n \in 1..L : f[n] = make(n, f)
    <3> HIDE DEF G, V, L
    <3> QED
      BY <1>6, <1>7, <2>1 DEF MadeByDown
  <2> HIDE DEF V, L, G
  <2> QED
    BY <1>7, <2>2
<1> DEFINE list == CHOOSE h : h = body(h)
<1>9. list = body(list)
  BY <1>8
<1>10. Separated(item, c, t, b) = list
  BY DEF Separated, make, more, marks
<1> HIDE DEF list
<1>11. \A n \in 1..L : list[n] = make(n, list)
  BY <1>9
<1>12. \A n \in 1..L : list[n] \in V
  <2> DEFINE T == {n \in 1..L : list[n] \in V}
  <2>1. ASSUME NEW n \in 1..L, (n + 1)..L \subseteq T PROVE n \in T
    <3>1. \A k \in (n + 1)..L : list[k] \in V
      BY <2>1
    <3>2. list[n] \in V
      <4> HIDE DEF V, L
      <4> QED
        BY <1>3, <1>11, <3>1
    <3> QED
      BY <3>2
  <2>2. 1..L \subseteq T
    <3> HIDE DEF T, L
    <3> QED
      BY <1>1, <2>1, DownInduction
  <2> QED
    BY <2>2
<1>13. ASSUME NEW a \in 1..L, NEW r
       PROVE  r \in list[a] <=> Separates(r, item, c, t, b, a, list)
  <2>1. list[a] = make(a, list)
    BY <1>11
  <2> HIDE DEF L, V, G, body, more, make, marks
  <2>2. r \in list[a] <=> splits(a, list, r)
    BY <1>0, <2>1
  <2> QED
    BY <1>14, <2>2 DEF Separates, splits
<1> QED
  BY <1>10, <1>12, <1>13

\* What a quotation is: nothing at its end, else a rune that is neither the
\* quote nor a backslash, or a backslash and any rune, before the rest.
Quotes(s, t, q, b, j, rest) ==
    IF j > b THEN s = << >>
    ELSE IF t[j] = "\\" THEN j < b /\ \E r \in rest[j + 2] : s = <<t[j + 1]>> \o r
    ELSE t[j] # q /\ \E r \in rest[j + 1] : s = <<t[j]>> \o r

\* Quotations is what its recursive definition says.
LEMMA QuotationSteps ==
    ASSUME NEW R, NEW t \in Seq(R), NEW q, NEW b \in 0..Len(t)
    PROVE  \A j \in 1..(b + 1) :
              /\ Quotations(t, q, b)[j] \subseteq Seq(R)
              /\ \A s : s \in Quotations(t, q, b)[j] <=> Quotes(s, t, q, b, j, Quotations(t, q, b))
<1> DEFINE L == b + 1
           V == SUBSET Seq(R)
           behind(j, g) == {<<t[j + 1]>> \o r : r \in g[j + 2]}
           next(j, g) == {<<t[j]>> \o r : r \in g[j + 1]}
           make(j, g) == IF j > b THEN {<< >>}
                         ELSE IF t[j] = "\\" THEN IF j = b THEN {} ELSE behind(j, g)
                         ELSE IF t[j] = q THEN {} ELSE next(j, g)
           body(f) == [j \in 1..L |-> make(j, f)]
           G == [n \in 1..L |-> [g \in [(n + 1)..L -> V] |-> make(n, g)]]
<1>1. L \in Int /\ 1 \in Int /\ b \in Nat
  OBVIOUS
<1>2. ASSUME NEW n \in 1..L
      PROVE  /\ n <= b => t[n] \in R /\ n + 1 \in (n + 1)..L
             /\ n < b => t[n + 1] \in R /\ n + 2 \in (n + 1)..L
  <2>1. Len(t) \in Nat /\ \A k \in 1..Len(t) : t[k] \in R
    BY ElementOfSeq, LenProperties
  <2> QED
    BY <1>1, <2>1
<1>3. ASSUME NEW n \in 1..L, NEW g, NEW s
      PROVE  s \in make(n, g) <=> Quotes(s, t, q, b, n, g)
  <2>1. s \in behind(n, g) <=> \E r \in g[n + 2] : s = <<t[n + 1]>> \o r
    OBVIOUS
  <2>2. s \in next(n, g) <=> \E r \in g[n + 1] : s = <<t[n]>> \o r
    OBVIOUS
  <2>3. s \in {<< >>} <=> s = << >>
    OBVIOUS
  <2>4. n \in Int /\ (n <= b => (n # b <=> n < b)) /\ (n > b <=> ~(n <= b))
    BY <1>1
  <2> HIDE DEF behind, next, L, V, G, body
  <2>5. CASE n > b
    BY <2>3, <2>5 DEF Quotes
  <2>6. CASE n <= b /\ t[n] = "\\"
    <3>1. make(n, g) = IF n = b THEN {} ELSE behind(n, g)
      BY <2>4, <2>6
    <3>2. Quotes(s, t, q, b, n, g) <=> n < b /\ \E r \in g[n + 2] : s = <<t[n + 1]>> \o r
      BY <2>4, <2>6 DEF Quotes
    <3> QED
      BY <2>1, <2>4, <2>6, <3>1, <3>2
  <2>7. CASE n <= b /\ t[n] # "\\"
    <3>1. make(n, g) = IF t[n] = q THEN {} ELSE next(n, g)
      BY <2>4, <2>7
    <3>2. Quotes(s, t, q, b, n, g) <=> t[n] # q /\ \E r \in g[n + 1] : s = <<t[n]>> \o r
      BY <2>4, <2>7 DEF Quotes
    <3> QED
      BY <2>2, <3>1, <3>2
  <2> QED
    BY <2>4, <2>5, <2>6, <2>7
<1>4. ASSUME NEW n \in 1..L, NEW g, NEW h, \A k \in (n + 1)..L : g[k] = h[k], NEW s
      PROVE  Quotes(s, t, q, b, n, g) <=> Quotes(s, t, q, b, n, h)
  <2>1. n <= b => g[n + 1] = h[n + 1]
    BY <1>2, <1>4
  <2>2. n < b => g[n + 2] = h[n + 2]
    BY <1>2, <1>4
  <2>3. n \in Int /\ (n > b <=> ~(n <= b)) /\ (n < b => n <= b)
    BY <1>1
  <2> DEFINE second(f) == n < b /\ \E r \in f[n + 2] : s = <<t[n + 1]>> \o r
             first(f) == \E r \in f[n + 1] : s = <<t[n]>> \o r
  <2> HIDE DEF L, V, G, body, make
  <2>4. second(g) <=> second(h)
    BY <2>2
  <2>5. n <= b => (first(g) <=> first(h))
    BY <2>1
  <2>6. \A f : Quotes(s, t, q, b, n, f) <=> IF n > b THEN s = << >>
                                            ELSE IF t[n] = "\\" THEN second(f) ELSE t[n] # q /\ first(f)
    BY DEF Quotes
  <2> HIDE DEF first, second
  <2>7. Quotes(s, t, q, b, n, g) <=> IF n > b THEN s = << >>
                                     ELSE IF t[n] = "\\" THEN second(g) ELSE t[n] # q /\ first(g)
    BY <2>6
  <2>8. Quotes(s, t, q, b, n, h) <=> IF n > b THEN s = << >>
                                     ELSE IF t[n] = "\\" THEN second(h) ELSE t[n] # q /\ first(h)
    BY <2>6
  <2> QED
    BY <2>3, <2>4, <2>5, <2>7, <2>8
<1>5. ASSUME NEW n \in 1..L, NEW g, \A k \in (n + 1)..L : g[k] \in V, NEW s, Quotes(s, t, q, b, n, g)
      PROVE  s \in Seq(R)
  <2>1. n <= b => g[n + 1] \in V /\ t[n] \in R
    BY <1>2, <1>5
  <2>2. n < b => g[n + 2] \in V /\ t[n + 1] \in R
    BY <1>2, <1>5
  <2>3. ASSUME NEW c \in R, NEW r \in Seq(R) PROVE <<c>> \o r \in Seq(R)
    <3>1. <<c>> \in Seq(R)
      OBVIOUS
    <3> QED
      BY <3>1
  <2> HIDE DEF L, G, body, make
  <2>4. CASE n > b
    BY <1>5, <2>4 DEF Quotes
  <2>5. CASE n <= b /\ t[n] = "\\"
    <3>0. ~(n > b)
      BY <1>1, <2>5
    <3>1. n < b /\ \E r \in g[n + 2] : s = <<t[n + 1]>> \o r
      BY <1>5, <2>5, <3>0 DEF Quotes
    <3>2. PICK r \in g[n + 2] : s = <<t[n + 1]>> \o r
      BY <3>1
    <3>3. t[n + 1] \in R /\ r \in Seq(R)
      BY <2>2, <3>1
    <3> QED
      BY <2>3, <3>2, <3>3
  <2>6. CASE n <= b /\ t[n] # "\\"
    <3>1. PICK r \in g[n + 1] : s = <<t[n]>> \o r
      BY <1>1, <1>5, <2>6 DEF Quotes
    <3>2. t[n] \in R /\ r \in Seq(R)
      BY <2>1, <2>6
    <3> QED
      BY <2>3, <3>1, <3>2
  <2>7. n \in Int
    BY <1>1 DEF L
  <2> QED
    BY <1>1, <2>4, <2>5, <2>6, <2>7
<1> HIDE DEF make
<1>6. ASSUME NEW n \in 1..L, NEW g, NEW h, \A k \in (n + 1)..L : g[k] = h[k]
      PROVE  make(n, g) = make(n, h)
  <2>1. ASSUME NEW s PROVE s \in make(n, g) <=> s \in make(n, h)
    <3> HIDE DEF L
    <3> QED
      BY <1>3, <1>4, <1>6
  <2> QED
    BY <2>1
<1>7. ASSUME NEW n \in 1..L, NEW g, \A k \in (n + 1)..L : g[k] \in V
      PROVE  make(n, g) \in V
  <2>1. ASSUME NEW s \in make(n, g) PROVE s \in Seq(R)
    <3> HIDE DEF L, V
    <3> QED
      BY <1>3, <1>5, <1>7
  <2> QED
    BY <2>1
<1>8. StaysWithinDown(G, V, 1, L)
  <2> SUFFICES ASSUME NEW n \in 1..L, NEW g \in [(n + 1)..L -> V] PROVE G[n][g] \in V
    BY DEF StaysWithinDown
  <2>1. G[n][g] = make(n, g)
    OBVIOUS
  <2> HIDE DEF G, V, L
  <2> QED
    BY <1>7, <2>1
<1>9. ASSUME NEW f, \A n \in 1..L : f[n] \in V, NEW n \in 1..L
      PROVE  G[n][[k \in (n + 1)..L |-> f[k]]] = make(n, f)
  <2> DEFINE g == [k \in (n + 1)..L |-> f[k]]
  <2>1. g \in [(n + 1)..L -> V]
    <3>1. \A k \in (n + 1)..L : k \in 1..L
      BY <1>1
    <3> HIDE DEF L, V
    <3> QED
      BY <1>9, <3>1
  <2>2. G[n][g] = make(n, g)
    BY <2>1
  <2>3. \A k \in (n + 1)..L : g[k] = f[k]
    OBVIOUS
  <2> HIDE DEF g, G
  <2>4. make(n, g) = make(n, f)
    BY <1>6, <2>3
  <2> QED
    BY <2>2, <2>4 DEF g
<1>10. PICK f \in [1..L -> V] : MadeByDown(f, G, 1, L)
  <2> HIDE DEF G, L, V
  <2> QED
    BY <1>1, <1>8, DownRecursion
<1>11. f = body(f)
  <2>1. \A n \in 1..L : f[n] \in V
    BY <1>10
  <2>2. \A n \in 1..L : f[n] = make(n, f)
    <3> HIDE DEF G, V, L
    <3> QED
      BY <1>9, <1>10, <2>1 DEF MadeByDown
  <2> HIDE DEF V, L, G
  <2> QED
    BY <1>10, <2>2
<1> DEFINE rest == CHOOSE h : h = body(h)
<1>12. rest = body(rest)
  BY <1>11
<1>13. Quotations(t, q, b) = rest
  BY DEF Quotations, make, behind, next
<1> HIDE DEF rest
<1>14. \A n \in 1..L : rest[n] = make(n, rest)
  BY <1>12
<1>15. \A n \in 1..L : rest[n] \in V
  <2> DEFINE T == {n \in 1..L : rest[n] \in V}
  <2>1. ASSUME NEW n \in 1..L, (n + 1)..L \subseteq T PROVE n \in T
    <3>1. \A k \in (n + 1)..L : rest[k] \in V
      BY <2>1
    <3>2. rest[n] \in V
      <4> HIDE DEF V, L
      <4> QED
        BY <1>7, <1>14, <3>1
    <3> QED
      BY <3>2
  <2>2. 1..L \subseteq T
    <3> HIDE DEF T, L
    <3> QED
      BY <1>1, <2>1, DownInduction
  <2> QED
    BY <2>2
<1>16. ASSUME NEW j \in 1..L, NEW s
       PROVE  s \in rest[j] <=> Quotes(s, t, q, b, j, rest)
  <2> HIDE DEF L, V, G, body
  <2>1. rest[j] = make(j, rest)
    BY <1>14
  <2> QED
    BY <1>3, <2>1
<1> QED
  BY <1>13, <1>15, <1>16

-----------------------------------------------------------------------------
(* What a text denotes is a pipeline of steps with arguments. *)

ArgValues  == {Arg(s, None, None) : s \in Seq(Runes)} \cup {Arg(None, n, None) : n \in Int}
StepValues == [Name : Seq(Runes), Args : Seq(ArgValues)]

\* What Atoi accepts is an integer.
LEMMA AtoiTyped ==
    ASSUME NEW s, Atoi(s) # None
    PROVE  Atoi(s) \in Int
<1> DEFINE digits == IF s[1] = "-" THEN Tail(s) ELSE s
           value == CHOOSE v : v = [k \in 0..Len(digits) |->
                                      IF k = 0 THEN 0 ELSE 10 * v[k - 1] + ValueOf[digits[k]]]
           n == IF s[1] = "-" THEN -value[Len(digits)] ELSE value[Len(digits)]
<1>1. Atoi(s) = IF ToSet(digits) \subseteq DOMAIN ValueOf /\ n \in (-MaxInt - 1)..MaxInt THEN n ELSE None
  BY DEF Atoi
<1> HIDE DEF n, digits
<1>2. n \in (-MaxInt - 1)..MaxInt
  BY <1>1
<1>3. n \in Int
  BY <1>2, RuneAssumption
<1> QED
  BY <1>1, <1>3

\* A part of a text is a text.
LEMMA PartTyped ==
    ASSUME NEW t \in Seq(Runes), NEW a \in Int, NEW b \in Int, a >= 1, b <= Len(t)
    PROVE  SubSeq(t, a, b) \in Seq(Runes)
OBVIOUS

\* A name is a text.
LEMMA IdentifiersTyped ==
    ASSUME NEW t \in Seq(Runes), NEW a \in Int, NEW b \in Int, a >= 1, b <= Len(t)
    PROVE  Identifiers(t, a, b) \subseteq Seq(Runes)
<1>1. \A x \in Begins(t, a, b), y \in Closes(t, a, b) : SubSeq(t, x, y) \in Seq(Runes)
  <2> TAKE x \in Begins(t, a, b), y \in Closes(t, a, b)
  <2>1. x \in Int /\ y \in Int /\ x >= 1 /\ y <= Len(t)
    BY LenProperties DEF Begins, Closes
  <2> QED
    BY <2>1, PartTyped
<1>2. ASSUME NEW n \in Identifiers(t, a, b) PROVE n \in Seq(Runes)
  <2>1. \E x \in Begins(t, a, b), y \in Closes(t, a, b) : n = SubSeq(t, x, y)
    BY DEF Identifiers
  <2> QED
    BY <1>1, <2>1
<1> QED
  BY <1>2

\* What stands as an argument is a text or an integer.
LEMMA ArgumentsTyped ==
    ASSUME NEW t \in Seq(Runes), NEW a \in Int, NEW b \in Int, a >= 1, b <= Len(t)
    PROVE  Arguments(t, a, b) \subseteq ArgValues
<1>1. ASSUME NEW x \in Begins(t, a, b), NEW y \in Closes(t, a, b)
      PROVE  Strings(t, x, y) \subseteq ArgValues /\ Numbers(t, x, y) \subseteq ArgValues
  <2>1. x \in Int /\ y \in Int /\ x >= 1 /\ y <= Len(t) /\ Len(t) \in Nat
    BY LenProperties DEF Begins, Closes
  <2>2. ASSUME NEW v \in Strings(t, x, y) PROVE v \in ArgValues
    <3>1. x < y /\ \E s \in Quotations(t, t[x], y - 1)[x + 1] : v = Arg(s, None, None)
      BY DEF Strings
    <3>2. y - 1 \in 0..Len(t) /\ x + 1 \in 1..((y - 1) + 1)
      BY <2>1, <3>1
    <3>3. Quotations(t, t[x], y - 1)[x + 1] \subseteq Seq(Runes)
      BY <3>2, QuotationSteps
    <3> QED
      BY <3>1, <3>3 DEF ArgValues
  <2>3. ASSUME NEW v \in Numbers(t, x, y) PROVE v \in ArgValues
    <3>1. v = Arg(None, Atoi(SubSeq(t, x, y)), None) /\ Atoi(SubSeq(t, x, y)) # None
      BY DEF Numbers
    <3>2. Atoi(SubSeq(t, x, y)) \in Int
      BY <3>1, AtoiTyped
    <3> QED
      BY <3>1, <3>2 DEF ArgValues
  <2> QED
    BY <2>2, <2>3
<1> QED
  BY <1>1 DEF Arguments

\* Lists is what its recursive definition says: an argument, or an argument, a
\* comma and a list.
ListOf(r, t, b, a) ==
    \/ \E v \in Arguments(t, a, b) : r = <<v>>
    \/ \E m \in a..b : /\ t[m] = ","
                       /\ \E v \in Arguments(t, a, m - 1), x \in Lists(t, b)[m + 1] : r = <<v>> \o x

\* The same, for the arguments of a text.
LEMMA ListSteps ==
    ASSUME NEW t \in Seq(Runes), NEW b \in 0..Len(t), NEW a \in 1..(b + 1)
    PROVE  /\ Lists(t, b)[a] \subseteq Seq(ArgValues)
           /\ \A r : r \in Lists(t, b)[a] <=> ListOf(r, t, b, a)
<1> DEFINE item == [k \in 1..(b + 1) |-> [e \in 0..b |-> Arguments(t, k, e)]]
<1>1. b \in Nat /\ Len(t) \in Nat /\ b <= Len(t) /\ a \in Nat /\ b \in 0..b
  BY LenProperties
<1>2. \A k \in 1..(b + 1), e \in 0..b : item[k][e] = Arguments(t, k, e)
  OBVIOUS
<1>3. Lists(t, b) = Separated(item, ",", t, b)
  BY DEF Lists
<1> HIDE DEF item
<1>4. IsItems(item, ArgValues, b)
  <2> SUFFICES ASSUME NEW k \in 1..(b + 1), NEW e \in 0..b PROVE item[k][e] \subseteq ArgValues
    BY DEF IsItems
  <2>1. Arguments(t, k, e) \subseteq ArgValues
    BY <1>1, ArgumentsTyped
  <2> QED
    BY <1>2, <2>1
<1>5. /\ Separated(item, ",", t, b)[a] \subseteq Seq(ArgValues)
      /\ \A r : r \in Separated(item, ",", t, b)[a] <=>
                Separates(r, item, ",", t, b, a, Separated(item, ",", t, b))
  BY <1>1, <1>4, SeparatedSteps
<1>6. ASSUME NEW r
      PROVE  Separates(r, item, ",", t, b, a, Lists(t, b)) <=> ListOf(r, t, b, a)
  <2>1. item[a][b] = Arguments(t, a, b)
    BY <1>1, <1>2
  <2>2. \A m \in a..b : item[a][m - 1] = Arguments(t, a, m - 1)
    <3> TAKE m \in a..b
    <3>1. m - 1 \in 0..b
      BY <1>1
    <3> QED
      BY <1>2, <3>1
  <2> QED
    BY <2>1, <2>2 DEF Separates, ListOf
<1> QED
  BY <1>3, <1>5, <1>6

\* A step is a name and its arguments.
LEMMA StepsTyped ==
    ASSUME NEW t \in Seq(Runes), NEW a \in Int, NEW b \in Int, a >= 1, b <= Len(t)
    PROVE  /\ Steps(t, a, b) \subseteq StepValues
           /\ \A s : s \in Steps(t, a, b) <=>
                 \E o \in a..b, e \in Closes(t, a, b) :
                    /\ o < e /\ t[o] = "(" /\ t[e] = ")"
                    /\ \E n \in Identifiers(t, a, o - 1), l \in Brackets(t, o + 1, e - 1) :
                          s = [Name |-> n, Args |-> l]
<1>1. ASSUME NEW s
      PROVE  s \in Steps(t, a, b) <=>
                 \E o \in a..b, e \in Closes(t, a, b) :
                    /\ o < e /\ t[o] = "(" /\ t[e] = ")"
                    /\ \E n \in Identifiers(t, a, o - 1), l \in Brackets(t, o + 1, e - 1) :
                          s = [Name |-> n, Args |-> l]
  <2> DEFINE K == {k \in (a..b) \X Closes(t, a, b) : k[1] < k[2] /\ t[k[1]] = "(" /\ t[k[2]] = ")"}
             of(k) == {[Name |-> n, Args |-> l] :
                          n \in Identifiers(t, a, k[1] - 1), l \in Brackets(t, k[1] + 1, k[2] - 1)}
  <2>1. s \in Steps(t, a, b) <=> \E k \in K : s \in of(k)
    BY DEF Steps
  <2>2. \A k : s \in of(k) <=> \E n \in Identifiers(t, a, k[1] - 1), l \in Brackets(t, k[1] + 1, k[2] - 1) :
                                 s = [Name |-> n, Args |-> l]
    OBVIOUS
  <2>3. \A o \in a..b, e \in Closes(t, a, b) : o < e /\ t[o] = "(" /\ t[e] = ")" <=> <<o, e>> \in K
    OBVIOUS
  <2>4. \A k \in K : /\ k = <<k[1], k[2]>> /\ k[1] \in a..b /\ k[2] \in Closes(t, a, b)
                     /\ k[1] < k[2] /\ t[k[1]] = "(" /\ t[k[2]] = ")"
    OBVIOUS
  <2>5. \A o, e : <<o, e>>[1] = o /\ <<o, e>>[2] = e
    OBVIOUS
  <2> HIDE DEF K, of
  <2>6. ASSUME NEW k \in K, s \in of(k)
        PROVE  \E o \in a..b, e \in Closes(t, a, b) :
                    /\ o < e /\ t[o] = "(" /\ t[e] = ")"
                    /\ \E n \in Identifiers(t, a, o - 1), l \in Brackets(t, o + 1, e - 1) :
                          s = [Name |-> n, Args |-> l]
    BY <2>2, <2>4, <2>6
  <2>7. ASSUME NEW o \in a..b, NEW e \in Closes(t, a, b), o < e, t[o] = "(", t[e] = ")",
               \E n \in Identifiers(t, a, o - 1), l \in Brackets(t, o + 1, e - 1) :
                  s = [Name |-> n, Args |-> l]
        PROVE  \E k \in K : s \in of(k)
    <3>1. <<o, e>> \in K
      BY <2>3, <2>7
    <3>2. s \in of(<<o, e>>)
      BY <2>2, <2>5, <2>7
    <3> QED
      BY <3>1, <3>2
  <2> QED
    BY <2>1, <2>6, <2>7
<1>2. ASSUME NEW s \in Steps(t, a, b) PROVE s \in StepValues
  <2>1. PICK o \in a..b, e \in Closes(t, a, b) :
                /\ o < e
                /\ \E n \in Identifiers(t, a, o - 1), l \in Brackets(t, o + 1, e - 1) :
                      s = [Name |-> n, Args |-> l]
    BY <1>1
  <2>2. /\ o \in Int /\ e \in Int /\ o - 1 \in Int /\ o - 1 <= Len(t)
        /\ e - 1 \in 0..Len(t) /\ o + 1 \in 1..((e - 1) + 1)
    BY <2>1, LenProperties DEF Closes
  <2>3. Identifiers(t, a, o - 1) \subseteq Seq(Runes)
    BY <2>2, IdentifiersTyped
  <2>4. Brackets(t, o + 1, e - 1) \subseteq Seq(ArgValues)
    <3>1. Lists(t, e - 1)[o + 1] \subseteq Seq(ArgValues)
      BY <2>2, ListSteps
    <3>2. << >> \in Seq(ArgValues)
      BY EmptySeq
    <3> QED
      BY <3>1, <3>2 DEF Brackets
  <2> QED
    BY <2>1, <2>3, <2>4 DEF StepValues
<1> QED
  BY <1>1, <1>2

\* Tails is what its recursive definition says: a step, or a step, a bar and
\* more steps.
TailOf(r, t, a) ==
    \/ \E s \in Steps(t, a, Len(t)) : r = <<s>>
    \/ \E m \in a..Len(t) : /\ t[m] = "|"
                            /\ \E s \in Steps(t, a, m - 1), x \in Tails(t)[m + 1] : r = <<s>> \o x

\* The same, for the steps of a text.
LEMMA TailSteps ==
    ASSUME NEW t \in Seq(Runes), NEW a \in 1..(Len(t) + 1)
    PROVE  /\ Tails(t)[a] \subseteq Seq(StepValues)
           /\ \A r : r \in Tails(t)[a] <=> TailOf(r, t, a)
<1> DEFINE b == Len(t)
           item == [k \in 1..(b + 1) |-> [e \in 0..b |-> Steps(t, k, e)]]
<1>1. b \in Nat /\ a \in Nat /\ b \in 0..b
  BY LenProperties
<1>2. \A k \in 1..(b + 1), e \in 0..b : item[k][e] = Steps(t, k, e)
  OBVIOUS
<1>3. Tails(t) = Separated(item, "|", t, b)
  BY DEF Tails
<1> HIDE DEF item
<1>4. IsItems(item, StepValues, b)
  <2> SUFFICES ASSUME NEW k \in 1..(b + 1), NEW e \in 0..b PROVE item[k][e] \subseteq StepValues
    BY DEF IsItems
  <2>1. Steps(t, k, e) \subseteq StepValues
    BY <1>1, StepsTyped
  <2> QED
    BY <1>2, <2>1
<1>5. /\ Separated(item, "|", t, b)[a] \subseteq Seq(StepValues)
      /\ \A r : r \in Separated(item, "|", t, b)[a] <=>
                Separates(r, item, "|", t, b, a, Separated(item, "|", t, b))
  <2> HIDE DEF b
  <2>1. a \in 1..(b + 1)
    BY DEF b
  <2> QED
    BY <1>1, <1>4, <2>1, SeparatedSteps
<1>6. ASSUME NEW r
      PROVE  Separates(r, item, "|", t, b, a, Tails(t)) <=> TailOf(r, t, a)
  <2>1. item[a][b] = Steps(t, a, b)
    BY <1>1, <1>2
  <2>2. \A m \in a..b : item[a][m - 1] = Steps(t, a, m - 1)
    <3> TAKE m \in a..b
    <3>1. m - 1 \in 0..b
      BY <1>1
    <3> QED
      BY <1>2, <3>1
  <2> QED
    BY <2>1, <2>2 DEF Separates, TailOf
<1> QED
  BY <1>3, <1>5, <1>6

-----------------------------------------------------------------------------
(* What the rest of a text may still add to a pipeline, for each place where *)
(* the parser may stand: p is denoted by what was read and the text t from   *)
(* place a on.                                                               *)

\* The quotes, which the solver cannot read where it counts.
IsQuote(c) == c \in {"\"", "'"}

\* After white space comes one of these places.
Comes(t, a, M) == \E m \in M : m >= a /\ Blank(t, a, m - 1)

IsMarks(t, M) == M \subseteq 1..Len(t) /\ \A m \in M : t[m] \notin Space

\* Behind a bar.
ThenStep(t, p, P, a) == \E r \in Tails(t)[a] : p = P \o r

Bars(t, p, P) == {m \in 1..Len(t) : t[m] = "|" /\ ThenStep(t, p, P, m + 1)}

\* Behind the steps P.
ThenEnd(t, p, P, a) == (Blank(t, a, Len(t)) /\ p = P) \/ Comes(t, a, Bars(t, p, P))

WithStep(P, n, l) == Append(P, [Name |-> n, Args |-> l])

\* Behind a comma after the arguments l of a step n.
ThenArg(t, p, P, n, l, a) ==
    \E e \in a..Len(t) : /\ t[e] = ")"
                         /\ \E r \in Lists(t, e - 1)[a] : ThenEnd(t, p, WithStep(P, n, l \o r), e + 1)

Closings(t, p, P, n, l)   == {e \in 1..Len(t) : t[e] = ")" /\ ThenEnd(t, p, WithStep(P, n, l), e + 1)}
Commas(t, p, P, n, l) == {m \in 1..Len(t) : t[m] = "," /\ ThenArg(t, p, P, n, l, m + 1)}

\* Behind an argument, the opening bracket, and the name.
ThenMore(t, p, P, n, l, a) == Comes(t, a, Closings(t, p, P, n, l) \cup Commas(t, p, P, n, l))
ThenArgs(t, p, P, n, a)    == Comes(t, a, Closings(t, p, P, n, << >>)) \/ ThenArg(t, p, P, n, << >>, a)
Opens(t, p, P, n)          == {o \in 1..Len(t) : t[o] = "(" /\ ThenArgs(t, p, P, n, o + 1)}
ThenOpen(t, p, P, n, a)    == Comes(t, a, Opens(t, p, P, n))

\* Within a name, a number and a string that w begins.
InName(t, p, P, w, a) ==
    \E e \in (a - 1)..Len(t) : /\ \A j \in a..e : t[j] \in isIdentPart
                               /\ ThenOpen(t, p, P, w \o SubSeq(t, a, e), e + 1)

IsNumber(w)   == w # <<"-">> /\ Atoi(w) # None
WithText(l, w)   == Append(l, Arg(w, None, None))
WithNumber(l, w) == Append(l, Arg(None, Atoi(w), None))

InNumber(t, p, P, n, l, w, a) ==
    \E e \in (a - 1)..Len(t) : /\ \A j \in a..e : t[j] \in Digits
                               /\ IsNumber(w \o SubSeq(t, a, e))
                               /\ ThenMore(t, p, P, n, WithNumber(l, w \o SubSeq(t, a, e)), e + 1)

InString(t, p, P, n, l, w, q, a) ==
    \E y \in a..Len(t) : /\ t[y] = q
                         /\ \E s \in Quotations(t, q, y - 1)[a] :
                               ThenMore(t, p, P, n, WithText(l, w \o s), y + 1)

\* The places where a name and an argument may begin.
Names(t, p, P) ==
    {x \in 1..Len(t) : t[x] \in isIdentStart /\ InName(t, p, P, <<t[x]>>, x + 1)}

Values(t, p, P, n, l) ==
    {x \in 1..Len(t) : \/ IsQuote(t[x]) /\ InString(t, p, P, n, l, << >>, t[x], x + 1)
                       \/ t[x] \in {"-"} \cup Digits /\ InNumber(t, p, P, n, l, <<t[x]>>, x + 1)}

\* White space is passed.
LEMMA BlankNext ==
    ASSUME NEW t, NEW a \in Int, NEW b \in Int, a <= b
    PROVE  Blank(t, a, b) <=> t[a] \in Space /\ Blank(t, a + 1, b)
<1>1. a..b = {a} \cup ((a + 1)..b)
  OBVIOUS
<1> QED
  BY <1>1 DEF Blank

\* What comes after white space comes after the rest of it.
LEMMA ComesNext ==
    ASSUME NEW t, NEW M, IsMarks(t, M), NEW a \in Nat, t[a] \in Space
    PROVE  Comes(t, a, M) <=> Comes(t, a + 1, M)
<1>1. ASSUME NEW m \in M PROVE m >= a /\ Blank(t, a, m - 1) <=> m >= a + 1 /\ Blank(t, a + 1, m - 1)
  <2>1. m \in Int /\ m # a
    BY DEF IsMarks
  <2>2. CASE m >= a + 1
    <3>1. m - 1 \in Int /\ a <= m - 1 /\ m >= a
      BY <2>1, <2>2
    <3>2. Blank(t, a, m - 1) <=> Blank(t, a + 1, m - 1)
      BY <3>1, BlankNext
    <3> QED
      BY <2>2, <3>1, <3>2
  <2>3. CASE ~(m >= a + 1)
    BY <2>1, <2>3
  <2> QED
    BY <2>2, <2>3
<1> QED
  BY <1>1 DEF Comes

\* Where no white space is, what comes is there.
LEMMA ComesHere ==
    ASSUME NEW t, NEW M, IsMarks(t, M), NEW a \in Nat, t[a] \notin Space
    PROVE  Comes(t, a, M) <=> a \in M
<1>1. ASSUME NEW m \in M PROVE m >= a /\ Blank(t, a, m - 1) <=> m = a
  <2>1. m \in Int
    BY DEF IsMarks
  <2>2. CASE m > a
    <3>1. a \in a..(m - 1) /\ m # a
      BY <2>1, <2>2
    <3> QED
      BY <3>1 DEF Blank
  <2>3. CASE m = a
    <3>1. a..(m - 1) = {} /\ m >= a
      BY <2>3
    <3> QED
      BY <2>3, <3>1 DEF Blank
  <2>4. CASE ~(m >= a)
    BY <2>1, <2>4
  <2> QED
    BY <2>1, <2>2, <2>3, <2>4
<1> QED
  BY <1>1 DEF Comes

\* Nothing comes behind the end.
LEMMA ComesEnd ==
    ASSUME NEW t, Len(t) \in Nat, NEW M, IsMarks(t, M), NEW a \in Nat, a > Len(t)
    PROVE  ~Comes(t, a, M)
<1>1. \A m \in M : m \in Int /\ ~(m >= a)
  BY DEF IsMarks
<1> QED
  BY <1>1 DEF Comes

\* The marks of the language are no white space.
LEMMA Marks ==
    ASSUME NEW t, NEW p, NEW P, NEW n, NEW l
    PROVE  /\ IsMarks(t, Bars(t, p, P)) /\ IsMarks(t, Names(t, p, P))
           /\ IsMarks(t, Closings(t, p, P, n, l)) /\ IsMarks(t, Commas(t, p, P, n, l))
           /\ IsMarks(t, Closings(t, p, P, n, l) \cup Commas(t, p, P, n, l))
           /\ IsMarks(t, Opens(t, p, P, n)) /\ IsMarks(t, Values(t, p, P, n, l))
<1>1. \A c \in Punctuation \cup Letters \cup Digits : c \notin Space
  BY RuneAssumption
<1>2. {"|", ")", ",", "(", "\"", "'", "-", "_"} \subseteq Punctuation
  BY DEF Punctuation
<1>3. isIdentStart \subseteq Letters \cup Punctuation
  BY <1>2 DEF isIdentStart
<1> HIDE DEF Punctuation
<1>4. IsMarks(t, Bars(t, p, P)) /\ IsMarks(t, Opens(t, p, P, n))
  BY <1>1, <1>2 DEF IsMarks, Bars, Opens
<1>5. IsMarks(t, Closings(t, p, P, n, l)) /\ IsMarks(t, Commas(t, p, P, n, l))
  BY <1>1, <1>2 DEF IsMarks, Closings, Commas
<1>6. IsMarks(t, Names(t, p, P))
  BY <1>1, <1>3 DEF IsMarks, Names
<1>7. IsMarks(t, Values(t, p, P, n, l))
  BY <1>1, <1>2 DEF IsMarks, Values, IsQuote
<1> QED
  BY <1>4, <1>5, <1>6, <1>7 DEF IsMarks

-----------------------------------------------------------------------------
(* How each rune decides what may still come. *)

\* The runes of punctuation are no parts of names, digits or white space, and
\* no part of a name is white space.
LEMMA RunesApart ==
    /\ \A c : c \in {"(", ")", ",", "|", "\\", "-"} \/ IsQuote(c) =>
          c \notin isIdentPart /\ c \notin Digits /\ c \notin Space
    /\ \A c \in isIdentPart : c \notin Space
    /\ Digits \subseteq isIdentPart /\ isIdentStart \subseteq isIdentPart
<1>1. "_" \in Punctuation /\ {"(", ")", ",", "|", "\"", "'", "\\", "-"} \subseteq Punctuation \ {"_"}
  BY DEF Punctuation
<1> QED
  BY <1>1, RuneAssumption DEF isIdentPart, isIdentStart, IsQuote

\* An element between what is before it and what is behind it.
MovesOver(w, c, r) == w \o (<<c>> \o r) = Append(w, c) \o r

\* One more element goes to the end of what is before it or to the front of
\* what is behind it.
LEMMA OneMore ==
    ASSUME NEW S, NEW w \in Seq(S), NEW c \in S, NEW r \in Seq(S)
    PROVE  MovesOver(w, c, r)
<1> DEFINE d == <<c>>
<1>1. d \in Seq(S) /\ Append(w, c) = w \o d
  OBVIOUS
<1>2. Associates(S)
  BY Associative
<1> HIDE DEF d
<1>3. w \o (d \o r) = (w \o d) \o r
  BY <1>1, <1>2 DEF Associates
<1> QED
  BY <1>1, <1>3 DEF d, MovesOver

\* One more rune of a part.
LEMMA PartNext ==
    ASSUME NEW t \in Seq(Runes), NEW w \in Seq(Runes), NEW a \in 1..Len(t), NEW e \in a..Len(t)
    PROVE  /\ w \o SubSeq(t, a, e) = Append(w, t[a]) \o SubSeq(t, a + 1, e)
           /\ SubSeq(t, a, e) = <<t[a]>> \o SubSeq(t, a + 1, e)
<1> DEFINE u == SubSeq(t, a, e)
           v == SubSeq(t, a + 1, e)
<1>1. /\ a \in Nat /\ e \in Nat /\ a >= 1 /\ a <= e /\ e <= Len(t) /\ Len(t) \in Nat
      /\ t[a] \in Runes
  BY LenProperties, ElementOfSeq
<1>2. /\ u \in Seq(Runes) /\ Len(u) = e - a + 1 /\ \A k \in 1..(e - a + 1) : u[k] = t[a + k - 1]
      /\ v \in Seq(Runes) /\ Len(v) = e - a /\ \A k \in 1..(e - a) : v[k] = t[a + k]
  <2>1. u \in Seq(Runes) /\ Len(u) = e - a + 1 /\ \A k \in 1..(e - a + 1) : u[k] = t[a + k - 1]
    BY <1>1
  <2>2. v \in Seq(Runes) /\ Len(v) = e - (a + 1) + 1 /\ \A k \in 1..(e - (a + 1) + 1) : v[k] = t[(a + 1) + k - 1]
    BY <1>1
  <2>3. e - (a + 1) + 1 = e - a /\ \A k \in Int : (a + 1) + k - 1 = a + k
    BY <1>1
  <2> QED
    BY <2>1, <2>2, <2>3
<1> HIDE DEF u, v
<1>3. u = <<t[a]>> \o v
  <2>0. <<t[a]>> \in Seq(Runes) /\ Len(<<t[a]>>) = 1
    BY <1>1
  <2>1. <<t[a]>> \o v \in Seq(Runes) /\ Len(<<t[a]>> \o v) = e - a + 1
    <3>1. <<t[a]>> \o v \in Seq(Runes) /\ Len(<<t[a]>> \o v) = 1 + Len(v)
      BY <1>2, <2>0, ConcatProperties
    <3> QED
      BY <1>1, <1>2, <3>1
  <2>2. ASSUME NEW k \in 1..(e - a + 1) PROVE u[k] = (<<t[a]>> \o v)[k]
    <3>1. CASE k = 1
      BY <1>1, <1>2, <3>1
    <3>2. CASE k # 1
      <4>1. k - 1 \in 1..(e - a) /\ a + (k - 1) = a + k - 1
        BY <1>1, <3>2
      <4>2. (<<t[a]>> \o v)[k] = v[k - 1]
        BY <1>1, <1>2, <4>1
      <4> QED
        BY <1>2, <4>1, <4>2
    <3> QED
      BY <3>1, <3>2
  <2> QED
    BY <1>2, <2>1, <2>2, SeqEqual
<1>4. w \o (<<t[a]>> \o v) = Append(w, t[a]) \o v
  <2>1. v \in Seq(Runes) /\ t[a] \in Runes
    BY <1>1, <1>2
  <2>2. MovesOver(w, t[a], v)
    BY <2>1, OneMore
  <2> QED
    BY <2>2 DEF MovesOver
<1> QED
  BY <1>3, <1>4 DEF u, v

\* No rune of a part.
LEMMA PartNone ==
    ASSUME NEW t \in Seq(Runes), NEW w \in Seq(Runes), NEW a \in Nat
    PROVE  w \o SubSeq(t, a, a - 1) = w
<1>1. SubSeq(t, a, a - 1) = << >>
  OBVIOUS
<1>2. w \o << >> = w
  BY ConcatEmptySeq
<1> QED
  BY <1>1, <1>2

\* A name goes on with a rune of names.
LEMMA NameGoesOn ==
    ASSUME NEW t \in Seq(Runes), NEW p, NEW P, NEW w \in Seq(Runes),
           NEW a \in 1..Len(t), t[a] \in isIdentPart
    PROVE  InName(t, p, P, w, a) <=> InName(t, p, P, Append(w, t[a]), a + 1)
<1>1. a \in Nat /\ Len(t) \in Nat /\ a <= Len(t)
  BY LenProperties
<1> DEFINE u(e) == w \o SubSeq(t, a, e)
           v(e) == Append(w, t[a]) \o SubSeq(t, a + 1, e)
<1>2. \A e \in a..Len(t) : u(e) = v(e)
  BY PartNext
<1>3. \A e \in a..Len(t) : (\A k \in a..e : t[k] \in isIdentPart) <=> \A k \in (a + 1)..e : t[k] \in isIdentPart
  <2> TAKE e \in a..Len(t)
  <2>1. a..e = {a} \cup ((a + 1)..e)
    BY <1>1
  <2> QED
    BY <2>1
<1> HIDE DEF u, v
<1>4. ~ThenOpen(t, p, P, u(a - 1), a)
  <2>1. t[a] \notin Space /\ t[a] # "("
    BY RunesApart
  <2>2. a \notin Opens(t, p, P, u(a - 1))
    BY <2>1 DEF Opens
  <2>3. IsMarks(t, Opens(t, p, P, u(a - 1)))
    BY Marks
  <2> QED
    BY <1>1, <2>1, <2>2, <2>3, ComesHere DEF ThenOpen
<1>5. (a - 1)..Len(t) = {a - 1} \cup (a..Len(t)) /\ (a + 1) - 1 = a /\ (a - 1) + 1 = a
  BY <1>1
<1>6. InName(t, p, P, w, a) <=>
        \E e \in (a - 1)..Len(t) : (\A k \in a..e : t[k] \in isIdentPart) /\ ThenOpen(t, p, P, u(e), e + 1)
  BY DEF InName, u
<1>7. InName(t, p, P, Append(w, t[a]), a + 1) <=>
        \E e \in a..Len(t) : (\A k \in (a + 1)..e : t[k] \in isIdentPart) /\ ThenOpen(t, p, P, v(e), e + 1)
  BY <1>5 DEF InName, v
<1> QED
  BY <1>2, <1>3, <1>4, <1>5, <1>6, <1>7

\* A name ends where no rune of names is.
LEMMA NameEnds ==
    ASSUME NEW t \in Seq(Runes), NEW p, NEW P, NEW w \in Seq(Runes),
           NEW a \in 1..(Len(t) + 1), a <= Len(t) => t[a] \notin isIdentPart
    PROVE  InName(t, p, P, w, a) <=> ThenOpen(t, p, P, w, a)
<1>1. a \in Nat /\ Len(t) \in Nat /\ a - 1 \in (a - 1)..Len(t) /\ (a - 1) + 1 = a
  BY LenProperties
<1>2. w \o SubSeq(t, a, a - 1) = w
  BY <1>1, PartNone
<1>3. \A k \in a..(a - 1) : t[k] \in isIdentPart
  BY <1>1
<1>4. ASSUME NEW e \in (a - 1)..Len(t), \A k \in a..e : t[k] \in isIdentPart PROVE e = a - 1
  <2>1. CASE e >= a
    <3>1. a \in a..e /\ a <= Len(t)
      BY <1>1, <2>1
    <3> QED
      BY <1>4, <3>1
  <2> QED
    BY <1>1, <2>1
<1> QED
  BY <1>1, <1>2, <1>3, <1>4 DEF InName

\* A number goes on with a digit.
LEMMA NumberGoesOn ==
    ASSUME NEW t \in Seq(Runes), NEW p, NEW P, NEW n, NEW l, NEW w \in Seq(Runes),
           NEW a \in 1..Len(t), t[a] \in Digits
    PROVE  InNumber(t, p, P, n, l, w, a) <=> InNumber(t, p, P, n, l, Append(w, t[a]), a + 1)
<1>1. a \in Nat /\ Len(t) \in Nat /\ a <= Len(t)
  BY LenProperties
<1> DEFINE u(e) == w \o SubSeq(t, a, e)
           v(e) == Append(w, t[a]) \o SubSeq(t, a + 1, e)
           more(x, e) == IsNumber(x) /\ ThenMore(t, p, P, n, WithNumber(l, x), e + 1)
<1>2. \A e \in a..Len(t) : u(e) = v(e)
  BY PartNext
<1>3. \A e \in a..Len(t) : (\A k \in a..e : t[k] \in Digits) <=> \A k \in (a + 1)..e : t[k] \in Digits
  <2> TAKE e \in a..Len(t)
  <2>1. a..e = {a} \cup ((a + 1)..e)
    BY <1>1
  <2> QED
    BY <2>1
<1> HIDE DEF u, v
<1>4. ~more(u(a - 1), a - 1)
  <2>1. t[a] \notin Space /\ t[a] # ")" /\ t[a] # ","
    BY RunesApart
  <2> DEFINE x == WithNumber(l, u(a - 1))
             M == Closings(t, p, P, n, x) \cup Commas(t, p, P, n, x)
  <2>2. a \notin M
    BY <2>1 DEF Closings, Commas
  <2>3. IsMarks(t, M)
    BY Marks
  <2>4. ~Comes(t, a, M)
    <3> HIDE DEF M
    <3> QED
      BY <1>1, <2>1, <2>2, <2>3, ComesHere
  <2>5. (a - 1) + 1 = a
    BY <1>1
  <2> QED
    BY <2>4, <2>5 DEF ThenMore
<1>5. (a - 1)..Len(t) = {a - 1} \cup (a..Len(t)) /\ (a + 1) - 1 = a
  BY <1>1
<1>6. InNumber(t, p, P, n, l, w, a) <=>
        \E e \in (a - 1)..Len(t) : (\A k \in a..e : t[k] \in Digits) /\ more(u(e), e)
  BY DEF InNumber, u
<1>7. InNumber(t, p, P, n, l, Append(w, t[a]), a + 1) <=>
        \E e \in a..Len(t) : (\A k \in (a + 1)..e : t[k] \in Digits) /\ more(v(e), e)
  BY <1>5 DEF InNumber, v
<1> HIDE DEF more
<1> QED
  BY <1>2, <1>3, <1>4, <1>5, <1>6, <1>7

\* A number ends where no digit is.
LEMMA NumberEnds ==
    ASSUME NEW t \in Seq(Runes), NEW p, NEW P, NEW n, NEW l, NEW w \in Seq(Runes),
           NEW a \in 1..(Len(t) + 1), a <= Len(t) => t[a] \notin Digits
    PROVE  InNumber(t, p, P, n, l, w, a) <=> IsNumber(w) /\ ThenMore(t, p, P, n, WithNumber(l, w), a)
<1>1. a \in Nat /\ Len(t) \in Nat /\ a - 1 \in (a - 1)..Len(t) /\ (a - 1) + 1 = a
  BY LenProperties
<1>2. w \o SubSeq(t, a, a - 1) = w
  BY <1>1, PartNone
<1>3. \A k \in a..(a - 1) : t[k] \in Digits
  BY <1>1
<1>4. ASSUME NEW e \in (a - 1)..Len(t), \A k \in a..e : t[k] \in Digits PROVE e = a - 1
  <2>1. CASE e >= a
    <3>1. a \in a..e /\ a <= Len(t)
      BY <1>1, <2>1
    <3> QED
      BY <1>4, <3>1
  <2> QED
    BY <1>1, <2>1
<1> QED
  BY <1>1, <1>2, <1>3, <1>4 DEF InNumber

\* What a quotation from place a up to the place before y may be.
LEMMA QuotedUpTo ==
    ASSUME NEW t \in Seq(Runes), NEW q, NEW a \in 1..Len(t), NEW y \in a..Len(t)
    PROVE  /\ \A s : s \in Quotations(t, q, y - 1)[a] <=>
                     Quotes(s, t, q, y - 1, a, Quotations(t, q, y - 1))
           /\ \A k \in 1..y : Quotations(t, q, y - 1)[k] \subseteq Seq(Runes)
<1>1. y - 1 \in 0..Len(t) /\ (y - 1) + 1 = y /\ a \in 1..y
  BY LenProperties
<1> QED
  BY <1>1, QuotationSteps

\* A string ends at its quote.
LEMMA StringEnds ==
    ASSUME NEW t \in Seq(Runes), NEW p, NEW P, NEW n, NEW l, NEW w \in Seq(Runes), NEW q,
           NEW a \in 1..Len(t), t[a] = q, q # "\\"
    PROVE  InString(t, p, P, n, l, w, q, a) <=> ThenMore(t, p, P, n, WithText(l, w), a + 1)
<1>1. a \in Nat /\ Len(t) \in Nat /\ a \in a..Len(t)
  BY LenProperties
<1>2. ASSUME NEW y \in a..Len(t), NEW s PROVE s \in Quotations(t, q, y - 1)[a] <=> y = a /\ s = << >>
  <2>1. s \in Quotations(t, q, y - 1)[a] <=> Quotes(s, t, q, y - 1, a, Quotations(t, q, y - 1))
    BY QuotedUpTo
  <2>2. (a > y - 1 <=> y = a) /\ t[a] # "\\"
    BY <1>1
  <2> QED
    BY <2>1, <2>2 DEF Quotes
<1>3. w \o << >> = w
  BY ConcatEmptySeq
<1>4. ASSUME InString(t, p, P, n, l, w, q, a) PROVE ThenMore(t, p, P, n, WithText(l, w), a + 1)
  <2>1. PICK y \in a..Len(t) : \E s \in Quotations(t, q, y - 1)[a] :
                                 ThenMore(t, p, P, n, WithText(l, w \o s), y + 1)
    BY <1>4 DEF InString
  <2>2. PICK s \in Quotations(t, q, y - 1)[a] : ThenMore(t, p, P, n, WithText(l, w \o s), y + 1)
    BY <2>1
  <2>3. y = a /\ s = << >>
    BY <1>2
  <2> QED
    BY <1>3, <2>2, <2>3
<1>5. ASSUME ThenMore(t, p, P, n, WithText(l, w), a + 1) PROVE InString(t, p, P, n, l, w, q, a)
  <2>1. << >> \in Quotations(t, q, a - 1)[a]
    BY <1>1, <1>2
  <2> QED
    BY <1>1, <1>3, <1>5, <2>1 DEF InString
<1> QED
  BY <1>4, <1>5

\* A string goes on with a rune that is neither its quote nor a backslash.
LEMMA StringGoesOn ==
    ASSUME NEW t \in Seq(Runes), NEW p, NEW P, NEW n, NEW l, NEW w \in Seq(Runes), NEW q,
           NEW a \in 1..Len(t), t[a] \notin {"\\", q}
    PROVE  InString(t, p, P, n, l, w, q, a) <=> InString(t, p, P, n, l, Append(w, t[a]), q, a + 1)
<1>1. a \in Nat /\ Len(t) \in Nat /\ t[a] \in Runes
  BY LenProperties, ElementOfSeq
<1>2. ASSUME NEW y \in (a + 1)..Len(t), NEW s
      PROVE  s \in Quotations(t, q, y - 1)[a] <=> \E r \in Quotations(t, q, y - 1)[a + 1] : s = <<t[a]>> \o r
  <2>1. y \in a..Len(t) /\ ~(a > y - 1)
    BY <1>1
  <2>2. s \in Quotations(t, q, y - 1)[a] <=> Quotes(s, t, q, y - 1, a, Quotations(t, q, y - 1))
    BY <2>1, QuotedUpTo
  <2> QED
    BY <2>1, <2>2 DEF Quotes
<1>3. ASSUME NEW y \in (a + 1)..Len(t), NEW r \in Quotations(t, q, y - 1)[a + 1]
      PROVE  w \o (<<t[a]>> \o r) = Append(w, t[a]) \o r
  <2>1. y \in a..Len(t) /\ a + 1 \in 1..y
    BY <1>1
  <2>2. r \in Seq(Runes)
    BY <2>1, QuotedUpTo
  <2>3. MovesOver(w, t[a], r)
    BY <1>1, <2>2, OneMore
  <2> QED
    BY <2>3 DEF MovesOver
<1>4. ASSUME InString(t, p, P, n, l, w, q, a) PROVE InString(t, p, P, n, l, Append(w, t[a]), q, a + 1)
  <2>1. PICK y \in a..Len(t) : /\ t[y] = q
                               /\ \E s \in Quotations(t, q, y - 1)[a] :
                                     ThenMore(t, p, P, n, WithText(l, w \o s), y + 1)
    BY <1>4 DEF InString
  <2>2. y # a
    BY <2>1
  <2>3. y \in (a + 1)..Len(t)
    BY <1>1, <2>2
  <2>4. PICK s \in Quotations(t, q, y - 1)[a] : ThenMore(t, p, P, n, WithText(l, w \o s), y + 1)
    BY <2>1
  <2>6. PICK r \in Quotations(t, q, y - 1)[a + 1] : s = <<t[a]>> \o r
    BY <1>2, <2>3
  <2>5. ThenMore(t, p, P, n, WithText(l, Append(w, t[a]) \o r), y + 1)
    BY <1>3, <2>3, <2>4, <2>6
  <2> QED
    BY <2>1, <2>3, <2>5 DEF InString
<1>5. ASSUME InString(t, p, P, n, l, Append(w, t[a]), q, a + 1) PROVE InString(t, p, P, n, l, w, q, a)
  <2>1. PICK y \in (a + 1)..Len(t) : /\ t[y] = q
                                     /\ \E r \in Quotations(t, q, y - 1)[a + 1] :
                                           ThenMore(t, p, P, n, WithText(l, Append(w, t[a]) \o r), y + 1)
    BY <1>5 DEF InString
  <2>2. PICK r \in Quotations(t, q, y - 1)[a + 1] :
               ThenMore(t, p, P, n, WithText(l, Append(w, t[a]) \o r), y + 1)
    BY <2>1
  <2>3. ThenMore(t, p, P, n, WithText(l, w \o (<<t[a]>> \o r)), y + 1)
    BY <1>3, <2>2
  <2>4. <<t[a]>> \o r \in Quotations(t, q, y - 1)[a]
    BY <1>2
  <2>5. y \in a..Len(t)
    BY <1>1
  <2> QED
    BY <2>1, <2>3, <2>4, <2>5 DEF InString
<1> QED
  BY <1>4, <1>5

\* A backslash stands for the rune behind it, which must be there.
LEMMA StringEscapes ==
    ASSUME NEW t \in Seq(Runes), NEW p, NEW P, NEW n, NEW l, NEW w \in Seq(Runes), NEW q,
           NEW a \in 1..Len(t), t[a] = "\\", q # "\\"
    PROVE  InString(t, p, P, n, l, w, q, a) <=>
              /\ a + 1 <= Len(t)
              /\ InString(t, p, P, n, l, Append(w, t[a + 1]), q, a + 2)
<1>1. a \in Nat /\ Len(t) \in Nat /\ (a + 1 <= Len(t) => t[a + 1] \in Runes)
  BY LenProperties, ElementOfSeq
<1>2. ASSUME NEW y \in a..Len(t), NEW s
      PROVE  s \in Quotations(t, q, y - 1)[a] <=>
                \/ y = a /\ s = << >>
                \/ y \in (a + 2)..Len(t) /\ \E r \in Quotations(t, q, y - 1)[a + 2] : s = <<t[a + 1]>> \o r
  <2>1. (a > y - 1 <=> y = a) /\ (a < y - 1 <=> y \in (a + 2)..Len(t))
    BY <1>1
  <2>2. s \in Quotations(t, q, y - 1)[a] <=> Quotes(s, t, q, y - 1, a, Quotations(t, q, y - 1))
    BY QuotedUpTo
  <2> DEFINE Q == Quotations(t, q, y - 1)
  <2>3. Quotes(s, t, q, y - 1, a, Q) <=>
           IF a > y - 1 THEN s = << >> ELSE a < y - 1 /\ \E r \in Q[a + 2] : s = <<t[a + 1]>> \o r
    BY DEF Quotes
  <2>4. y = a => y \notin (a + 2)..Len(t)
    BY <1>1
  <2> HIDE DEF Q
  <2>5. Quotes(s, t, q, y - 1, a, Q) <=>
                \/ y = a /\ s = << >>
                \/ y \in (a + 2)..Len(t) /\ \E r \in Q[a + 2] : s = <<t[a + 1]>> \o r
    BY <2>1, <2>3, <2>4
  <2> QED
    BY <2>2, <2>5 DEF Q
<1>3. ASSUME NEW y \in (a + 2)..Len(t), NEW r \in Quotations(t, q, y - 1)[a + 2]
      PROVE  /\ w \o (<<t[a + 1]>> \o r) = Append(w, t[a + 1]) \o r
             /\ a + 1 <= Len(t) /\ y \in a..Len(t) /\ y # a
  <2>1. y \in a..Len(t) /\ a + 2 \in 1..y /\ a + 1 <= Len(t) /\ y # a
    BY <1>1
  <2>2. \A k \in 1..y : Quotations(t, q, y - 1)[k] \subseteq Seq(Runes)
    BY <2>1, QuotedUpTo
  <2>3. r \in Seq(Runes) /\ t[a + 1] \in Runes
    BY <1>1, <2>1, <2>2
  <2>4. MovesOver(w, t[a + 1], r)
    BY <2>3, OneMore
  <2> QED
    BY <2>1, <2>4 DEF MovesOver
<1>4. ASSUME InString(t, p, P, n, l, w, q, a)
      PROVE  a + 1 <= Len(t) /\ InString(t, p, P, n, l, Append(w, t[a + 1]), q, a + 2)
  <2>1. PICK y \in a..Len(t) : /\ t[y] = q
                               /\ \E s \in Quotations(t, q, y - 1)[a] :
                                     ThenMore(t, p, P, n, WithText(l, w \o s), y + 1)
    BY <1>4 DEF InString
  <2>2. y # a
    BY <2>1
  <2>4. PICK s \in Quotations(t, q, y - 1)[a] : ThenMore(t, p, P, n, WithText(l, w \o s), y + 1)
    BY <2>1
  <2>3. y \in (a + 2)..Len(t) /\ \E r \in Quotations(t, q, y - 1)[a + 2] : s = <<t[a + 1]>> \o r
    BY <1>2, <2>2
  <2>6. PICK r \in Quotations(t, q, y - 1)[a + 2] : s = <<t[a + 1]>> \o r
    BY <2>3
  <2>5. ThenMore(t, p, P, n, WithText(l, Append(w, t[a + 1]) \o r), y + 1) /\ a + 1 <= Len(t)
    BY <1>3, <2>3, <2>4, <2>6
  <2> QED
    BY <2>1, <2>3, <2>5 DEF InString
<1>5. ASSUME InString(t, p, P, n, l, Append(w, t[a + 1]), q, a + 2) PROVE InString(t, p, P, n, l, w, q, a)
  <2>1. PICK y \in (a + 2)..Len(t) : /\ t[y] = q
                                     /\ \E r \in Quotations(t, q, y - 1)[a + 2] :
                                           ThenMore(t, p, P, n, WithText(l, Append(w, t[a + 1]) \o r), y + 1)
    BY <1>5 DEF InString
  <2>2. PICK r \in Quotations(t, q, y - 1)[a + 2] :
               ThenMore(t, p, P, n, WithText(l, Append(w, t[a + 1]) \o r), y + 1)
    BY <2>1
  <2>3. /\ ThenMore(t, p, P, n, WithText(l, w \o (<<t[a + 1]>> \o r)), y + 1)
        /\ y \in a..Len(t)
    BY <1>3, <2>2
  <2>4. <<t[a + 1]>> \o r \in Quotations(t, q, y - 1)[a]
    BY <1>2, <2>3
  <2> QED
    BY <2>1, <2>3, <2>4 DEF InString
<1> QED
  BY <1>4, <1>5

\* A string that the text breaks off is none.
LEMMA StringBreaksOff ==
    ASSUME NEW t, Len(t) \in Nat, NEW p, NEW P, NEW n, NEW l, NEW w, NEW q, NEW a \in Nat, a > Len(t)
    PROVE  ~InString(t, p, P, n, l, w, q, a)
<1>1. a..Len(t) = {}
  OBVIOUS
<1> QED
  BY <1>1 DEF InString

-----------------------------------------------------------------------------
(* Where a name and an argument begin. *)

\* The runes x..y of a text.
LEMMA PartOf ==
    ASSUME NEW t \in Seq(Runes), NEW x \in 1..Len(t), NEW y \in x..Len(t)
    PROVE  /\ SubSeq(t, x, y) # << >> /\ SubSeq(t, x, y)[1] = t[x]
           /\ Len(SubSeq(t, x, y)) = y - x + 1
           /\ ToSet(SubSeq(t, x, y)) = {t[k] : k \in x..y}
<1> DEFINE u == SubSeq(t, x, y)
<1>1. x \in Nat /\ y \in Nat /\ x >= 1 /\ x <= y /\ y <= Len(t) /\ Len(t) \in Nat
  BY LenProperties
<1>2. u \in Seq(Runes) /\ Len(u) = y - x + 1 /\ \A k \in 1..(y - x + 1) : u[k] = t[x + k - 1]
  BY <1>1
<1> HIDE DEF u
<1>3. 1 \in 1..(y - x + 1) /\ x + 1 - 1 = x /\ y - x + 1 # 0
  BY <1>1
<1>4. u # << >> /\ u[1] = t[x]
  BY <1>2, <1>3
<1>5. ToSet(u) = {t[k] : k \in x..y}
  <2>1. DOMAIN u = 1..(y - x + 1)
    BY <1>2
  <2>2. ToSet(u) = {u[k] : k \in 1..(y - x + 1)}
    BY <2>1 DEF ToSet
  <2>3. \A k \in 1..(y - x + 1) : x + k - 1 \in x..y
    BY <1>1
  <2>4. \A k \in x..y : k - x + 1 \in 1..(y - x + 1) /\ x + (k - x + 1) - 1 = k
    BY <1>1
  <2>5. \A k \in x..y : \E m \in 1..(y - x + 1) : u[m] = t[k]
    BY <1>2, <2>4
  <2>6. \A k \in 1..(y - x + 1) : \E m \in x..y : u[k] = t[m]
    BY <1>2, <2>3
  <2>7. {u[k] : k \in 1..(y - x + 1)} \subseteq {t[k] : k \in x..y}
    BY <2>6
  <2>8. {t[k] : k \in x..y} \subseteq {u[k] : k \in 1..(y - x + 1)}
    BY <2>5
  <2> QED
    BY <2>2, <2>7, <2>8
<1> QED
  BY <1>2, <1>4, <1>5 DEF u

\* A number is a minus or a digit, and digits behind it.
LEMMA NumberAt ==
    ASSUME NEW t \in Seq(Runes), NEW x \in 1..Len(t), NEW y \in x..Len(t), NEW v
    PROVE  v \in Numbers(t, x, y) <=>
              /\ t[x] \in {"-"} \cup Digits /\ \A k \in (x + 1)..y : t[k] \in Digits
              /\ IsNumber(SubSeq(t, x, y)) /\ v = Arg(None, Atoi(SubSeq(t, x, y)), None)
<1> DEFINE u == SubSeq(t, x, y)
           first == IF t[x] = "-" THEN x + 1 ELSE x
<1>1. x \in Nat /\ y \in Nat /\ x <= y
  BY LenProperties
<1>2. u[1] = t[x] /\ Len(u) = y - x + 1 /\ (y = x => u = <<t[x]>>)
  BY PartOf, SubSeqOne
<1>3. u # <<"-">> <=> first <= y
  <2>1. CASE t[x] = "-"
    <3>1. CASE y = x
      <4>1. ~(x + 1 <= y) /\ u = <<"-">>
        BY <1>1, <1>2, <2>1, <3>1
      <4> QED
        BY <2>1, <4>1
    <3>2. CASE y # x
      <4>1. x + 1 <= y /\ Len(u) # 1 /\ Len(<<"-">>) = 1
        BY <1>1, <1>2, <3>2
      <4> HIDE DEF u
      <4> QED
        BY <2>1, <4>1
    <3> QED
      BY <3>1, <3>2
  <2>2. CASE t[x] # "-"
    <3> HIDE DEF u
    <3>1. u[1] # <<"-">>[1]
      BY <1>2, <2>2
    <3> QED
      BY <1>1, <2>2, <3>1
  <2> QED
    BY <2>1, <2>2
<1>4. (\A k \in first..y : t[k] \in Digits) <=>
         t[x] \in {"-"} \cup Digits /\ \A k \in (x + 1)..y : t[k] \in Digits
  <2>1. CASE t[x] = "-"
    BY <2>1
  <2>2. CASE t[x] # "-"
    <3>1. x..y = {x} \cup ((x + 1)..y)
      BY <1>1
    <3> QED
      BY <2>2, <3>1
  <2> QED
    BY <2>1, <2>2
<1>5. v \in Numbers(t, x, y) <=> /\ first <= y /\ \A k \in first..y : t[k] \in Digits
                                 /\ Atoi(u) # None /\ v = Arg(None, Atoi(u), None)
  BY DEF Numbers
<1> HIDE DEF u, first
<1>6. v \in Numbers(t, x, y) <=>
              /\ t[x] \in {"-"} \cup Digits /\ \A k \in (x + 1)..y : t[k] \in Digits
              /\ IsNumber(u) /\ v = Arg(None, Atoi(u), None)
  BY <1>3, <1>4, <1>5 DEF IsNumber
<1> QED
  BY <1>6 DEF u

\* A string is what stands between a quote and the same quote.
LEMMA StringAt ==
    ASSUME NEW t, NEW x, NEW y, NEW v
    PROVE  v \in Strings(t, x, y) <=>
              /\ x < y /\ IsQuote(t[x]) /\ t[y] = t[x]
              /\ \E s \in Quotations(t, t[x], y - 1)[x + 1] : v = Arg(s, None, None)
BY DEF Strings, IsQuote

\* What is a value of the runes x..y.
ValueAt(t, x, y) == Strings(t, x, y) \cup Numbers(t, x, y)

\* A value has a rune and begins with one that is no white space.
LEMMA ValueBegins ==
    ASSUME NEW t, NEW x \in Int, NEW y \in Int, NEW v \in ValueAt(t, x, y)
    PROVE  x <= y /\ t[x] \notin Space
<1>1. CASE v \in Strings(t, x, y)
  <2>1. x < y /\ IsQuote(t[x])
    BY <1>1, StringAt
  <2>2. t[x] \notin Space
    BY <2>1, RunesApart
  <2> QED
    BY <2>1, <2>2
<1>2. CASE v \in Numbers(t, x, y)
  <2> DEFINE first == IF t[x] = "-" THEN x + 1 ELSE x
  <2>1. first <= y /\ \A k \in first..y : t[k] \in Digits
    BY <1>2 DEF Numbers
  <2>2. CASE t[x] = "-"
    <3>1. x <= y
      BY <2>1, <2>2
    <3>2. t[x] \notin Space
      BY <2>2, RunesApart
    <3> QED
      BY <3>1, <3>2
  <2>3. CASE t[x] # "-"
    <3>1. x <= y /\ x \in x..y
      BY <2>1, <2>3
    <3>2. t[x] \in Digits
      BY <2>1, <2>3, <3>1
    <3>3. t[x] \notin Space
      BY <3>2, RunesApart
    <3> QED
      BY <3>1, <3>3
  <2> QED
    BY <2>2, <2>3
<1> QED
  BY <1>1, <1>2 DEF ValueAt

\* An argument is a value within white space.
LEMMA ArgumentAt ==
    ASSUME NEW t, NEW a \in Int, NEW b \in Int, NEW v
    PROVE  v \in Arguments(t, a, b) <=>
              \E x \in a..b : \E y \in x..b : /\ Blank(t, a, x - 1) /\ Blank(t, y + 1, b)
                                              /\ v \in ValueAt(t, x, y)
<1>1. v \in Arguments(t, a, b) <=>
        \E x \in Begins(t, a, b), y \in Closes(t, a, b) : v \in ValueAt(t, x, y)
  <2>1. Arguments(t, a, b) = UNION {ValueAt(t, x, y) : x \in Begins(t, a, b), y \in Closes(t, a, b)}
    BY DEF Arguments, ValueAt
  <2> QED
    BY <2>1
<1>2. ASSUME NEW x \in Begins(t, a, b), NEW y \in Closes(t, a, b), v \in ValueAt(t, x, y)
      PROVE  x \in a..b /\ y \in x..b /\ Blank(t, a, x - 1) /\ Blank(t, y + 1, b)
  <2>1. x \in a..b /\ y \in a..b /\ Blank(t, a, x - 1) /\ Blank(t, y + 1, b)
    BY DEF Begins, Closes
  <2>2. x <= y
    BY <1>2, <2>1, ValueBegins
  <2> QED
    BY <2>1, <2>2
<1>3. ASSUME NEW x \in a..b, NEW y \in x..b, Blank(t, a, x - 1), Blank(t, y + 1, b)
      PROVE  x \in Begins(t, a, b) /\ y \in Closes(t, a, b)
  BY <1>3 DEF Begins, Closes
<1> QED
  BY <1>1, <1>2, <1>3

\* A first rune of names, and runes of names behind it, within white space.
IsNameOf(n, t, a, b) ==
    \E x \in a..b : \E y \in x..b : /\ Blank(t, a, x - 1) /\ Blank(t, y + 1, b)
                                    /\ t[x] \in isIdentStart
                                    /\ \A k \in (x + 1)..y : t[k] \in isIdentPart
                                    /\ n = SubSeq(t, x, y)

\* The names of a part of a text are these.
LEMMA IdentifierAt ==
    ASSUME NEW t \in Seq(Runes), NEW a \in Int, NEW b \in Int, a >= 1, b <= Len(t), NEW n
    PROVE  n \in Identifiers(t, a, b) <=> IsNameOf(n, t, a, b)
<1>1. n \in Identifiers(t, a, b) <=>
        /\ \E x \in Begins(t, a, b), y \in Closes(t, a, b) : n = SubSeq(t, x, y)
        /\ n # << >> /\ n[1] \in isIdentStart /\ ToSet(n) \subseteq isIdentPart
  BY DEF Identifiers
<1>2. Len(t) \in Nat
  BY LenProperties
<1>3. ASSUME NEW x \in a..b, NEW y \in a..b, SubSeq(t, x, y) # << >> PROVE y \in x..b
  <2>1. CASE x > y
    <3>1. SubSeq(t, x, y) = << >>
      BY <1>2, <2>1
    <3> QED
      BY <1>3, <3>1
  <2> QED
    BY <1>2, <2>1
<1>4. ASSUME NEW x \in a..b, NEW y \in x..b
      PROVE  /\ SubSeq(t, x, y) # << >>
             /\ (SubSeq(t, x, y)[1] \in isIdentStart /\ ToSet(SubSeq(t, x, y)) \subseteq isIdentPart) <=>
                   (t[x] \in isIdentStart /\ \A k \in (x + 1)..y : t[k] \in isIdentPart)
  <2>1. x \in 1..Len(t) /\ y \in x..Len(t) /\ x..y = {x} \cup ((x + 1)..y)
    BY <1>2
  <2>2. /\ SubSeq(t, x, y) # << >> /\ SubSeq(t, x, y)[1] = t[x]
        /\ ToSet(SubSeq(t, x, y)) = {t[k] : k \in x..y}
    BY <2>1, PartOf
  <2>3. ToSet(SubSeq(t, x, y)) \subseteq isIdentPart <=> \A k \in x..y : t[k] \in isIdentPart
    BY <2>2
  <2> QED
    BY <2>1, <2>2, <2>3, RunesApart
<1>5. \A x, y : x \in Begins(t, a, b) /\ y \in Closes(t, a, b) <=>
                x \in a..b /\ y \in a..b /\ Blank(t, a, x - 1) /\ Blank(t, y + 1, b)
  BY DEF Begins, Closes
<1>6. ASSUME n \in Identifiers(t, a, b)
      PROVE  IsNameOf(n, t, a, b)
  <2>1. PICK x \in Begins(t, a, b), y \in Closes(t, a, b) : n = SubSeq(t, x, y)
    BY <1>1, <1>6
  <2>2. x \in a..b /\ y \in a..b /\ Blank(t, a, x - 1) /\ Blank(t, y + 1, b)
    BY <1>5
  <2>3. y \in x..b
    BY <1>1, <1>3, <1>6, <2>1, <2>2
  <2>4. t[x] \in isIdentStart /\ \A k \in (x + 1)..y : t[k] \in isIdentPart
    BY <1>1, <1>4, <1>6, <2>1, <2>2, <2>3
  <2> QED
    BY <2>1, <2>2, <2>3, <2>4 DEF IsNameOf
<1>7. ASSUME NEW x \in a..b, NEW y \in x..b, Blank(t, a, x - 1), Blank(t, y + 1, b),
             t[x] \in isIdentStart, \A k \in (x + 1)..y : t[k] \in isIdentPart, n = SubSeq(t, x, y)
      PROVE  n \in Identifiers(t, a, b)
  <2>1. y \in a..b
    OBVIOUS
  <2>2. x \in Begins(t, a, b) /\ y \in Closes(t, a, b)
    BY <1>5, <1>7, <2>1
  <2> QED
    BY <1>1, <1>4, <1>7, <2>2
<1> QED
  BY <1>6, <1>7 DEF IsNameOf

\* Where there are arguments, there is not only white space.
LEMMA ArgumentsNotBlank ==
    ASSUME NEW t, NEW a \in Int, NEW b \in Int, NEW v \in Arguments(t, a, b)
    PROVE  ~Blank(t, a, b)
<1>1. PICK x \in a..b : \E y \in x..b : v \in ValueAt(t, x, y)
  BY ArgumentAt
<1>2. PICK y \in x..b : v \in ValueAt(t, x, y)
  BY <1>1
<1>3. t[x] \notin Space
  BY <1>2, ValueBegins
<1> QED
  BY <1>3 DEF Blank

\* The places where the values of an argument begin, and what follows them.
LEMMA ValuesAt ==
    ASSUME NEW t \in Seq(Runes), NEW p, NEW P, NEW n, NEW l, NEW x \in 1..Len(t)
    PROVE  x \in Values(t, p, P, n, l) <=>
              \E y \in x..Len(t) : \E v \in ValueAt(t, x, y) : ThenMore(t, p, P, n, Append(l, v), y + 1)
<1>1. x \in Nat /\ Len(t) \in Nat /\ t[x] \in Runes /\ (x + 1) - 1 = x
  BY LenProperties, ElementOfSeq
<1> DEFINE more(v, y) == ThenMore(t, p, P, n, Append(l, v), y + 1)
<1>2. (\E y \in x..Len(t) : \E v \in Strings(t, x, y) : more(v, y)) <=>
          IsQuote(t[x]) /\ InString(t, p, P, n, l, << >>, t[x], x + 1)
  <2>1. ASSUME NEW y \in (x + 1)..Len(t), NEW s \in Quotations(t, t[x], y - 1)[x + 1]
        PROVE  << >> \o s = s
    <3>1. y - 1 \in 0..Len(t) /\ x + 1 \in 1..((y - 1) + 1)
      BY <1>1
    <3>2. s \in Seq(Runes)
      BY <3>1, QuotationSteps
    <3> QED
      BY <3>2, ConcatEmptySeq
  <2>2. ASSUME NEW y \in x..Len(t), NEW v \in Strings(t, x, y), more(v, y)
        PROVE  IsQuote(t[x]) /\ InString(t, p, P, n, l, << >>, t[x], x + 1)
    <3>1. /\ x < y /\ IsQuote(t[x]) /\ t[y] = t[x]
          /\ \E s \in Quotations(t, t[x], y - 1)[x + 1] : v = Arg(s, None, None)
      BY StringAt
    <3>2. PICK s \in Quotations(t, t[x], y - 1)[x + 1] : v = Arg(s, None, None)
      BY <3>1
    <3>3. y \in (x + 1)..Len(t)
      BY <1>1, <3>1
    <3>4. << >> \o s = s
      BY <2>1, <3>3
    <3>5. ThenMore(t, p, P, n, WithText(l, << >> \o s), y + 1)
      BY <2>2, <3>2, <3>4 DEF WithText
    <3> QED
      BY <3>1, <3>3, <3>5 DEF InString
  <2>3. ASSUME IsQuote(t[x]), InString(t, p, P, n, l, << >>, t[x], x + 1)
        PROVE  \E y \in x..Len(t) : \E v \in Strings(t, x, y) : more(v, y)
    <3>1. PICK y \in (x + 1)..Len(t) :
                 /\ t[y] = t[x]
                 /\ \E s \in Quotations(t, t[x], y - 1)[x + 1] :
                       ThenMore(t, p, P, n, WithText(l, << >> \o s), y + 1)
      BY <2>3 DEF InString
    <3>2. PICK s \in Quotations(t, t[x], y - 1)[x + 1] :
                 ThenMore(t, p, P, n, WithText(l, << >> \o s), y + 1)
      BY <3>1
    <3>3. << >> \o s = s
      BY <2>1
    <3>4. more(Arg(s, None, None), y)
      BY <3>2, <3>3 DEF WithText
    <3>5. x < y /\ y \in x..Len(t)
      BY <1>1
    <3>6. Arg(s, None, None) \in Strings(t, x, y)
      BY <2>3, <3>1, <3>5, StringAt
    <3> QED
      BY <3>4, <3>5, <3>6
  <2> QED
    BY <2>2, <2>3
<1>3. (\E y \in x..Len(t) : \E v \in Numbers(t, x, y) : more(v, y)) <=>
          t[x] \in {"-"} \cup Digits /\ InNumber(t, p, P, n, l, <<t[x]>>, x + 1)
  <2> DEFINE u(y) == SubSeq(t, x, y)
             w(y) == <<t[x]>> \o SubSeq(t, x + 1, y)
             digits(y) == \A k \in (x + 1)..y : t[k] \in Digits
             after(z, y) == IsNumber(z) /\ ThenMore(t, p, P, n, WithNumber(l, z), y + 1)
  <2>1. \A y \in x..Len(t) : u(y) = w(y)
    <3>1. << >> \in Seq(Runes)
      BY EmptySeq
    <3> QED
      BY <3>1, PartNext
  <2>2. ASSUME NEW y \in x..Len(t)
        PROVE  (\E v \in Numbers(t, x, y) : more(v, y)) <=>
                   t[x] \in {"-"} \cup Digits /\ digits(y) /\ after(u(y), y)
    <3>1. \A v : v \in Numbers(t, x, y) <=> /\ t[x] \in {"-"} \cup Digits /\ digits(y)
                                            /\ IsNumber(u(y)) /\ v = Arg(None, Atoi(u(y)), None)
      BY NumberAt
    <3>2. after(u(y), y) <=> IsNumber(u(y)) /\ more(Arg(None, Atoi(u(y)), None), y)
      BY DEF WithNumber
    <3> HIDE DEF u, digits, more, after
    <3> QED
      BY <3>1, <3>2
  <2>3. InNumber(t, p, P, n, l, <<t[x]>>, x + 1) <=> \E y \in x..Len(t) : digits(y) /\ after(w(y), y)
    BY <1>1 DEF InNumber
  <2> HIDE DEF u, w, digits, more, after
  <2> QED
    BY <2>1, <2>2, <2>3
<1>4. x \in Values(t, p, P, n, l) <=>
         \/ IsQuote(t[x]) /\ InString(t, p, P, n, l, << >>, t[x], x + 1)
         \/ t[x] \in {"-"} \cup Digits /\ InNumber(t, p, P, n, l, <<t[x]>>, x + 1)
  BY DEF Values
<1> HIDE DEF more
<1>5. (\E y \in x..Len(t) : \E v \in ValueAt(t, x, y) : more(v, y)) <=>
         \/ \E y \in x..Len(t) : \E v \in Strings(t, x, y) : more(v, y)
         \/ \E y \in x..Len(t) : \E v \in Numbers(t, x, y) : more(v, y)
  BY DEF ValueAt
<1> QED
  BY <1>2, <1>3, <1>4, <1>5 DEF more

\* Behind a comma, or the bracket, comes the beginning of an argument.
LEMMA ArgComes ==
    ASSUME NEW t \in Seq(Runes), NEW p, NEW P, NEW n, NEW l \in Seq(ArgValues), NEW a \in 1..(Len(t) + 1)
    PROVE  ThenArg(t, p, P, n, l, a) <=> Comes(t, a, Values(t, p, P, n, l))
<1>1. a \in Nat /\ a >= 1 /\ Len(t) \in Nat
  BY LenProperties
<1>2. ASSUME NEW k \in a..Len(t), NEW v \in Arguments(t, a, k - 1) PROVE v \in ArgValues
  <2>1. k - 1 \in Int /\ k - 1 <= Len(t)
    BY <1>1
  <2> QED
    BY <1>1, <2>1, ArgumentsTyped
<1>3. ASSUME NEW k \in a..Len(t), NEW v \in Arguments(t, a, k - 1),
             \A y \in 1..Len(t) : k >= y + 1 /\ Blank(t, y + 1, k - 1) =>
                 ThenMore(t, p, P, n, Append(l, v), y + 1)
      PROVE  Comes(t, a, Values(t, p, P, n, l))
  <2>1. PICK x \in a..(k - 1) : \E y \in x..(k - 1) : /\ Blank(t, a, x - 1) /\ Blank(t, y + 1, k - 1)
                                                      /\ v \in ValueAt(t, x, y)
    BY <1>1, ArgumentAt
  <2>2. PICK y \in x..(k - 1) : Blank(t, y + 1, k - 1) /\ v \in ValueAt(t, x, y)
    BY <2>1
  <2>3. x \in 1..Len(t) /\ y \in x..Len(t) /\ y \in 1..Len(t) /\ k >= y + 1 /\ x >= a
    BY <1>1
  <2>4. ThenMore(t, p, P, n, Append(l, v), y + 1)
    BY <1>3, <2>2, <2>3
  <2>5. x \in Values(t, p, P, n, l)
    BY <2>2, <2>3, <2>4, ValuesAt
  <2> QED
    BY <2>1, <2>3, <2>5 DEF Comes
<1>4. ASSUME ThenArg(t, p, P, n, l, a) PROVE Comes(t, a, Values(t, p, P, n, l))
  <2>1. PICK e \in a..Len(t) : /\ t[e] = ")"
                               /\ \E r \in Lists(t, e - 1)[a] :
                                     ThenEnd(t, p, WithStep(P, n, l \o r), e + 1)
    BY <1>4 DEF ThenArg
  <2>2. PICK r \in Lists(t, e - 1)[a] : ThenEnd(t, p, WithStep(P, n, l \o r), e + 1)
    BY <2>1
  <2>3. e \in Nat /\ e - 1 \in 0..Len(t) /\ a \in 1..((e - 1) + 1) /\ e \in 1..Len(t)
    BY <1>1
  <2>4. ListOf(r, t, e - 1, a)
    BY <2>3, ListSteps
  <2>5. CASE \E v \in Arguments(t, a, e - 1) : r = <<v>>
    <3>1. PICK v \in Arguments(t, a, e - 1) : r = <<v>>
      BY <2>5
    <3>2. l \o r = Append(l, v)
      BY <1>2, <3>1
    <3>3. e \in Closings(t, p, P, n, Append(l, v))
      BY <2>1, <2>2, <2>3, <3>2 DEF Closings
    <3>4. ASSUME NEW y \in 1..Len(t), e >= y + 1, Blank(t, y + 1, e - 1)
          PROVE  ThenMore(t, p, P, n, Append(l, v), y + 1)
      BY <3>3, <3>4 DEF ThenMore, Comes
    <3> QED
      BY <1>3, <3>4
  <2>6. CASE \E m \in a..(e - 1) : /\ t[m] = ","
                                   /\ \E v \in Arguments(t, a, m - 1), z \in Lists(t, e - 1)[m + 1] :
                                         r = <<v>> \o z
    <3>1. PICK m \in a..(e - 1) : /\ t[m] = ","
                                  /\ \E v \in Arguments(t, a, m - 1), z \in Lists(t, e - 1)[m + 1] :
                                        r = <<v>> \o z
      BY <2>6
    <3>2. PICK v \in Arguments(t, a, m - 1), z \in Lists(t, e - 1)[m + 1] : r = <<v>> \o z
      BY <3>1
    <3>3. m \in a..Len(t) /\ m \in 1..Len(t) /\ m + 1 \in 1..((e - 1) + 1) /\ e \in (m + 1)..Len(t)
      BY <1>1, <2>3
    <3>4. z \in Seq(ArgValues)
      BY <2>3, <3>3, ListSteps
    <3>5. v \in ArgValues
      BY <1>2, <3>3
    <3>6. l \o r = Append(l, v) \o z
      <4>1. l \o (<<v>> \o z) = Append(l, v) \o z
        <5>1. MovesOver(l, v, z)
          BY <3>4, <3>5, OneMore
        <5> QED
          BY <5>1 DEF MovesOver
      <4> QED
        BY <3>2, <4>1
    <3>7. ThenArg(t, p, P, n, Append(l, v), m + 1)
      BY <2>1, <2>2, <3>3, <3>6 DEF ThenArg
    <3>8. m \in Commas(t, p, P, n, Append(l, v))
      BY <3>1, <3>3, <3>7 DEF Commas
    <3>9. ASSUME NEW y \in 1..Len(t), m >= y + 1, Blank(t, y + 1, m - 1)
          PROVE  ThenMore(t, p, P, n, Append(l, v), y + 1)
      BY <3>8, <3>9 DEF ThenMore, Comes
    <3> QED
      BY <1>3, <3>3, <3>9
  <2> QED
    BY <2>4, <2>5, <2>6 DEF ListOf
<1>5. ASSUME Comes(t, a, Values(t, p, P, n, l)) PROVE ThenArg(t, p, P, n, l, a)
  <2>1. PICK x \in Values(t, p, P, n, l) : x >= a /\ Blank(t, a, x - 1)
    BY <1>5 DEF Comes
  <2>2. x \in 1..Len(t)
    BY DEF Values
  <2>3. PICK y \in x..Len(t) : \E v \in ValueAt(t, x, y) : ThenMore(t, p, P, n, Append(l, v), y + 1)
    BY <2>2, ValuesAt
  <2>4. PICK v \in ValueAt(t, x, y) : ThenMore(t, p, P, n, Append(l, v), y + 1)
    BY <2>3
  <2>5. PICK k \in Closings(t, p, P, n, Append(l, v)) \cup Commas(t, p, P, n, Append(l, v)) :
                k >= y + 1 /\ Blank(t, y + 1, k - 1)
    BY <2>4 DEF ThenMore, Comes
  <2>6. k \in 1..Len(t)
    BY DEF Closings, Commas
  <2>7. /\ k \in a..Len(t) /\ x \in a..(k - 1) /\ y \in x..(k - 1) /\ k - 1 \in 0..Len(t)
        /\ a \in 1..((k - 1) + 1)
    BY <1>1, <2>1, <2>2, <2>5, <2>6
  <2>8. v \in Arguments(t, a, k - 1)
    BY <1>1, <2>1, <2>4, <2>5, <2>7, ArgumentAt
  <2>9. v \in ArgValues
    BY <1>2, <2>7, <2>8
  <2>10. CASE k \in Closings(t, p, P, n, Append(l, v))
    <3>1. <<v>> \in Lists(t, k - 1)[a]
      <4>1. ListOf(<<v>>, t, k - 1, a)
        BY <2>8 DEF ListOf
      <4> QED
        BY <2>7, <4>1, ListSteps
    <3>2. l \o <<v>> = Append(l, v)
      BY <2>9
    <3>3. t[k] = ")" /\ ThenEnd(t, p, WithStep(P, n, Append(l, v)), k + 1)
      BY <2>10 DEF Closings
    <3> QED
      BY <2>7, <3>1, <3>2, <3>3 DEF ThenArg
  <2>11. CASE k \in Commas(t, p, P, n, Append(l, v))
    <3>1. t[k] = "," /\ ThenArg(t, p, P, n, Append(l, v), k + 1)
      BY <2>11 DEF Commas
    <3>2. PICK e \in (k + 1)..Len(t) :
                 /\ t[e] = ")"
                 /\ \E z \in Lists(t, e - 1)[k + 1] : ThenEnd(t, p, WithStep(P, n, Append(l, v) \o z), e + 1)
      BY <3>1 DEF ThenArg
    <3>3. PICK z \in Lists(t, e - 1)[k + 1] : ThenEnd(t, p, WithStep(P, n, Append(l, v) \o z), e + 1)
      BY <3>2
    <3>4. /\ e - 1 \in 0..Len(t) /\ k + 1 \in 1..((e - 1) + 1) /\ a \in 1..((e - 1) + 1)
          /\ k \in a..(e - 1) /\ e \in a..Len(t)
      BY <1>1, <2>7
    <3>5. z \in Seq(ArgValues)
      BY <3>4, ListSteps
    <3>6. Append(l, v) \o z = l \o (<<v>> \o z)
      <4>1. MovesOver(l, v, z)
        BY <2>9, <3>5, OneMore
      <4> QED
        BY <4>1 DEF MovesOver
    <3>7. ListOf(<<v>> \o z, t, e - 1, a)
      BY <2>8, <3>1, <3>4 DEF ListOf
    <3>8. <<v>> \o z \in Lists(t, e - 1)[a]
      BY <3>4, <3>7, ListSteps
    <3> QED
      BY <3>2, <3>3, <3>4, <3>6, <3>8 DEF ThenArg
  <2> QED
    BY <2>5, <2>10, <2>11
<1> QED
  BY <1>4, <1>5

\* Behind the bracket comes the other one, or the first argument.
LEMMA ArgsCome ==
    ASSUME NEW t \in Seq(Runes), NEW p, NEW P, NEW n, NEW a \in 1..(Len(t) + 1)
    PROVE  ThenArgs(t, p, P, n, a) <=>
              \E e \in a..Len(t) : /\ t[e] = ")"
                                   /\ \E l \in Brackets(t, a, e - 1) : ThenEnd(t, p, WithStep(P, n, l), e + 1)
<1>1. a \in Nat /\ a >= 1 /\ Len(t) \in Nat
  BY LenProperties
<1>2. ASSUME NEW e \in a..Len(t), NEW r \in Lists(t, e - 1)[a]
      PROVE  ~Blank(t, a, e - 1) /\ << >> \o r = r
  <2>1. e - 1 \in 0..Len(t) /\ a \in 1..((e - 1) + 1)
    BY <1>1
  <2>2. r \in Seq(ArgValues) /\ ListOf(r, t, e - 1, a)
    BY <2>1, ListSteps
  <2>3. \/ \E v \in Arguments(t, a, e - 1) : TRUE
        \/ \E m \in a..(e - 1) : \E v \in Arguments(t, a, m - 1) : TRUE
    BY <2>2 DEF ListOf
  <2>4. ASSUME NEW m \in a..e, NEW v \in Arguments(t, a, m - 1) PROVE ~Blank(t, a, e - 1)
    <3>1. ~Blank(t, a, m - 1)
      BY <1>1, ArgumentsNotBlank
    <3>2. a..(m - 1) \subseteq a..(e - 1)
      BY <1>1
    <3> QED
      BY <3>1, <3>2 DEF Blank
  <2>5. e \in a..e /\ \A m \in a..(e - 1) : m \in a..e
    BY <1>1
  <2>6. << >> \o r = r
    BY <2>2, ConcatEmptySeq
  <2> QED
    BY <2>3, <2>4, <2>5, <2>6
<1>3. ASSUME ThenArgs(t, p, P, n, a)
      PROVE  \E e \in a..Len(t) : /\ t[e] = ")"
                                  /\ \E l \in Brackets(t, a, e - 1) : ThenEnd(t, p, WithStep(P, n, l), e + 1)
  <2>1. CASE Comes(t, a, Closings(t, p, P, n, << >>))
    <3>1. PICK e \in Closings(t, p, P, n, << >>) : e >= a /\ Blank(t, a, e - 1)
      BY <2>1 DEF Comes
    <3>2. e \in 1..Len(t) /\ t[e] = ")" /\ ThenEnd(t, p, WithStep(P, n, << >>), e + 1)
      BY DEF Closings
    <3>3. e \in a..Len(t)
      BY <1>1, <3>1, <3>2
    <3>4. << >> \in Brackets(t, a, e - 1)
      BY <3>1 DEF Brackets
    <3> QED
      BY <3>2, <3>3, <3>4
  <2>2. CASE ThenArg(t, p, P, n, << >>, a)
    <3>1. PICK e \in a..Len(t) : /\ t[e] = ")"
                                 /\ \E r \in Lists(t, e - 1)[a] :
                                       ThenEnd(t, p, WithStep(P, n, << >> \o r), e + 1)
      BY <2>2 DEF ThenArg
    <3>2. PICK r \in Lists(t, e - 1)[a] : ThenEnd(t, p, WithStep(P, n, << >> \o r), e + 1)
      BY <3>1
    <3>3. ~Blank(t, a, e - 1) /\ << >> \o r = r
      BY <1>2
    <3>4. r \in Brackets(t, a, e - 1) /\ ThenEnd(t, p, WithStep(P, n, r), e + 1)
      BY <3>2, <3>3 DEF Brackets
    <3> QED
      BY <3>1, <3>4
  <2> QED
    BY <1>3, <2>1, <2>2 DEF ThenArgs
<1>4. ASSUME NEW e \in a..Len(t), t[e] = ")",
             NEW l \in Brackets(t, a, e - 1), ThenEnd(t, p, WithStep(P, n, l), e + 1)
      PROVE  ThenArgs(t, p, P, n, a)
  <2>1. e \in 1..Len(t) /\ e >= a
    BY <1>1
  <2>2. CASE Blank(t, a, e - 1)
    <3>1. l = << >>
      BY <2>2 DEF Brackets
    <3>2. e \in Closings(t, p, P, n, << >>)
      BY <1>4, <2>1, <3>1 DEF Closings
    <3> QED
      BY <2>1, <2>2, <3>2 DEF ThenArgs, Comes
  <2>3. CASE ~Blank(t, a, e - 1)
    <3>1. l \in Lists(t, e - 1)[a]
      BY <2>3 DEF Brackets
    <3>2. << >> \o l = l
      BY <1>2, <3>1
    <3>3. ThenArg(t, p, P, n, << >>, a)
      BY <1>4, <3>1, <3>2 DEF ThenArg
    <3> QED
      BY <3>3 DEF ThenArgs
  <2> QED
    BY <2>2, <2>3
<1> QED
  BY <1>3, <1>4

\* The places where the names of a step begin, and what follows them.
LEMMA NamesAt ==
    ASSUME NEW t \in Seq(Runes), NEW p, NEW P, NEW x \in 1..Len(t)
    PROVE  x \in Names(t, p, P) <=>
              \E y \in x..Len(t) : /\ t[x] \in isIdentStart
                                   /\ \A k \in (x + 1)..y : t[k] \in isIdentPart
                                   /\ ThenOpen(t, p, P, SubSeq(t, x, y), y + 1)
<1> DEFINE u(y) == SubSeq(t, x, y)
           w(y) == <<t[x]>> \o SubSeq(t, x + 1, y)
           parts(y) == \A k \in (x + 1)..y : t[k] \in isIdentPart
           after(z, y) == ThenOpen(t, p, P, z, y + 1)
<1>1. x \in Nat /\ (x + 1) - 1 = x
  BY LenProperties
<1>2. \A y \in x..Len(t) : u(y) = w(y)
  <2>1. << >> \in Seq(Runes)
    BY EmptySeq
  <2> QED
    BY <2>1, PartNext
<1>3. InName(t, p, P, <<t[x]>>, x + 1) <=> \E y \in x..Len(t) : parts(y) /\ after(w(y), y)
  BY <1>1 DEF InName
<1>4. x \in Names(t, p, P) <=> t[x] \in isIdentStart /\ InName(t, p, P, <<t[x]>>, x + 1)
  BY DEF Names
<1> HIDE DEF u, w, parts, after
<1>5. x \in Names(t, p, P) <=> \E y \in x..Len(t) : t[x] \in isIdentStart /\ parts(y) /\ after(u(y), y)
  BY <1>2, <1>3, <1>4
<1> QED
  BY <1>5 DEF u, parts, after

\* Behind a bar, and at the beginning, comes the name of a step.
LEMMA StepComes ==
    ASSUME NEW t \in Seq(Runes), NEW p, NEW P \in Seq(StepValues), NEW a \in 1..(Len(t) + 1)
    PROVE  ThenStep(t, p, P, a) <=> Comes(t, a, Names(t, p, P))
<1>1. a \in Nat /\ a \in Int /\ a >= 1 /\ Len(t) \in Nat
  BY LenProperties
<1>5. ASSUME NEW b \in Int, b <= Len(t)
      PROVE  /\ Steps(t, a, b) \subseteq StepValues
             /\ \A s : s \in Steps(t, a, b) <=>
                   \E o \in a..b, e \in Closes(t, a, b) :
                      /\ o < e /\ t[o] = "(" /\ t[e] = ")"
                      /\ \E n \in Identifiers(t, a, o - 1), l \in Brackets(t, o + 1, e - 1) :
                            s = [Name |-> n, Args |-> l]
  BY <1>1, <1>5, StepsTyped
<1>6. ASSUME NEW b \in Int, b <= Len(t), NEW n
      PROVE  n \in Identifiers(t, a, b) <=> IsNameOf(n, t, a, b)
  BY <1>1, <1>6, IdentifierAt
<1>2. ASSUME NEW b \in Int, b <= Len(t), NEW s \in Steps(t, a, b),
             \A n, l : \A e \in a..b : s = [Name |-> n, Args |-> l] /\ Blank(t, e + 1, b) =>
                 ThenEnd(t, p, WithStep(P, n, l), e + 1)
      PROVE  Comes(t, a, Names(t, p, P))
  <2>1. PICK o \in a..b, e \in Closes(t, a, b) :
                /\ o < e /\ t[o] = "(" /\ t[e] = ")"
                /\ \E n \in Identifiers(t, a, o - 1), l \in Brackets(t, o + 1, e - 1) :
                      s = [Name |-> n, Args |-> l]
    BY <1>1, <1>2, StepsTyped
  <2>2. PICK n \in Identifiers(t, a, o - 1), l \in Brackets(t, o + 1, e - 1) :
                s = [Name |-> n, Args |-> l]
    BY <2>1
  <2>3. e \in a..b /\ Blank(t, e + 1, b)
    BY DEF Closes
  <2>4. ThenEnd(t, p, WithStep(P, n, l), e + 1)
    BY <1>2, <2>2, <2>3
  <2>5. /\ o \in 1..Len(t) /\ o + 1 \in 1..(Len(t) + 1) /\ e \in (o + 1)..Len(t)
        /\ o - 1 \in Int /\ o - 1 <= Len(t)
    BY <1>1, <1>2, <2>1, <2>3
  <2>6. ThenArgs(t, p, P, n, o + 1)
    BY <2>1, <2>4, <2>5, ArgsCome
  <2>7. o \in Opens(t, p, P, n)
    BY <2>1, <2>5, <2>6 DEF Opens
  <2>13. IsNameOf(n, t, a, o - 1)
    BY <1>6, <2>5
  <2>8. PICK x \in a..(o - 1) : \E y \in x..(o - 1) :
                /\ Blank(t, a, x - 1) /\ Blank(t, y + 1, o - 1)
                /\ t[x] \in isIdentStart
                /\ \A k \in (x + 1)..y : t[k] \in isIdentPart
                /\ n = SubSeq(t, x, y)
    BY <2>13 DEF IsNameOf
  <2>9. PICK y \in x..(o - 1) :
                /\ Blank(t, a, x - 1) /\ Blank(t, y + 1, o - 1)
                /\ t[x] \in isIdentStart
                /\ \A k \in (x + 1)..y : t[k] \in isIdentPart
                /\ n = SubSeq(t, x, y)
    BY <2>8
  <2>10. x \in 1..Len(t) /\ y \in x..Len(t) /\ o >= y + 1 /\ x >= a
    BY <1>1, <2>5
  <2>11. ThenOpen(t, p, P, SubSeq(t, x, y), y + 1)
    BY <2>7, <2>9, <2>10 DEF ThenOpen, Comes
  <2>12. x \in Names(t, p, P)
    BY <2>9, <2>10, <2>11, NamesAt
  <2> QED
    BY <2>9, <2>10, <2>12 DEF Comes
<1>3. ASSUME ThenStep(t, p, P, a) PROVE Comes(t, a, Names(t, p, P))
  <2>1. PICK r \in Tails(t)[a] : p = P \o r
    BY <1>3 DEF ThenStep
  <2>2. TailOf(r, t, a)
    BY TailSteps
  <2>3. CASE \E s \in Steps(t, a, Len(t)) : r = <<s>>
    <3>1. PICK s \in Steps(t, a, Len(t)) : r = <<s>>
      BY <2>3
    <3>2. s \in StepValues
      <4>1. Len(t) \in Int /\ Len(t) <= Len(t)
        BY <1>1
      <4> QED
        BY <1>5, <4>1
    <3>3. p = Append(P, s)
      BY <2>1, <3>1, <3>2
    <3>4. ASSUME NEW n, NEW l, NEW e \in a..Len(t), s = [Name |-> n, Args |-> l], Blank(t, e + 1, Len(t))
          PROVE  ThenEnd(t, p, WithStep(P, n, l), e + 1)
      BY <3>3, <3>4 DEF ThenEnd, WithStep
    <3>5. Len(t) \in Int /\ Len(t) <= Len(t)
      BY <1>1
    <3> QED
      BY <1>2, <3>4, <3>5
  <2>4. CASE \E m \in a..Len(t) : /\ t[m] = "|"
                                  /\ \E s \in Steps(t, a, m - 1), z \in Tails(t)[m + 1] : r = <<s>> \o z
    <3>1. PICK m \in a..Len(t) : /\ t[m] = "|"
                                 /\ \E s \in Steps(t, a, m - 1), z \in Tails(t)[m + 1] : r = <<s>> \o z
      BY <2>4
    <3>2. PICK s \in Steps(t, a, m - 1), z \in Tails(t)[m + 1] : r = <<s>> \o z
      BY <3>1
    <3>3. m - 1 \in Int /\ m - 1 <= Len(t) /\ m + 1 \in 1..(Len(t) + 1) /\ m \in 1..Len(t)
      BY <1>1
    <3>4. s \in StepValues
      BY <1>5, <3>3
    <3>5. z \in Seq(StepValues)
      BY <3>3, TailSteps
    <3>6. p = Append(P, s) \o z
      <4>1. P \o (<<s>> \o z) = Append(P, s) \o z
        <5>1. MovesOver(P, s, z)
          BY <3>4, <3>5, OneMore
        <5> QED
          BY <5>1 DEF MovesOver
      <4> QED
        BY <2>1, <3>2, <4>1
    <3>7. m \in Bars(t, p, Append(P, s))
      BY <3>1, <3>3, <3>6 DEF Bars, ThenStep
    <3>8. ASSUME NEW n, NEW l, NEW e \in a..(m - 1), s = [Name |-> n, Args |-> l], Blank(t, e + 1, m - 1)
          PROVE  ThenEnd(t, p, WithStep(P, n, l), e + 1)
      <4>1. m >= e + 1
        BY <3>3
      <4>2. Comes(t, e + 1, Bars(t, p, Append(P, s)))
        BY <3>7, <3>8, <4>1 DEF Comes
      <4> QED
        BY <3>8, <4>2 DEF ThenEnd, WithStep
    <3> QED
      BY <1>2, <3>3, <3>8
  <2> QED
    BY <2>2, <2>3, <2>4 DEF TailOf
<1>4. ASSUME Comes(t, a, Names(t, p, P)) PROVE ThenStep(t, p, P, a)
  <2>1. PICK x \in Names(t, p, P) : x >= a /\ Blank(t, a, x - 1)
    BY <1>4 DEF Comes
  <2>2. x \in 1..Len(t)
    BY DEF Names
  <2>3. PICK y \in x..Len(t) : /\ t[x] \in isIdentStart
                               /\ \A k \in (x + 1)..y : t[k] \in isIdentPart
                               /\ ThenOpen(t, p, P, SubSeq(t, x, y), y + 1)
    BY <2>2, NamesAt
  <2> DEFINE n == SubSeq(t, x, y)
  <2>4. PICK o \in Opens(t, p, P, n) : o >= y + 1 /\ Blank(t, y + 1, o - 1)
    BY <2>3 DEF ThenOpen, Comes
  <2>5. o \in 1..Len(t) /\ t[o] = "(" /\ ThenArgs(t, p, P, n, o + 1)
    BY DEF Opens
  <2>6. /\ x \in a..(o - 1) /\ y \in x..(o - 1) /\ o - 1 \in Int /\ o - 1 <= Len(t)
        /\ o + 1 \in 1..(Len(t) + 1)
    BY <1>1, <2>1, <2>2, <2>4, <2>5
  <2>7. n \in Identifiers(t, a, o - 1)
    <3>1. IsNameOf(n, t, a, o - 1)
      BY <2>1, <2>3, <2>4, <2>6 DEF IsNameOf
    <3> HIDE DEF n
    <3> QED
      BY <1>6, <2>6, <3>1
  <2> HIDE DEF n
  <2>8. PICK e \in (o + 1)..Len(t) :
               /\ t[e] = ")"
               /\ \E l \in Brackets(t, o + 1, e - 1) : ThenEnd(t, p, WithStep(P, n, l), e + 1)
    BY <2>5, <2>6, ArgsCome
  <2>9. PICK l \in Brackets(t, o + 1, e - 1) : ThenEnd(t, p, WithStep(P, n, l), e + 1)
    BY <2>8
  <2> DEFINE s == [Name |-> n, Args |-> l]
  <2>10. ASSUME NEW b \in e..Len(t), Blank(t, e + 1, b) PROVE s \in Steps(t, a, b) /\ s \in StepValues
    <3>1. b \in Int /\ b <= Len(t) /\ o \in a..b /\ e \in a..b /\ o < e
      <4>1. x \in Int /\ o \in Int /\ e \in Int /\ a <= x /\ x <= o - 1 /\ o + 1 <= e
        BY <1>1, <2>5, <2>6
      <4>2. b \in Int /\ e <= b /\ b <= Len(t)
        BY <1>1
      <4> HIDE DEF n, s
      <4> QED
        BY <1>1, <4>1, <4>2
    <3>2. e \in Closes(t, a, b)
      BY <2>10, <3>1 DEF Closes
    <3> HIDE DEF s
    <3>3. \E nn \in Identifiers(t, a, o - 1), ll \in Brackets(t, o + 1, e - 1) : s = [Name |-> nn, Args |-> ll]
      BY <2>7, <2>9 DEF s
    <3>4. s \in Steps(t, a, b)
      BY <1>5, <2>5, <2>8, <3>1, <3>2, <3>3
    <3> QED
      BY <1>5, <3>1, <3>4 DEF s
  <2>11. CASE Blank(t, e + 1, Len(t)) /\ p = Append(P, s)
    <3>1. Len(t) \in e..Len(t)
      BY <1>1, <2>6
    <3>2. s \in Steps(t, a, Len(t)) /\ s \in StepValues
      BY <2>10, <2>11, <3>1
    <3> HIDE DEF s
    <3>3. TailOf(<<s>>, t, a)
      BY <3>2 DEF TailOf
    <3>4. <<s>> \in Tails(t)[a]
      BY <3>3, TailSteps
    <3>5. p = P \o <<s>>
      BY <2>11, <3>2
    <3> QED
      BY <3>4, <3>5 DEF ThenStep
  <2>12. CASE Comes(t, e + 1, Bars(t, p, Append(P, s)))
    <3>1. PICK m \in Bars(t, p, Append(P, s)) : m >= e + 1 /\ Blank(t, e + 1, m - 1)
      BY <2>12 DEF Comes
    <3>2. m \in 1..Len(t) /\ t[m] = "|" /\ ThenStep(t, p, Append(P, s), m + 1)
      BY DEF Bars
    <3>3. m - 1 \in e..Len(t) /\ m \in a..Len(t) /\ m + 1 \in 1..(Len(t) + 1)
      <4>1. x \in Int /\ o \in Int /\ e \in Int /\ a <= x /\ x <= o - 1 /\ o + 1 <= e
        BY <1>1, <2>5, <2>6
      <4>2. m \in Int /\ m <= Len(t) /\ m >= e + 1
        BY <1>1, <3>1, <3>2
      <4> HIDE DEF n, s
      <4> QED
        BY <1>1, <4>1, <4>2
    <3>4. s \in Steps(t, a, m - 1) /\ s \in StepValues
      BY <2>10, <3>1, <3>3
    <3> HIDE DEF s
    <3>5. PICK z \in Tails(t)[m + 1] : p = Append(P, s) \o z
      BY <3>2 DEF ThenStep
    <3>6. z \in Seq(StepValues)
      BY <3>3, TailSteps
    <3>7. Append(P, s) \o z = P \o (<<s>> \o z)
      <4>1. MovesOver(P, s, z)
        BY <3>4, <3>6, OneMore
      <4> QED
        BY <4>1 DEF MovesOver
    <3>8. TailOf(<<s>> \o z, t, a)
      BY <3>2, <3>3, <3>4 DEF TailOf
    <3>9. <<s>> \o z \in Tails(t)[a]
      BY <3>8, TailSteps
    <3> QED
      BY <3>5, <3>7, <3>9 DEF ThenStep
  <2> QED
    BY <2>9, <2>11, <2>12 DEF ThenEnd, WithStep
<1> QED
  BY <1>3, <1>4

-----------------------------------------------------------------------------
(* What the parser has read so far, and what may still come.                *)

\* What has been read is of its kind.
ReadInv == /\ pipeline \in Seq(StepValues) /\ name \in Seq(Runes) /\ args \in Seq(ArgValues)
           /\ stage = "idle" => pipeline = << >>
           /\ stage \in {"name", "afterName", "afterOpen"} => args = << >>
           /\ stage \in {"string", "escape"} => IsQuote(quote)

\* An argument begins with a quote, a minus or a digit.
LEMMA parseArgBegins ==
    ASSUME parseArg
    PROVE  /\ (At("afterOpen") /\ More /\ Rune # ")") \/ At("afterComma")
           /\ \/ /\ More /\ IsQuote(Rune) /\ Eat("string")
                 /\ quote' = Rune /\ token' = << >> /\ UNCHANGED <<pipeline, name, args>>
              \/ /\ More /\ Rune \in {"-"} \cup Digits /\ Eat("digits")
                 /\ token' = <<Rune>> /\ UNCHANGED <<pipeline, name, args, quote>>
              \/ /\ More => ~IsQuote(Rune) /\ Rune \notin {"-"} \cup Digits
                 /\ Fail
<1>1. Peek({"\"", "'"}) <=> More /\ IsQuote(Rune)
  BY DEF Peek, IsQuote
<1>2. Peek({"\"", "'", "-"} \cup Digits) <=> More /\ (IsQuote(Rune) \/ Rune \in {"-"} \cup Digits)
  BY DEF Peek, IsQuote
<1>3. Peek({"-"} \cup Digits) <=> More /\ Rune \in {"-"} \cup Digits
  BY DEF Peek
<1> QED
  BY <1>1, <1>2, <1>3 DEF parseArg

\* A backslash, a minus and a bracket are no quotes.
LEMMA QuoteApart == \A c : IsQuote(c) => c # "\\" /\ c # "-" /\ c # ")"
BY Zenon DEF IsQuote

\* A text or a number goes to the arguments, and a step to the pipeline.
LEMMA ReadTyped ==
    /\ \A w \in Seq(Runes), l \in Seq(ArgValues) : WithText(l, w) \in Seq(ArgValues)
    /\ \A w, l : IsNumber(w) /\ l \in Seq(ArgValues) => WithNumber(l, w) \in Seq(ArgValues)
    /\ \A n \in Seq(Runes), l \in Seq(ArgValues), P \in Seq(StepValues) :
          WithStep(P, n, l) \in Seq(StepValues)
<1>1. ASSUME NEW w \in Seq(Runes), NEW l \in Seq(ArgValues) PROVE WithText(l, w) \in Seq(ArgValues)
  <2>1. Arg(w, None, None) \in ArgValues
    BY DEF ArgValues
  <2> QED
    BY <2>1 DEF WithText
<1>2. ASSUME NEW w, IsNumber(w), NEW l \in Seq(ArgValues) PROVE WithNumber(l, w) \in Seq(ArgValues)
  <2>1. Atoi(w) \in Int
    BY <1>2, AtoiTyped DEF IsNumber
  <2>2. Arg(None, Atoi(w), None) \in ArgValues
    BY <2>1 DEF ArgValues
  <2> QED
    BY <2>2 DEF WithNumber
<1>3. ASSUME NEW n \in Seq(Runes), NEW l \in Seq(ArgValues), NEW P \in Seq(StepValues)
      PROVE  WithStep(P, n, l) \in Seq(StepValues)
  <2>1. [Name |-> n, Args |-> l] \in StepValues
    BY DEF StepValues
  <2> QED
    BY <2>1 DEF WithStep
<1> QED
  BY <1>1, <1>2, <1>3

\* Every step keeps what was read of its kind.
LEMMA ReadStep ==
    ASSUME ParserInv, ReadInv, [ParserNext]_parserVars
    PROVE  ReadInv'
<1> USE DEF ReadInv
<1>0. ASSUME Others, ~(stage' \in {"string", "escape", "name", "afterName", "afterOpen", "idle"}) PROVE ReadInv'
  BY <1>0 DEF Others
<1>1. ASSUME Fail PROVE ReadInv'
  BY <1>1, EmptySeq DEF Fail, Goto
<1>2. CASE Parse
  BY <1>2 DEF Parse
<1>3. CASE Parsed
  BY <1>3, EmptySeq DEF Parsed
<1>4. CASE skipSpace
  BY <1>4 DEF skipSpace, Eat, Others, Skips
<1>5. CASE Empty \/ Finish \/ Bar \/ Comma
  BY <1>0, <1>1, <1>5 DEF Empty, Finish, Bar, Comma, Goto, Eat
<1>6. CASE Ident
  BY <1>1, <1>6, EmptySeq DEF Ident, Eat
<1>7. CASE IdentPart
  <2>1. args = << >>
    BY <1>7 DEF IdentPart
  <2> QED
    BY <1>7, <2>1 DEF IdentPart, Eat, Goto, ParserInv
<1>8. CASE Open
  BY <1>1, <1>8 DEF Open, At, Eat, Others
<1>9. CASE parseArg
  <2>1. CASE Eat("string") /\ IsQuote(Rune) /\ quote' = Rune /\ UNCHANGED <<pipeline, name, args>>
    BY <2>1 DEF Eat
  <2>2. CASE Eat("digits") /\ UNCHANGED <<pipeline, name, args, quote>>
    BY <2>2 DEF Eat
  <2> QED
    BY <1>1, <1>9, <2>1, <2>2, parseArgBegins
<1>10. CASE Escape
  BY <1>1, <1>10 DEF Escape, Eat
<1>11. CASE parseString
  <2>1. CASE Eat("escape") /\ Others
    BY <1>11, <2>1 DEF Eat, Others, parseString
  <2>2. CASE Eat("afterArg") /\ args' = Append(args, Arg(token, None, None)) /\ UNCHANGED <<pipeline, name, token, quote>>
    <3>1. WithText(args, token) \in Seq(ArgValues)
      BY ReadTyped DEF ParserInv
    <3> QED
      BY <2>2, <3>1 DEF Eat, WithText
  <2>3. CASE Eat("string") /\ UNCHANGED <<pipeline, name, args, quote>>
    BY <1>11, <2>3 DEF Eat, parseString
  <2> QED
    BY <1>1, <1>11, <2>1, <2>2, <2>3 DEF parseString
<1>12. CASE parseInt
  <2>1. CASE Eat("digits") /\ UNCHANGED <<pipeline, name, args, quote>>
    BY <2>1 DEF Eat
  <2>2. CASE /\ IsNumber(token) /\ Goto("afterArg") /\ args' = WithNumber(args, token)
             /\ UNCHANGED <<pipeline, name, token, quote>>
    BY <2>2, ReadTyped DEF Goto
  <2> QED
    BY <1>1, <1>12, <2>1, <2>2 DEF parseInt, IsNumber, WithNumber
<1>13. CASE Close
  <2>1. CASE Eat("afterStep") /\ pipeline' = WithStep(pipeline, name, args) /\ UNCHANGED <<name, args, token, quote>>
    BY <2>1, ReadTyped DEF Eat
  <2> QED
    BY <1>1, <1>13, <2>1 DEF Close, WithStep
<1>14. CASE UNCHANGED parserVars
  BY <1>14 DEF parserVars
<1> QED
  BY <1>2, <1>3, <1>4, <1>5, <1>6, <1>7, <1>8, <1>9, <1>10, <1>11, <1>12, <1>13, <1>14
     DEF ParserNext, parserStep

\* White space is passed, wherever it may stand.
LEMMA SpacePassed ==
    ASSUME NEW t \in Seq(Runes), NEW p, NEW P \in Seq(StepValues), NEW n, NEW l \in Seq(ArgValues),
           NEW a \in 1..Len(t), t[a] \in Space
    PROVE  /\ Blank(t, a, Len(t)) <=> Blank(t, a + 1, Len(t))
           /\ ThenStep(t, p, P, a) <=> ThenStep(t, p, P, a + 1)
           /\ ThenOpen(t, p, P, n, a) <=> ThenOpen(t, p, P, n, a + 1)
           /\ ThenArgs(t, p, P, n, a) <=> ThenArgs(t, p, P, n, a + 1)
           /\ ThenArg(t, p, P, n, l, a) <=> ThenArg(t, p, P, n, l, a + 1)
           /\ ThenMore(t, p, P, n, l, a) <=> ThenMore(t, p, P, n, l, a + 1)
           /\ ThenEnd(t, p, P, a) <=> ThenEnd(t, p, P, a + 1)
<1>1. /\ a \in Int /\ Len(t) \in Int /\ a <= Len(t) /\ a \in Nat
      /\ a \in 1..(Len(t) + 1) /\ a + 1 \in 1..(Len(t) + 1)
  BY LenProperties
<1>2. Blank(t, a, Len(t)) <=> Blank(t, a + 1, Len(t))
  BY <1>1, BlankNext
<1>3. \A M : IsMarks(t, M) => (Comes(t, a, M) <=> Comes(t, a + 1, M))
  BY <1>1, ComesNext
<1>4. ThenStep(t, p, P, a) <=> ThenStep(t, p, P, a + 1)
  <2>1. IsMarks(t, Names(t, p, P))
    BY Marks
  <2> QED
    BY <1>1, <1>3, <2>1, StepComes
<1>5. ThenOpen(t, p, P, n, a) <=> ThenOpen(t, p, P, n, a + 1)
  <2>1. IsMarks(t, Opens(t, p, P, n))
    BY Marks
  <2> QED
    BY <1>3, <2>1 DEF ThenOpen
<1>6. ASSUME NEW k \in Seq(ArgValues) PROVE ThenArg(t, p, P, n, k, a) <=> ThenArg(t, p, P, n, k, a + 1)
  <2>1. IsMarks(t, Values(t, p, P, n, k))
    BY Marks
  <2>2. ThenArg(t, p, P, n, k, a) <=> Comes(t, a, Values(t, p, P, n, k))
    BY <1>1, ArgComes
  <2>3. ThenArg(t, p, P, n, k, a + 1) <=> Comes(t, a + 1, Values(t, p, P, n, k))
    BY <1>1, ArgComes
  <2> QED
    BY <1>3, <2>1, <2>2, <2>3
<1>7. ThenArgs(t, p, P, n, a) <=> ThenArgs(t, p, P, n, a + 1)
  <2>1. IsMarks(t, Closings(t, p, P, n, << >>))
    BY Marks
  <2>2. Comes(t, a, Closings(t, p, P, n, << >>)) <=> Comes(t, a + 1, Closings(t, p, P, n, << >>))
    BY <1>3, <2>1
  <2>3. << >> \in Seq(ArgValues)
    BY EmptySeq
  <2>4. ThenArg(t, p, P, n, << >>, a) <=> ThenArg(t, p, P, n, << >>, a + 1)
    BY <1>6, <2>3
  <2> QED
    BY <2>2, <2>4 DEF ThenArgs
<1>8. ThenMore(t, p, P, n, l, a) <=> ThenMore(t, p, P, n, l, a + 1)
  <2>1. IsMarks(t, Closings(t, p, P, n, l) \cup Commas(t, p, P, n, l))
    BY Marks
  <2> QED
    BY <1>3, <2>1 DEF ThenMore
<1>9. ThenEnd(t, p, P, a) <=> ThenEnd(t, p, P, a + 1)
  <2>1. IsMarks(t, Bars(t, p, P))
    BY Marks
  <2> QED
    BY <1>2, <1>3, <2>1 DEF ThenEnd
<1> QED
  BY <1>2, <1>4, <1>5, <1>6, <1>7, <1>8, <1>9

\* Where no white space is, the rune there decides.
LEMMA RuneDecides ==
    ASSUME NEW t \in Seq(Runes), NEW p, NEW P \in Seq(StepValues), NEW n, NEW l \in Seq(ArgValues),
           NEW a \in 1..Len(t), t[a] \notin Space
    PROVE  /\ ~Blank(t, a, Len(t))
           /\ ThenStep(t, p, P, a) <=> a \in Names(t, p, P)
           /\ ThenOpen(t, p, P, n, a) <=> a \in Opens(t, p, P, n)
           /\ ThenArgs(t, p, P, n, a) <=>
                 a \in Closings(t, p, P, n, << >>) \/ a \in Values(t, p, P, n, << >>)
           /\ ThenArg(t, p, P, n, l, a) <=> a \in Values(t, p, P, n, l)
           /\ ThenMore(t, p, P, n, l, a) <=> a \in Closings(t, p, P, n, l) \/ a \in Commas(t, p, P, n, l)
           /\ ThenEnd(t, p, P, a) <=> a \in Bars(t, p, P)
<1>1. a \in Nat /\ a \in a..Len(t) /\ a \in 1..(Len(t) + 1)
  BY LenProperties
<1>2. ~Blank(t, a, Len(t))
  BY <1>1 DEF Blank
<1>3. \A M : IsMarks(t, M) => (Comes(t, a, M) <=> a \in M)
  BY <1>1, ComesHere
<1>4. ThenStep(t, p, P, a) <=> a \in Names(t, p, P)
  <2>1. IsMarks(t, Names(t, p, P))
    BY Marks
  <2> QED
    BY <1>1, <1>3, <2>1, StepComes
<1>5. ThenOpen(t, p, P, n, a) <=> a \in Opens(t, p, P, n)
  <2>1. IsMarks(t, Opens(t, p, P, n))
    BY Marks
  <2> QED
    BY <1>3, <2>1 DEF ThenOpen
<1>6. ASSUME NEW k \in Seq(ArgValues) PROVE ThenArg(t, p, P, n, k, a) <=> a \in Values(t, p, P, n, k)
  <2>1. IsMarks(t, Values(t, p, P, n, k))
    BY Marks
  <2>2. ThenArg(t, p, P, n, k, a) <=> Comes(t, a, Values(t, p, P, n, k))
    BY <1>1, ArgComes
  <2> QED
    BY <1>3, <2>1, <2>2
<1>7. ThenArgs(t, p, P, n, a) <=> a \in Closings(t, p, P, n, << >>) \/ a \in Values(t, p, P, n, << >>)
  <2>1. IsMarks(t, Closings(t, p, P, n, << >>))
    BY Marks
  <2>2. Comes(t, a, Closings(t, p, P, n, << >>)) <=> a \in Closings(t, p, P, n, << >>)
    BY <1>3, <2>1
  <2>3. << >> \in Seq(ArgValues)
    BY EmptySeq
  <2>4. ThenArg(t, p, P, n, << >>, a) <=> a \in Values(t, p, P, n, << >>)
    BY <1>6, <2>3
  <2> QED
    BY <2>2, <2>4 DEF ThenArgs
<1>8. ThenMore(t, p, P, n, l, a) <=> a \in Closings(t, p, P, n, l) \/ a \in Commas(t, p, P, n, l)
  <2>1. IsMarks(t, Closings(t, p, P, n, l) \cup Commas(t, p, P, n, l))
    BY Marks
  <2> QED
    BY <1>3, <2>1 DEF ThenMore
<1>9. ThenEnd(t, p, P, a) <=> a \in Bars(t, p, P)
  <2>1. IsMarks(t, Bars(t, p, P))
    BY Marks
  <2> QED
    BY <1>2, <1>3, <2>1 DEF ThenEnd
<1> QED
  BY <1>2, <1>4, <1>5, <1>6, <1>7, <1>8, <1>9

\* At the end of the text nothing more may come than the end.
LEMMA EndDecides ==
    ASSUME NEW t \in Seq(Runes), NEW p, NEW P \in Seq(StepValues), NEW n, NEW l \in Seq(ArgValues),
           NEW a \in 1..(Len(t) + 1), a > Len(t)
    PROVE  /\ Blank(t, a, Len(t))
           /\ ~ThenStep(t, p, P, a) /\ ~ThenOpen(t, p, P, n, a)
           /\ ~ThenArgs(t, p, P, n, a) /\ ~ThenArg(t, p, P, n, l, a)
           /\ ~ThenMore(t, p, P, n, l, a)
           /\ ThenEnd(t, p, P, a) <=> p = P
<1>1. a \in Nat /\ Len(t) \in Nat /\ a..Len(t) = {}
  BY LenProperties
<1>2. Blank(t, a, Len(t))
  BY <1>1 DEF Blank
<1>3. \A M : IsMarks(t, M) => ~Comes(t, a, M)
  BY <1>1, ComesEnd
<1>4. ~ThenStep(t, p, P, a)
  <2>1. IsMarks(t, Names(t, p, P))
    BY Marks
  <2> QED
    BY <1>3, <2>1, StepComes
<1>5. ~ThenOpen(t, p, P, n, a)
  <2>1. IsMarks(t, Opens(t, p, P, n))
    BY Marks
  <2> QED
    BY <1>3, <2>1 DEF ThenOpen
<1>6. \A k : ~ThenArg(t, p, P, n, k, a)
  BY <1>1 DEF ThenArg
<1>7. ~ThenArgs(t, p, P, n, a)
  <2>1. IsMarks(t, Closings(t, p, P, n, << >>))
    BY Marks
  <2> QED
    BY <1>3, <1>6, <2>1 DEF ThenArgs
<1>8. ~ThenMore(t, p, P, n, l, a)
  <2>1. IsMarks(t, Closings(t, p, P, n, l) \cup Commas(t, p, P, n, l))
    BY Marks
  <2> QED
    BY <1>3, <2>1 DEF ThenMore
<1>9. ThenEnd(t, p, P, a) <=> p = P
  <2>1. IsMarks(t, Bars(t, p, P))
    BY Marks
  <2> QED
    BY <1>2, <1>3, <2>1 DEF ThenEnd
<1> QED
  BY <1>2, <1>4, <1>5, <1>6, <1>7, <1>8, <1>9

-----------------------------------------------------------------------------
(* What was read and what may still come is what the text denotes.          *)

\* The parser may still return p.
MayReturn(p) ==
    \/ stage = "done" /\ p = pipeline
    \/ stage = "begin" /\ Blank(text, pos + 1, Len(text)) /\ p = pipeline
    \/ /\ Len(p) <= maxPipelineLength
       /\ \/ stage = "begin" /\ ~Blank(text, pos + 1, Len(text)) /\ ThenStep(text, p, pipeline, pos + 1)
          \/ stage = "afterBar"   /\ ThenStep(text, p, pipeline, pos + 1)
          \/ stage = "name"       /\ InName(text, p, pipeline, token, pos + 1)
          \/ stage = "afterName"  /\ ThenOpen(text, p, pipeline, name, pos + 1)
          \/ stage = "afterOpen"  /\ ThenArgs(text, p, pipeline, name, pos + 1)
          \/ stage = "afterComma" /\ ThenArg(text, p, pipeline, name, args, pos + 1)
          \/ stage = "digits"     /\ InNumber(text, p, pipeline, name, args, token, pos + 1)
          \/ stage = "string"     /\ InString(text, p, pipeline, name, args, token, quote, pos + 1)
          \/ stage = "escape" /\ More /\ InString(text, p, pipeline, name, args, Append(token, text[pos + 1]),
                                                  quote, pos + 2)
          \/ stage = "afterArg"   /\ ThenMore(text, p, pipeline, name, args, pos + 1)
          \/ stage = "afterStep"  /\ ThenEnd(text, p, pipeline, pos + 1)

\* The text denotes what the parser may still return, and nothing else.
GrammarInv == stage # "idle" => \A p : p \in Pipelines(text) <=> MayReturn(p)

\* Where the parser stands.
LEMMA Place ==
    ASSUME ParserInv
    PROVE  /\ text \in Seq(Runes) /\ pos + 1 \in 1..(Len(text) + 1)
           /\ (pos + 1) + 1 = pos + 2 /\ (pos + 1) + 2 = pos + 3
           /\ More => pos + 1 \in 1..Len(text) /\ Rune = text[pos + 1]
           /\ ~More => pos + 1 > Len(text)
           /\ \A S : Peek(S) <=> More /\ Rune \in S
<1>1. Len(text) \in Nat /\ text \in Seq(Runes) /\ pos \in 0..Len(text)
  BY LenProperties DEF ParserInv
<1>2. \A S : Peek(S) <=> More /\ Rune \in S
  BY DEF Peek
<1> QED
  BY <1>1, <1>2 DEF More, Rune

\* White space changes nothing.
LEMMA SpaceKeeps ==
    ASSUME ParserInv, ReadInv, skipSpace, NEW p
    PROVE  MayReturn(p)' <=> MayReturn(p)
<1> DEFINE a == pos + 1
<1>1. /\ text \in Seq(Runes) /\ a \in 1..Len(text) /\ text[a] \in Space
      /\ pipeline \in Seq(StepValues) /\ args \in Seq(ArgValues)
  BY Place DEF skipSpace, ReadInv
<1>2. /\ Blank(text, a, Len(text)) <=> Blank(text, a + 1, Len(text))
      /\ ThenStep(text, p, pipeline, a) <=> ThenStep(text, p, pipeline, a + 1)
      /\ ThenOpen(text, p, pipeline, name, a) <=> ThenOpen(text, p, pipeline, name, a + 1)
      /\ ThenArgs(text, p, pipeline, name, a) <=> ThenArgs(text, p, pipeline, name, a + 1)
      /\ ThenArg(text, p, pipeline, name, args, a) <=> ThenArg(text, p, pipeline, name, args, a + 1)
      /\ ThenMore(text, p, pipeline, name, args, a) <=> ThenMore(text, p, pipeline, name, args, a + 1)
      /\ ThenEnd(text, p, pipeline, a) <=> ThenEnd(text, p, pipeline, a + 1)
  <2> HIDE DEF a
  <2> QED
    BY <1>1, SpacePassed
<1>3. /\ stage \in Skips /\ stage' = stage /\ pos' = a /\ text' = text
      /\ pipeline' = pipeline /\ name' = name /\ args' = args
  BY DEF skipSpace, Eat, Others
<1>4. MayReturn(p) <=>
         \/ stage = "begin" /\ Blank(text, a, Len(text)) /\ p = pipeline
         \/ /\ Len(p) <= maxPipelineLength
            /\ \/ stage = "begin" /\ ~Blank(text, a, Len(text)) /\ ThenStep(text, p, pipeline, a)
               \/ stage = "afterBar"   /\ ThenStep(text, p, pipeline, a)
               \/ stage = "afterName"  /\ ThenOpen(text, p, pipeline, name, a)
               \/ stage = "afterOpen"  /\ ThenArgs(text, p, pipeline, name, a)
               \/ stage = "afterComma" /\ ThenArg(text, p, pipeline, name, args, a)
               \/ stage = "afterArg"   /\ ThenMore(text, p, pipeline, name, args, a)
               \/ stage = "afterStep"  /\ ThenEnd(text, p, pipeline, a)
  BY <1>3 DEF MayReturn, Skips
<1>5. MayReturn(p)' <=>
         \/ stage = "begin" /\ Blank(text, a + 1, Len(text)) /\ p = pipeline
         \/ /\ Len(p) <= maxPipelineLength
            /\ \/ stage = "begin" /\ ~Blank(text, a + 1, Len(text)) /\ ThenStep(text, p, pipeline, a + 1)
               \/ stage = "afterBar"   /\ ThenStep(text, p, pipeline, a + 1)
               \/ stage = "afterName"  /\ ThenOpen(text, p, pipeline, name, a + 1)
               \/ stage = "afterOpen"  /\ ThenArgs(text, p, pipeline, name, a + 1)
               \/ stage = "afterComma" /\ ThenArg(text, p, pipeline, name, args, a + 1)
               \/ stage = "afterArg"   /\ ThenMore(text, p, pipeline, name, args, a + 1)
               \/ stage = "afterStep"  /\ ThenEnd(text, p, pipeline, a + 1)
  <2> HIDE DEF a
  <2> QED
    BY <1>3 DEF MayReturn, Skips
<1> QED
  BY <1>2, <1>4, <1>5

\* What a step begins with.
LEMMA IdentKeeps ==
    ASSUME ParserInv, ReadInv, Ident, NEW p
    PROVE  MayReturn(p)' <=> MayReturn(p)
<1> DEFINE a == pos + 1
           fits == Len(p) <= maxPipelineLength
<1>1. /\ text \in Seq(Runes) /\ pipeline \in Seq(StepValues) /\ args \in Seq(ArgValues)
      /\ a \in 1..(Len(text) + 1)
  BY Place DEF ReadInv
<1>2. /\ stage \in {"begin", "afterBar"} /\ (stage = "begin" => More) /\ ~Peek(Space)
      /\ IF Peek(isIdentStart)
         THEN Eat("name") /\ token' = <<Rune>> /\ UNCHANGED <<pipeline, name, quote>>
         ELSE Fail
  BY DEF Ident, At
<1>3. MayReturn(p) <=> fits /\ More /\ a \in Names(text, p, pipeline)
  <2>1. CASE More
    <3>1. a \in 1..Len(text) /\ text[a] \notin Space
      BY <1>2, <2>1, Place
    <3>2. /\ ~Blank(text, a, Len(text))
          /\ ThenStep(text, p, pipeline, a) <=> a \in Names(text, p, pipeline)
      <4> HIDE DEF a
      <4> QED
        BY <1>1, <3>1, RuneDecides
    <3> QED
      BY <1>2, <2>1, <3>2 DEF MayReturn
  <2>2. CASE ~More
    <3>1. a > Len(text)
      BY <2>2, Place
    <3>2. ~ThenStep(text, p, pipeline, a)
      <4> HIDE DEF a
      <4> QED
        BY <1>1, <3>1, EndDecides
    <3> QED
      BY <1>2, <2>2, <3>2 DEF MayReturn
  <2> QED
    BY <2>1, <2>2
<1>4. CASE Peek(isIdentStart)
  <2>1. /\ More /\ a \in 1..Len(text) /\ text[a] \in isIdentStart
        /\ stage' = "name" /\ pos' = a /\ text' = text /\ token' = <<text[a]>> /\ pipeline' = pipeline
    BY <1>2, <1>4, Place DEF Eat
  <2>2. MayReturn(p)' <=> fits /\ InName(text, p, pipeline, <<text[a]>>, a + 1)
    <3> HIDE DEF a
    <3> QED
      BY <2>1 DEF MayReturn
  <2> HIDE DEF a
  <2> QED
    BY <1>3, <2>1, <2>2 DEF Names
<1>5. CASE ~Peek(isIdentStart)
  <2>1. stage' = "error"
    BY <1>2, <1>5 DEF Fail, Goto
  <2>2. More => text[a] \notin isIdentStart
    BY <1>5, Place
  <2> HIDE DEF a
  <2> QED
    BY <1>3, <2>1, <2>2 DEF MayReturn, Names
<1> QED
  BY <1>4, <1>5

\* What a name goes on and ends with.
LEMMA IdentPartKeeps ==
    ASSUME ParserInv, ReadInv, IdentPart, NEW p
    PROVE  MayReturn(p)' <=> MayReturn(p)
<1> DEFINE a == pos + 1
           fits == Len(p) <= maxPipelineLength
<1>1. /\ text \in Seq(Runes) /\ token \in Seq(Runes) /\ a \in 1..(Len(text) + 1)
      /\ stage = "name"
  BY Place DEF ParserInv, IdentPart
<1>2. MayReturn(p) <=> fits /\ InName(text, p, pipeline, token, a)
  BY <1>1 DEF MayReturn
<1>3. CASE Peek(isIdentPart)
  <2>1. /\ a \in 1..Len(text) /\ text[a] \in isIdentPart
        /\ stage' = "name" /\ pos' = a /\ text' = text /\ token' = Append(token, text[a])
        /\ pipeline' = pipeline
    BY <1>3, Place DEF IdentPart, Eat
  <2> HIDE DEF a
  <2>2. MayReturn(p)' <=> fits /\ InName(text, p, pipeline, Append(token, text[a]), a + 1)
    BY <2>1 DEF MayReturn
  <2>3. InName(text, p, pipeline, token, a) <=> InName(text, p, pipeline, Append(token, text[a]), a + 1)
    BY <1>1, <2>1, NameGoesOn
  <2> QED
    BY <1>2, <2>2, <2>3
<1>4. CASE ~Peek(isIdentPart)
  <2>1. a <= Len(text) => text[a] \notin isIdentPart
    <3>1. a <= Len(text) => More
      BY <1>1, Place, LenProperties
    <3> QED
      BY <1>4, <3>1, Place
  <2>2. stage' = "afterName" /\ pos' + 1 = a /\ text' = text /\ name' = token /\ pipeline' = pipeline
    BY <1>4 DEF IdentPart, Goto
  <2> HIDE DEF a
  <2>3. MayReturn(p)' <=> fits /\ ThenOpen(text, p, pipeline, token, a)
    BY <2>2 DEF MayReturn
  <2>4. InName(text, p, pipeline, token, a) <=> ThenOpen(text, p, pipeline, token, a)
    BY <1>1, <2>1, NameEnds
  <2> QED
    BY <1>2, <2>3, <2>4
<1> QED
  BY <1>3, <1>4

\* What follows a name.
LEMMA OpenKeeps ==
    ASSUME ParserInv, ReadInv, Open, NEW p
    PROVE  MayReturn(p)' <=> MayReturn(p)
<1> DEFINE a == pos + 1
           fits == Len(p) <= maxPipelineLength
<1>1. /\ text \in Seq(Runes) /\ pipeline \in Seq(StepValues) /\ args \in Seq(ArgValues)
      /\ a \in 1..(Len(text) + 1) /\ stage = "afterName" /\ ~Peek(Space)
  BY Place DEF ReadInv, Open, At
<1>2. MayReturn(p) <=> fits /\ ThenOpen(text, p, pipeline, name, a)
  BY <1>1 DEF MayReturn
<1>3. CASE More
  <2>1. a \in 1..Len(text) /\ Rune = text[a] /\ text[a] \notin Space
    BY <1>1, <1>3, Place
  <2> HIDE DEF a
  <2>2. ThenOpen(text, p, pipeline, name, a) <=>
           text[a] = "(" /\ ThenArgs(text, p, pipeline, name, a + 1)
    <3>1. ThenOpen(text, p, pipeline, name, a) <=> a \in Opens(text, p, pipeline, name)
      BY <1>1, <2>1, RuneDecides
    <3> QED
      BY <2>1, <3>1 DEF Opens
  <2>3. CASE text[a] = "("
    <3>1. /\ stage' = "afterOpen" /\ pos' = a /\ text' = text /\ name' = name /\ pipeline' = pipeline
      BY <1>3, <2>1, <2>3, Place DEF Open, Eat, Others, a
    <3> QED
      BY <1>2, <2>2, <2>3, <3>1 DEF MayReturn
  <2>4. CASE text[a] # "("
    <3>1. stage' = "error"
      BY <2>1, <2>4, Place DEF Open, Fail, Goto
    <3> QED
      BY <1>2, <2>2, <2>4, <3>1 DEF MayReturn
  <2> QED
    BY <2>3, <2>4
<1>4. CASE ~More
  <2>1. a > Len(text)
    BY <1>4, Place
  <2>2. stage' = "error"
    BY <1>4, Place DEF Open, Fail, Goto
  <2> HIDE DEF a
  <2>3. ~ThenOpen(text, p, pipeline, name, a)
    BY <1>1, <2>1, EndDecides
  <2> QED
    BY <1>2, <2>2, <2>3 DEF MayReturn
<1> QED
  BY <1>3, <1>4

\* What an argument begins with.
LEMMA parseArgKeeps ==
    ASSUME ParserInv, ReadInv, parseArg, NEW p
    PROVE  MayReturn(p)' <=> MayReturn(p)
<1> DEFINE a == pos + 1
           fits == Len(p) <= maxPipelineLength
           V == Values(text, p, pipeline, name, args)
<1>1. /\ text \in Seq(Runes) /\ pipeline \in Seq(StepValues) /\ args \in Seq(ArgValues)
      /\ a \in 1..(Len(text) + 1)
  BY Place DEF ReadInv
<1>2. /\ \/ stage = "afterOpen" /\ More /\ Rune # ")"
         \/ stage = "afterComma"
      /\ ~Peek(Space) /\ (stage = "afterOpen" => args = << >>)
  BY parseArgBegins DEF At, ReadInv
<1>3. MayReturn(p) <=> fits /\ More /\ a \in V
  <2>1. CASE More
    <3>1. a \in 1..Len(text) /\ Rune = text[a] /\ text[a] \notin Space
      BY <1>2, <2>1, Place
    <3> HIDE DEF a
    <3>2. /\ ThenArgs(text, p, pipeline, name, a) <=>
                 a \in Closings(text, p, pipeline, name, << >>) \/ a \in Values(text, p, pipeline, name, << >>)
          /\ ThenArg(text, p, pipeline, name, args, a) <=> a \in V
      BY <1>1, <3>1, RuneDecides
    <3>3. text[a] # ")" => a \notin Closings(text, p, pipeline, name, << >>)
      BY DEF Closings
    <3>4. CASE stage = "afterOpen"
      <4>1. MayReturn(p) <=> fits /\ ThenArgs(text, p, pipeline, name, a)
        BY <3>4 DEF MayReturn, a
      <4> QED
        BY <1>2, <2>1, <3>1, <3>2, <3>3, <3>4, <4>1
    <3>5. CASE stage = "afterComma"
      <4>1. MayReturn(p) <=> fits /\ ThenArg(text, p, pipeline, name, args, a)
        BY <3>5 DEF MayReturn, a
      <4> QED
        BY <2>1, <3>2, <4>1
    <3> QED
      BY <1>2, <3>4, <3>5
  <2>2. CASE ~More
    <3>1. a > Len(text) /\ stage = "afterComma"
      BY <1>2, <2>2, Place
    <3>2. ~ThenArg(text, p, pipeline, name, args, a)
      <4> HIDE DEF a
      <4> QED
        BY <1>1, <3>1, EndDecides
    <3> QED
      BY <2>2, <3>1, <3>2 DEF MayReturn
  <2> QED
    BY <2>1, <2>2
<1>4. a \in V <=> /\ a \in 1..Len(text)
                  /\ \/ /\ IsQuote(text[a])
                        /\ InString(text, p, pipeline, name, args, << >>, text[a], a + 1)
                     \/ /\ text[a] \in {"-"} \cup Digits
                        /\ InNumber(text, p, pipeline, name, args, <<text[a]>>, a + 1)
  BY DEF Values
<1> HIDE DEF V
<1>5. CASE /\ More /\ IsQuote(Rune) /\ Eat("string")
           /\ quote' = Rune /\ token' = << >> /\ UNCHANGED <<pipeline, name, args>>
  <2>1. a \in 1..Len(text) /\ IsQuote(text[a]) /\ text[a] \notin {"-"} \cup Digits
    BY <1>5, Place, RunesApart, QuoteApart
  <2>2. /\ stage' = "string" /\ pos' = a /\ text' = text /\ token' = << >> /\ quote' = text[a]
        /\ pipeline' = pipeline /\ name' = name /\ args' = args
    BY <1>5, Place DEF Eat
  <2> HIDE DEF a
  <2>3. MayReturn(p)' <=> fits /\ InString(text, p, pipeline, name, args, << >>, text[a], a + 1)
    BY <2>2 DEF MayReturn
  <2> QED
    BY <1>3, <1>4, <1>5, <2>1, <2>3
<1>6. CASE /\ More /\ Rune \in {"-"} \cup Digits /\ Eat("digits")
           /\ token' = <<Rune>> /\ UNCHANGED <<pipeline, name, args, quote>>
  <2>1. a \in 1..Len(text) /\ ~IsQuote(text[a]) /\ text[a] \in {"-"} \cup Digits
    BY <1>6, Place, RunesApart, QuoteApart
  <2>2. /\ stage' = "digits" /\ pos' = a /\ text' = text /\ token' = <<text[a]>>
        /\ pipeline' = pipeline /\ name' = name /\ args' = args
    BY <1>6, Place DEF Eat
  <2> HIDE DEF a
  <2>3. MayReturn(p)' <=> fits /\ InNumber(text, p, pipeline, name, args, <<text[a]>>, a + 1)
    BY <2>2 DEF MayReturn
  <2> QED
    BY <1>3, <1>4, <1>6, <2>1, <2>3
<1>7. CASE /\ More => ~IsQuote(Rune) /\ Rune \notin {"-"} \cup Digits
           /\ Fail
  <2>1. stage' = "error"
    BY <1>7 DEF Fail, Goto
  <2>2. ~(More /\ a \in V)
    BY <1>4, <1>7, Place
  <2> HIDE DEF a
  <2> QED
    BY <1>3, <2>1, <2>2 DEF MayReturn
<1> QED
  BY <1>5, <1>6, <1>7, parseArgBegins

\* The rune behind a backslash.
LEMMA EscapeKeeps ==
    ASSUME ParserInv, ReadInv, Escape, NEW p
    PROVE  MayReturn(p)' <=> MayReturn(p)
<1>1. MayReturn(p) <=> /\ Len(p) <= maxPipelineLength /\ More
                       /\ InString(text, p, pipeline, name, args, Append(token, text[pos + 1]), quote, pos + 2)
  BY DEF MayReturn, Escape
<1>2. CASE More
  <2>1. /\ stage' = "string" /\ pos' + 1 = pos + 2 /\ text' = text /\ token' = Append(token, text[pos + 1])
        /\ pipeline' = pipeline /\ name' = name /\ args' = args /\ quote' = quote
    BY <1>2, Place DEF Escape, Eat
  <2> QED
    BY <1>1, <1>2, <2>1 DEF MayReturn
<1>3. CASE ~More
  <2>1. stage' = "error"
    BY <1>3 DEF Escape, Fail, Goto
  <2> QED
    BY <1>1, <1>3, <2>1 DEF MayReturn
<1> QED
  BY <1>2, <1>3

\* What a string goes on and ends with.
LEMMA parseStringKeeps ==
    ASSUME ParserInv, ReadInv, parseString, NEW p
    PROVE  MayReturn(p)' <=> MayReturn(p)
<1> DEFINE a == pos + 1
           fits == Len(p) <= maxPipelineLength
           in(w, b) == InString(text, p, pipeline, name, args, w, quote, b)
<1>1. /\ text \in Seq(Runes) /\ token \in Seq(Runes) /\ a \in Nat /\ Len(text) \in Nat
      /\ stage = "string" /\ quote # "\\"
  BY LenProperties, QuoteApart DEF ParserInv, ReadInv, parseString
<1>2. MayReturn(p) <=> fits /\ in(token, a)
  BY <1>1 DEF MayReturn
<1>3. CASE ~More /\ Fail
  <2>1. a > Len(text) /\ stage' = "error"
    BY <1>3, Place DEF Fail, Goto
  <2>2. ~in(token, a)
    BY <1>1, <2>1, StringBreaksOff
  <2> QED
    BY <1>2, <2>1, <2>2 DEF MayReturn
<1>4. CASE Peek({"\\"}) /\ Eat("escape") /\ Others
  <2>1. /\ a \in 1..Len(text) /\ text[a] = "\\" /\ text' = text /\ pos' = a
        /\ a + 1 = pos + 2 /\ a + 2 = pos + 3
    BY <1>4, Place DEF Eat
  <2>2. MayReturn(p)' <=> fits /\ a + 1 <= Len(text) /\ in(Append(token, text[a + 1]), a + 2)
    <3>1. /\ stage' = "escape" /\ text' = text /\ pos' + 1 = a + 1 /\ pos' + 2 = a + 2
          /\ token' = token /\ pipeline' = pipeline /\ name' = name /\ args' = args /\ quote' = quote
      BY <1>4, <2>1 DEF Eat, Others
    <3>2. More' <=> a + 1 <= Len(text)
      BY <1>1, <2>1 DEF More
    <3> HIDE DEF a
    <3> QED
      BY <3>1, <3>2 DEF MayReturn
  <2>3. in(token, a) <=> a + 1 <= Len(text) /\ in(Append(token, text[a + 1]), a + 2)
    <3> HIDE DEF a
    <3> QED
      BY <1>1, <2>1, StringEscapes
  <2> HIDE DEF a, in
  <2> QED
    BY <1>2, <2>2, <2>3
<1>5. CASE /\ Peek({quote} \ {"\\"}) /\ Eat("afterArg")
           /\ args' = Append(args, Arg(token, None, None))
           /\ UNCHANGED <<pipeline, name, token, quote>>
  <2>1. a \in 1..Len(text) /\ text[a] = quote
    BY <1>5, Place
  <2>2. /\ stage' = "afterArg" /\ text' = text /\ pos' = a
        /\ pipeline' = pipeline /\ name' = name /\ args' = WithText(args, token)
    BY <1>5 DEF Eat, WithText
  <2> HIDE DEF a
  <2>3. MayReturn(p)' <=> fits /\ ThenMore(text, p, pipeline, name, WithText(args, token), a + 1)
    BY <2>2 DEF MayReturn
  <2>4. in(token, a) <=> ThenMore(text, p, pipeline, name, WithText(args, token), a + 1)
    BY <1>1, <2>1, StringEnds
  <2> QED
    BY <1>2, <2>3, <2>4
<1>6. CASE /\ More /\ Rune \notin {"\\", quote} /\ Eat("string")
           /\ token' = Append(token, Rune) /\ UNCHANGED <<pipeline, name, args, quote>>
  <2>1. a \in 1..Len(text) /\ text[a] \notin {"\\", quote} /\ Rune = text[a]
    BY <1>6, Place
  <2>2. /\ stage' = "string" /\ text' = text /\ pos' = a /\ token' = Append(token, text[a])
        /\ pipeline' = pipeline /\ name' = name /\ args' = args /\ quote' = quote
    BY <1>6, <2>1 DEF Eat
  <2> HIDE DEF a
  <2>3. MayReturn(p)' <=> fits /\ in(Append(token, text[a]), a + 1)
    BY <2>2 DEF MayReturn
  <2>4. in(token, a) <=> in(Append(token, text[a]), a + 1)
    BY <1>1, <2>1, StringGoesOn
  <2> HIDE DEF in
  <2> QED
    BY <1>2, <2>3, <2>4
<1> QED
  BY <1>3, <1>4, <1>5, <1>6 DEF parseString

\* What an integer goes on and ends with.
LEMMA parseIntKeeps ==
    ASSUME ParserInv, ReadInv, parseInt, NEW p
    PROVE  MayReturn(p)' <=> MayReturn(p)
<1> DEFINE a == pos + 1
           fits == Len(p) <= maxPipelineLength
           in(w, b) == InNumber(text, p, pipeline, name, args, w, b)
<1>1. /\ text \in Seq(Runes) /\ token \in Seq(Runes) /\ a \in 1..(Len(text) + 1)
      /\ stage = "digits"
  BY Place DEF ParserInv, parseInt
<1>2. MayReturn(p) <=> fits /\ in(token, a)
  BY <1>1 DEF MayReturn
<1>3. CASE Peek(Digits)
  <2>1. a \in 1..Len(text) /\ text[a] \in Digits /\ Rune = text[a]
    BY <1>3, Place
  <2>2. /\ stage' = "digits" /\ text' = text /\ pos' = a /\ token' = Append(token, text[a])
        /\ pipeline' = pipeline /\ name' = name /\ args' = args
    BY <1>3, <2>1 DEF Eat, parseInt
  <2> HIDE DEF a
  <2>3. MayReturn(p)' <=> fits /\ in(Append(token, text[a]), a + 1)
    BY <2>2 DEF MayReturn
  <2>4. in(token, a) <=> in(Append(token, text[a]), a + 1)
    BY <1>1, <2>1, NumberGoesOn
  <2> HIDE DEF in
  <2> QED
    BY <1>2, <2>3, <2>4
<1>4. CASE ~Peek(Digits)
  <2>1. a <= Len(text) => text[a] \notin Digits
    <3>1. a <= Len(text) => More
      BY <1>1, Place, LenProperties
    <3> QED
      BY <1>4, <3>1, Place
  <2>2. in(token, a) <=>
           IsNumber(token) /\ ThenMore(text, p, pipeline, name, WithNumber(args, token), a)
    <3> HIDE DEF a
    <3> QED
      BY <1>1, <2>1, NumberEnds
  <2> HIDE DEF in
  <2>3. CASE IsNumber(token)
    <3>1. /\ stage' = "afterArg" /\ text' = text /\ pos' + 1 = a
          /\ pipeline' = pipeline /\ name' = name /\ args' = WithNumber(args, token)
      BY <1>4, <2>3 DEF parseInt, Goto, IsNumber, WithNumber
    <3> HIDE DEF a
    <3>2. MayReturn(p)' <=> fits /\ ThenMore(text, p, pipeline, name, WithNumber(args, token), a)
      BY <3>1 DEF MayReturn
    <3> QED
      BY <1>2, <2>2, <2>3, <3>2
  <2>4. CASE ~IsNumber(token)
    <3>1. stage' = "error"
      BY <1>4, <2>4 DEF parseInt, Fail, Goto, IsNumber
    <3> QED
      BY <1>2, <2>2, <2>4, <3>1 DEF MayReturn
  <2> QED
    BY <2>3, <2>4
<1> QED
  BY <1>3, <1>4

\* A comma behind an argument.
LEMMA CommaKeeps ==
    ASSUME ParserInv, ReadInv, Comma, NEW p
    PROVE  MayReturn(p)' <=> MayReturn(p)
<1> DEFINE a == pos + 1
           fits == Len(p) <= maxPipelineLength
<1>1. /\ text \in Seq(Runes) /\ pipeline \in Seq(StepValues) /\ args \in Seq(ArgValues)
      /\ a \in 1..Len(text) /\ text[a] = "," /\ text[a] \notin Space /\ stage = "afterArg"
  <2>1. More /\ Rune = "," /\ Rune \notin Space /\ stage = "afterArg"
    BY DEF Comma, At, Peek
  <2> QED
    BY <2>1, Place DEF ReadInv
<1>2. MayReturn(p) <=> fits /\ ThenMore(text, p, pipeline, name, args, a)
  BY <1>1 DEF MayReturn
<1>3. /\ stage' = "afterComma" /\ text' = text /\ pos' = a
      /\ pipeline' = pipeline /\ name' = name /\ args' = args
  BY DEF Comma, Eat, Others
<1> HIDE DEF a
<1>4. MayReturn(p)' <=> fits /\ ThenArg(text, p, pipeline, name, args, a + 1)
  BY <1>3 DEF MayReturn
<1>5. ThenMore(text, p, pipeline, name, args, a) <=>
        a \in Closings(text, p, pipeline, name, args) \/ a \in Commas(text, p, pipeline, name, args)
  BY <1>1, RuneDecides
<1>6. a \notin Closings(text, p, pipeline, name, args)
  BY <1>1 DEF Closings
<1> QED
  BY <1>1, <1>2, <1>4, <1>5, <1>6 DEF Commas

\* The bracket that ends a step.
LEMMA CloseKeeps ==
    ASSUME ParserInv, ReadInv, Close, NEW p
    PROVE  MayReturn(p)' <=> MayReturn(p)
<1> DEFINE a == pos + 1
           fits == Len(p) <= maxPipelineLength
           after == ThenEnd(text, p, WithStep(pipeline, name, args), a + 1)
<1>1. /\ text \in Seq(Runes) /\ pipeline \in Seq(StepValues) /\ args \in Seq(ArgValues)
      /\ a \in 1..(Len(text) + 1)
  BY Place DEF ReadInv
<1>2. /\ \/ stage = "afterOpen" /\ (More => Rune = ")")
         \/ stage = "afterArg" /\ ~Peek({","})
      /\ ~Peek(Space) /\ (stage = "afterOpen" => args = << >>)
      /\ IF Peek({")"})
         THEN /\ Eat("afterStep") /\ pipeline' = WithStep(pipeline, name, args)
              /\ UNCHANGED <<name, args, token, quote>>
         ELSE Fail
  BY DEF Close, At, ReadInv, WithStep
<1>3. MayReturn(p) <=> fits /\ Peek({")"}) /\ after
  <2>1. CASE More
    <3>1. a \in 1..Len(text) /\ Rune = text[a] /\ text[a] \notin Space
      BY <1>2, <2>1, Place
    <3>2. Peek({")"}) <=> text[a] = ")"
      BY <2>1, <3>1 DEF Peek
    <3>3. Peek({","}) <=> text[a] = ","
      BY <2>1, <3>1 DEF Peek
    <3>4. a \in Closings(text, p, pipeline, name, args) <=> text[a] = ")" /\ after
      BY <3>1 DEF Closings
    <3> HIDE DEF a, after
    <3>5. /\ ThenArgs(text, p, pipeline, name, a) <=>
                 a \in Closings(text, p, pipeline, name, << >>) \/ a \in Values(text, p, pipeline, name, << >>)
          /\ ThenMore(text, p, pipeline, name, args, a) <=>
                 a \in Closings(text, p, pipeline, name, args) \/ a \in Commas(text, p, pipeline, name, args)
      BY <1>1, <3>1, RuneDecides
    <3>6. text[a] # "," => a \notin Commas(text, p, pipeline, name, args)
      BY DEF Commas
    <3>7. text[a] = ")" => a \notin Values(text, p, pipeline, name, << >>)
      <4>1. text[a] = ")" => ~IsQuote(text[a]) /\ text[a] \notin {"-"} \cup Digits
        BY RunesApart, QuoteApart
      <4> QED
        BY <4>1 DEF Values
    <3>8. CASE stage = "afterOpen"
      <4>1. MayReturn(p) <=> fits /\ ThenArgs(text, p, pipeline, name, a)
        BY <3>8 DEF MayReturn, a
      <4>2. text[a] = ")" /\ args = << >>
        BY <1>2, <2>1, <3>1, <3>8
      <4>3. ThenArgs(text, p, pipeline, name, a) <=> a \in Closings(text, p, pipeline, name, args)
        BY <3>5, <3>7, <4>2
      <4> QED
        BY <3>2, <3>4, <4>1, <4>2, <4>3
    <3>9. CASE stage = "afterArg"
      <4>1. MayReturn(p) <=> fits /\ ThenMore(text, p, pipeline, name, args, a)
        BY <3>9 DEF MayReturn, a
      <4>2. text[a] # ","
        BY <1>2, <3>3, <3>9
      <4> QED
        BY <3>2, <3>4, <3>5, <3>6, <4>1, <4>2
    <3> QED
      BY <1>2, <3>8, <3>9
  <2>2. CASE ~More
    <3>1. a > Len(text) /\ ~Peek({")"})
      BY <2>2, Place
    <3>2. ~ThenArgs(text, p, pipeline, name, a) /\ ~ThenMore(text, p, pipeline, name, args, a)
      <4> HIDE DEF a
      <4> QED
        BY <1>1, <3>1, EndDecides
    <3> QED
      BY <1>2, <3>1, <3>2 DEF MayReturn
  <2> QED
    BY <2>1, <2>2
<1>4. CASE Peek({")"})
  <2>1. stage' = "afterStep" /\ text' = text /\ pos' = a /\ pipeline' = WithStep(pipeline, name, args)
    BY <1>2, <1>4 DEF Eat
  <2> HIDE DEF a
  <2>2. MayReturn(p)' <=> fits /\ after
    BY <2>1 DEF MayReturn
  <2> QED
    BY <1>3, <1>4, <2>2
<1>5. CASE ~Peek({")"})
  <2>1. stage' = "error"
    BY <1>2, <1>5 DEF Fail, Goto
  <2> QED
    BY <1>3, <1>5, <2>1 DEF MayReturn
<1> QED
  BY <1>4, <1>5

\* The end of a pipeline, or of a text without one.
LEMMA EndKeeps ==
    ASSUME ParserInv, ReadInv, Empty \/ Finish, NEW p
    PROVE  MayReturn(p)' <=> MayReturn(p)
<1> DEFINE a == pos + 1
           fits(q) == Len(q) <= maxPipelineLength
<1>1. /\ text \in Seq(Runes) /\ pipeline \in Seq(StepValues) /\ args \in Seq(ArgValues)
      /\ a \in 1..(Len(text) + 1) /\ a > Len(text)
  BY Place DEF ReadInv, Empty, Finish
<1>2. Blank(text, a, Len(text)) /\ (ThenEnd(text, p, pipeline, a) <=> p = pipeline)
  <2> HIDE DEF a
  <2> QED
    BY <1>1, EndDecides
<1>3. CASE Empty
  <2>1. stage = "begin" /\ stage' = "done" /\ pipeline' = pipeline
    BY <1>3 DEF Empty, At, Goto, Others
  <2> QED
    BY <1>2, <2>1 DEF MayReturn
<1>4. CASE Finish
  <2>1. stage = "afterStep"
    BY <1>4 DEF Finish, At
  <2>2. MayReturn(p) <=> fits(p) /\ p = pipeline
    BY <1>2, <2>1 DEF MayReturn
  <2>3. CASE Len(pipeline) > maxPipelineLength
    <3>1. stage' = "error" /\ ~fits(pipeline)
      BY <1>1, <1>4, <2>3, LenProperties, RuneAssumption DEF Finish, Fail, Goto
    <3> QED
      BY <2>2, <3>1 DEF MayReturn
  <2>4. CASE ~(Len(pipeline) > maxPipelineLength)
    <3>1. stage' = "done" /\ pipeline' = pipeline /\ fits(pipeline)
      BY <1>1, <1>4, <2>4, LenProperties, RuneAssumption DEF Finish, Goto, Others
    <3> HIDE DEF fits
    <3> QED
      BY <2>2, <3>1 DEF MayReturn
  <2> QED
    BY <2>3, <2>4
<1> QED
  BY <1>3, <1>4

\* A bar behind a step.
LEMMA BarKeeps ==
    ASSUME ParserInv, ReadInv, Bar, NEW p
    PROVE  MayReturn(p)' <=> MayReturn(p)
<1> DEFINE a == pos + 1
           fits == Len(p) <= maxPipelineLength
<1>1. /\ text \in Seq(Runes) /\ pipeline \in Seq(StepValues) /\ args \in Seq(ArgValues)
      /\ a \in 1..Len(text) /\ Rune = text[a] /\ More
  BY Place DEF ReadInv, Bar
<1>2. stage = "afterStep" /\ text[a] \notin Space
  BY <1>1 DEF Bar, At, Peek
<1>3. MayReturn(p) <=> fits /\ ThenEnd(text, p, pipeline, a)
  BY <1>2 DEF MayReturn
<1> HIDE DEF a
<1>4. ThenEnd(text, p, pipeline, a) <=> text[a] = "|" /\ ThenStep(text, p, pipeline, a + 1)
  <2>1. ThenEnd(text, p, pipeline, a) <=> a \in Bars(text, p, pipeline)
    BY <1>1, <1>2, RuneDecides
  <2> QED
    BY <1>1, <2>1 DEF Bars
<1>5. CASE text[a] = "|"
  <2>1. Peek({"|"})
    BY <1>1, <1>5 DEF Peek
  <2>2. stage' = "afterBar" /\ text' = text /\ pos' = a /\ pipeline' = pipeline
    BY <1>1, <2>1 DEF Bar, Eat, Others, a
  <2> QED
    BY <1>3, <1>4, <1>5, <2>2 DEF MayReturn
<1>6. CASE text[a] # "|"
  <2>1. ~Peek({"|"})
    BY <1>1, <1>6 DEF Peek
  <2>2. stage' = "error"
    BY <2>1 DEF Bar, Fail, Goto
  <2> QED
    BY <1>3, <1>4, <1>6, <2>2 DEF MayReturn
<1> QED
  BY <1>5, <1>6

\* At the begin of a text everything is still to come.
LEMMA TailsCome ==
    ASSUME NEW t \in Seq(Runes), NEW p
    PROVE  ThenStep(t, p, << >>, 1) <=> p \in Tails(t)[1]
<1>1. 1 \in 1..(Len(t) + 1)
  BY LenProperties
<1>2. Tails(t)[1] \subseteq Seq(StepValues)
  BY <1>1, TailSteps
<1>3. \A r \in Seq(StepValues) : << >> \o r = r
  BY ConcatEmptySeq
<1> QED
  BY <1>2, <1>3 DEF ThenStep

\* Before the first rune, a text denotes what may still come.
LEMMA ParseDenotes ==
    ASSUME ParserInv, ReadInv, Parse, NEW p
    PROVE  p \in Pipelines(text') <=> MayReturn(p)'
<1> DEFINE t == text'
           fits(q) == Len(q) <= maxPipelineLength
<1>1. /\ t \in Seq(Runes) /\ stage' = "begin" /\ pos' + 1 = 1 /\ pipeline' = << >>
  BY RuneAssumption DEF Parse, ParserInv, ReadInv
<1>2. MayReturn(p)' <=> \/ Blank(t, 1, Len(t)) /\ p = << >>
                        \/ fits(p) /\ ~Blank(t, 1, Len(t)) /\ ThenStep(t, p, << >>, 1)
  BY <1>1 DEF MayReturn
<1>3. ThenStep(t, p, << >>, 1) <=> p \in Tails(t)[1]
  <2> HIDE DEF t
  <2> QED
    BY <1>1, TailsCome
<1>4. p \in Pipelines(t) <=> IF Blank(t, 1, Len(t)) THEN p = << >> ELSE p \in Tails(t)[1] /\ fits(p)
  BY DEF Pipelines
<1> HIDE DEF t
<1> QED
  BY <1>2, <1>3, <1>4 DEF t

\* Every step of Parse keeps what its text denotes.
LEMMA GrammarStep ==
    ASSUME ParserInv, ReadInv, GrammarInv, [ParserNext]_parserVars
    PROVE  GrammarInv'
<1>1. CASE Parse
  BY <1>1, ParseDenotes DEF GrammarInv
<1>2. CASE Parsed
  BY <1>2 DEF Parsed, GrammarInv
<1>3. CASE parserStep
  <2>1. stage # "idle" /\ text' = text
    BY <1>3 DEF parserStep, skipSpace, Empty, Ident, IdentPart, Open, parseArg, Escape, parseString,
                parseInt, Comma, Close, Finish, Bar, At, Fail, Goto, Eat, Skips
  <2>2. ASSUME NEW p PROVE MayReturn(p)' <=> MayReturn(p)
    BY <1>3, SpaceKeeps, IdentKeeps, IdentPartKeeps, OpenKeeps, parseArgKeeps, EscapeKeeps,
       parseStringKeeps, parseIntKeeps, CommaKeeps, CloseKeeps, EndKeeps, BarKeeps DEF parserStep
  <2> QED
    BY <2>1, <2>2 DEF GrammarInv
<1>4. CASE UNCHANGED parserVars
  <2>1. ASSUME NEW p PROVE MayReturn(p)' <=> MayReturn(p)
    BY <1>4 DEF parserVars, MayReturn, More
  <2> QED
    BY <1>4, <2>1 DEF GrammarInv, parserVars
<1> QED
  BY <1>1, <1>2, <1>3, <1>4 DEF ParserNext

\* Parse accepts the texts of the language and no other, and returns the one
\* pipeline that a text of it denotes.
THEOREM AcceptsGrammarHolds == ParserSpec => []AcceptsGrammar
<1>1. Idle => ReadInv /\ GrammarInv
  BY EmptySeq DEF Idle, ReadInv, GrammarInv
<1>2. GrammarInv => AcceptsGrammar
  <2> SUFFICES ASSUME GrammarInv PROVE AcceptsGrammar
    OBVIOUS
  <2>1. CASE stage = "done"
    <3>1. \A p : p \in Pipelines(text) <=> p = pipeline
      BY <2>1 DEF GrammarInv, MayReturn
    <3> QED
      BY <2>1, <3>1 DEF AcceptsGrammar
  <2>2. CASE stage = "error"
    <3>1. \A p : p \notin Pipelines(text)
      BY <2>2 DEF GrammarInv, MayReturn
    <3> QED
      BY <2>2, <3>1 DEF AcceptsGrammar
  <2> QED
    BY <2>1, <2>2 DEF AcceptsGrammar
<1> QED
  BY <1>1, <1>2, ParserInvHolds, ReadStep, GrammarStep, PTL DEF ParserSpec

-----------------------------------------------------------------------------
(* Pipelines that are written down.                                         *)

\* The runes w are those of the text from place a on.
Stands(t, a, w) == a + Len(w) <= Len(t) + 1 /\ \A k \in 1..Len(w) : t[a + k - 1] = w[k]

\* What stands somewhere stands there part by part.
LEMMA StandsParts ==
    ASSUME NEW S, NEW t \in Seq(S), NEW a \in Nat, NEW u \in Seq(S), NEW v \in Seq(S),
           Stands(t, a, u \o v)
    PROVE  /\ Stands(t, a, u) /\ Stands(t, a + Len(u), v)
           /\ a + Len(u \o v) = (a + Len(u)) + Len(v)
<1> DEFINE w == u \o v
<1>1. Len(u) \in Nat /\ Len(v) \in Nat /\ Len(t) \in Nat
  OBVIOUS
<1>2. /\ Len(w) = Len(u) + Len(v)
      /\ \A k \in 1..Len(u) : w[k] = u[k]
      /\ \A k \in 1..Len(v) : w[Len(u) + k] = v[k]
  OBVIOUS
<1> HIDE DEF w
<1>3. a + Len(w) <= Len(t) + 1 /\ \A k \in 1..Len(w) : t[a + k - 1] = w[k]
  BY DEF Stands, w
<1>4. Stands(t, a, u)
  BY <1>1, <1>2, <1>3 DEF Stands
<1>5. ASSUME NEW k \in 1..Len(v) PROVE t[(a + Len(u)) + k - 1] = v[k]
  <2>1. Len(u) + k \in 1..Len(w) /\ a + (Len(u) + k) - 1 = (a + Len(u)) + k - 1
    BY <1>1, <1>2
  <2> QED
    BY <1>2, <1>3, <2>1
<1>6. Stands(t, a + Len(u), v)
  BY <1>1, <1>2, <1>3, <1>5 DEF Stands
<1> QED
  BY <1>1, <1>2, <1>4, <1>6 DEF w

\* The places g where the sequences of s stand, one behind the other.
PlacedBy(g, t, a, s, b) == /\ g[1] = a /\ g[Len(s) + 1] = b
                           /\ \A k \in 1..Len(s) : g[k + 1] = g[k] + Len(s[k]) /\ Stands(t, g[k], s[k])

\* What is flattened stands one behind the other.
LEMMA FlattenedStands ==
    ASSUME NEW S, NEW t \in Seq(S), NEW a \in Nat \ {0}, NEW s \in Seq(Seq(S)), Len(s) >= 1,
           Stands(t, a, FlattenSeq(s))
    PROVE  \E g \in [1..(Len(s) + 1) -> Nat \ {0}] : PlacedBy(g, t, a, s, a + Len(FlattenSeq(s)))
<1> DEFINE N == Len(s)
<1>1. N \in Nat /\ N \in Int /\ 1 \in Int /\ N >= 1 /\ \A k \in 1..N : s[k] \in Seq(S)
  OBVIOUS
<1>2. PICK flat \in [0..N -> Seq(S)] : FlattenedBy(flat, s)
  BY FlattenSteps
<1>3. /\ FlattenSeq(s) = flat[N] /\ flat[1] = s[1]
      /\ \A n \in 2..N : flat[n] = flat[n - 1] \o s[n]
  BY <1>2 DEF FlattenedBy
<1> HIDE DEF N
<1>4. ASSUME NEW n \in 2..N, Stands(t, a, flat[n])
      PROVE  /\ Stands(t, a, flat[n - 1]) /\ Stands(t, a + Len(flat[n - 1]), s[n])
             /\ a + Len(flat[n]) = (a + Len(flat[n - 1])) + Len(s[n])
  <2>1. n - 1 \in 0..N /\ n \in 1..N
    BY <1>1
  <2>4. flat[n] = flat[n - 1] \o s[n]
    BY <1>3
  <2> DEFINE u == flat[n - 1]
             v == s[n]
  <2>2. u \in Seq(S) /\ v \in Seq(S) /\ a \in Nat
    BY <1>1, <1>2, <2>1
  <2>3. Stands(t, a, u \o v)
    BY <1>4, <2>4
  <2> HIDE DEF u, v
  <2>5. /\ Stands(t, a, u) /\ Stands(t, a + Len(u), v)
        /\ a + Len(u \o v) = (a + Len(u)) + Len(v)
    BY <2>2, <2>3, StandsParts
  <2> QED
    BY <2>4, <2>5 DEF u, v
<1> DEFINE T == {n \in 1..N : Stands(t, a, flat[n])}
<1>5. ASSUME NEW n \in 1..N, (n + 1)..N \subseteq T PROVE n \in T
  <2>1. CASE n = N
    BY <1>3, <2>1
  <2>2. CASE n # N
    <3>1. n + 1 \in (n + 1)..N /\ n + 1 \in 2..N /\ (n + 1) - 1 = n
      BY <1>1, <2>2
    <3>2. Stands(t, a, flat[n + 1])
      BY <1>5, <3>1
    <3>3. Stands(t, a, flat[(n + 1) - 1])
      BY <1>4, <3>1, <3>2
    <3> QED
      BY <3>1, <3>3
  <2> QED
    BY <2>1, <2>2
<1>6. 1..N \subseteq T
  <2> HIDE DEF T
  <2> QED
    BY <1>1, <1>5, DownInduction
<1> DEFINE g == [k \in 1..(N + 1) |-> IF k = 1 THEN a ELSE a + Len(flat[k - 1])]
<1>7. g \in [1..(N + 1) -> Nat \ {0}]
  <2>1. \A k \in 1..(N + 1) : k # 1 => k - 1 \in 0..N
    BY <1>1
  <2>2. \A k \in 0..N : Len(flat[k]) \in Nat
    BY <1>2
  <2> QED
    BY <2>1, <2>2
<1>8. g[1] = a /\ g[N + 1] = a + Len(FlattenSeq(s))
  BY <1>1, <1>3
<1>9. ASSUME NEW k \in 1..N PROVE g[k + 1] = g[k] + Len(s[k]) /\ Stands(t, g[k], s[k])
  <2>1. Stands(t, a, flat[k]) /\ k + 1 # 1 /\ (k + 1) - 1 = k /\ k + 1 \in 1..(N + 1) /\ k \in 1..(N + 1)
    BY <1>1, <1>6
  <2>2. g[k + 1] = a + Len(flat[k])
    BY <2>1
  <2>3. CASE k = 1
    <3>1. g[k] = a
      BY <2>1, <2>3
    <3> HIDE DEF g
    <3> QED
      BY <1>3, <2>1, <2>2, <2>3, <3>1
  <2>4. CASE k # 1
    <3>1. g[k] = a + Len(flat[k - 1]) /\ k \in 2..N
      BY <1>1, <2>1, <2>4
    <3> HIDE DEF g
    <3> QED
      BY <1>4, <2>1, <2>2, <3>1
  <2> QED
    BY <2>3, <2>4
<1> HIDE DEF g, T
<1> QED
  BY <1>7, <1>8, <1>9 DEF PlacedBy, N

LEMMA FlattenTyped ==
    ASSUME NEW S, NEW s \in Seq(Seq(S))
    PROVE  FlattenSeq(s) \in Seq(S)
<1>1. CASE s = << >>
  <2>1. Len(s) = 0
    BY <1>1
  <2> QED
    BY <1>1, <2>1, EmptySeq DEF FlattenSeq
<1>2. CASE s # << >>
  <2>1. Len(s) >= 1 /\ Len(s) \in Nat
    BY <1>2, EmptySeq
  <2>2. PICK flat \in [0..Len(s) -> Seq(S)] : FlattenedBy(flat, s)
    BY <2>1, FlattenSteps
  <2>3. Len(s) \in 0..Len(s) /\ FlattenSeq(s) = flat[Len(s)]
    BY <2>1, <2>2 DEF FlattenedBy
  <2> QED
    BY <2>3
<1> QED
  BY <1>1, <1>2

\* What Joined flattens: each part with its gaps and the bar behind it.
Fitted(parts, bar, gap) ==
    [k \in DOMAIN parts |-> gap \o parts[k] \o gap \o IF k = Len(parts) THEN << >> ELSE bar]

LEMMA JoinedTyped ==
    ASSUME NEW S, NEW parts \in Seq(Seq(S)), NEW bar \in Seq(S), NEW gap \in Seq(S)
    PROVE  /\ Fitted(parts, bar, gap) \in Seq(Seq(S)) /\ Len(Fitted(parts, bar, gap)) = Len(parts)
           /\ Joined(parts, bar, gap) = FlattenSeq(Fitted(parts, bar, gap))
           /\ Joined(parts, bar, gap) \in Seq(S)
<1> DEFINE N == Len(parts)
           end(k) == IF k = N THEN << >> ELSE bar
           s == Fitted(parts, bar, gap)
<1>1. N \in Nat /\ DOMAIN parts = 1..N /\ \A k \in 1..N : parts[k] \in Seq(S)
  OBVIOUS
<1>2. \A k \in 1..N : end(k) \in Seq(S)
  BY EmptySeq
<1>3. FlattenSeq(s) = Joined(parts, bar, gap)
  BY DEF Joined, Fitted
<1> HIDE DEF end, N
<1>4. \A k \in 1..N : s[k] = ((gap \o parts[k]) \o gap) \o end(k)
  BY <1>1 DEF Fitted, end, N
<1>5. s \in Seq(Seq(S)) /\ Len(s) = N
  <2>1. \A k \in 1..N : gap \o parts[k] \in Seq(S)
    BY <1>1
  <2>2. \A k \in 1..N : (gap \o parts[k]) \o gap \in Seq(S)
    BY <2>1
  <2>3. ASSUME NEW k \in 1..N PROVE s[k] \in Seq(S)
    <3> DEFINE w == (gap \o parts[k]) \o gap
    <3>1. w \in Seq(S) /\ end(k) \in Seq(S) /\ s[k] = w \o end(k)
      BY <1>2, <1>4, <2>2
    <3> HIDE DEF w, s
    <3> QED
      BY <3>1
  <2>4. DOMAIN s = 1..N /\ s = [k \in 1..N |-> s[k]]
    BY <1>1 DEF Fitted
  <2> HIDE DEF s
  <2>5. s \in [1..N -> Seq(S)]
    BY <2>3, <2>4
  <2> QED
    BY <1>1, <2>5
<1> HIDE DEF s
<1>6. FlattenSeq(s) \in Seq(S)
  BY <1>5, FlattenTyped
<1> QED
  BY <1>3, <1>5, <1>6 DEF s, N

\* A part stands from x to y, with a gap before it and behind it, and a bar.
PartAt(t, x, y, part, bar, gap) ==
    /\ Stands(t, x, gap) /\ Stands(t, x + Len(gap), part)
    /\ Stands(t, x + Len(gap) + Len(part), gap)
    /\ Stands(t, x + Len(gap) + Len(part) + Len(gap), bar)
    /\ y = x + Len(gap) + Len(part) + Len(gap) + Len(bar)

\* The places g of the parts; behind the last there is no bar.
JoinedBy(g, t, parts, bar, gap) ==
    \A k \in 1..Len(parts) :
       PartAt(t, g[k], g[k + 1], parts[k], IF k = Len(parts) THEN << >> ELSE bar, gap)

\* What is joined stands part by part.
LEMMA JoinedStands ==
    ASSUME NEW S, NEW t \in Seq(S), NEW a \in Nat \ {0}, NEW parts \in Seq(Seq(S)), Len(parts) >= 1,
           NEW bar \in Seq(S), NEW gap \in Seq(S), Stands(t, a, Joined(parts, bar, gap))
    PROVE  \E g \in [1..(Len(parts) + 1) -> Nat \ {0}] :
              /\ g[1] = a /\ g[Len(parts) + 1] = a + Len(Joined(parts, bar, gap))
              /\ JoinedBy(g, t, parts, bar, gap)
<1> DEFINE N == Len(parts)
           end(k) == IF k = N THEN << >> ELSE bar
           s == Fitted(parts, bar, gap)
<1>1. N \in Nat /\ DOMAIN parts = 1..N /\ \A k \in 1..N : parts[k] \in Seq(S)
  OBVIOUS
<1>2. \A k \in 1..N : end(k) \in Seq(S)
  BY EmptySeq
<1>3. FlattenSeq(s) = Joined(parts, bar, gap)
  BY DEF Joined, Fitted
<1> HIDE DEF end, N
<1>4. \A k \in 1..N : s[k] = ((gap \o parts[k]) \o gap) \o end(k)
  BY <1>1 DEF Fitted, end, N
<1>5. s \in Seq(Seq(S)) /\ Len(s) = N
  BY JoinedTyped DEF N
<1> HIDE DEF s
<1>6. PICK g \in [1..(Len(s) + 1) -> Nat \ {0}] : PlacedBy(g, t, a, s, a + Len(FlattenSeq(s)))
  <2>1. Len(s) >= 1 /\ Stands(t, a, FlattenSeq(s))
    BY <1>3, <1>5 DEF N
  <2> QED
    BY <1>5, <2>1, FlattenedStands
<1>7. /\ g \in [1..(N + 1) -> Nat \ {0}] /\ g[1] = a /\ g[N + 1] = a + Len(Joined(parts, bar, gap))
      /\ \A k \in 1..N : g[k + 1] = g[k] + Len(s[k]) /\ Stands(t, g[k], s[k])
  BY <1>3, <1>5, <1>6 DEF PlacedBy
<1>8. ASSUME NEW k \in 1..N PROVE PartAt(t, g[k], g[k + 1], parts[k], end(k), gap)
  <2> DEFINE x == g[k]
             part == parts[k]
             e == end(k)
             u == gap \o part
             w == u \o gap
  <2>1. /\ x \in Nat /\ part \in Seq(S) /\ e \in Seq(S) /\ Stands(t, x, w \o e)
        /\ g[k + 1] = x + Len(w \o e)
    <3>3. k \in 1..(N + 1)
      BY <1>1
    <3>4. x \in Nat
      BY <1>7, <3>3
    <3>1. x \in Nat /\ part \in Seq(S) /\ e \in Seq(S)
      BY <1>1, <1>2, <3>4
    <3>2. s[k] = w \o e
      BY <1>4
    <3> QED
      BY <1>7, <3>1, <3>2
  <2>2. u \in Seq(S) /\ w \in Seq(S)
    BY <2>1
  <2> HIDE DEF w
  <2>3. Stands(t, x, w) /\ Stands(t, x + Len(w), e) /\ x + Len(w \o e) = (x + Len(w)) + Len(e)
    <3> HIDE DEF x, e
    <3> QED
      BY <2>1, <2>2, StandsParts
  <2>4. Stands(t, x, u) /\ Stands(t, x + Len(u), gap) /\ x + Len(w) = (x + Len(u)) + Len(gap)
    <3>1. Stands(t, x, u \o gap) /\ w = u \o gap
      BY <2>3 DEF w
    <3> HIDE DEF x, u
    <3> QED
      BY <2>1, <2>2, <3>1, StandsParts
  <2>5. Stands(t, x, gap) /\ Stands(t, x + Len(gap), part) /\ x + Len(u) = (x + Len(gap)) + Len(part)
    <3>1. Stands(t, x, gap \o part) /\ u = gap \o part
      BY <2>4
    <3> HIDE DEF x, u, part
    <3> QED
      BY <2>1, <3>1, StandsParts
  <2> HIDE DEF x, part, u, e
  <2> QED
    BY <2>1, <2>3, <2>4, <2>5 DEF PartAt, x, part, e
<1> QED
  BY <1>7, <1>8 DEF JoinedBy, N, end

\* White space that is written between the parts, or none.
IsGap(gap) == gap = << >> \/ \E c \in Space : gap = <<c>>

\* What is written as white space is passed.
LEMMA GapPassed ==
    ASSUME NEW t \in Seq(Runes), NEW p, NEW P \in Seq(StepValues), NEW n, NEW l \in Seq(ArgValues),
           NEW a \in Nat \ {0}, NEW gap, IsGap(gap), Stands(t, a, gap)
    PROVE  /\ ThenStep(t, p, P, a) <=> ThenStep(t, p, P, a + Len(gap))
           /\ ThenOpen(t, p, P, n, a) <=> ThenOpen(t, p, P, n, a + Len(gap))
           /\ ThenArgs(t, p, P, n, a) <=> ThenArgs(t, p, P, n, a + Len(gap))
           /\ ThenArg(t, p, P, n, l, a) <=> ThenArg(t, p, P, n, l, a + Len(gap))
           /\ ThenMore(t, p, P, n, l, a) <=> ThenMore(t, p, P, n, l, a + Len(gap))
           /\ ThenEnd(t, p, P, a) <=> ThenEnd(t, p, P, a + Len(gap))
<1>1. CASE gap = << >>
  <2>1. a + Len(gap) = a
    BY <1>1
  <2> QED
    BY <2>1
<1>2. ASSUME NEW c \in Space, gap = <<c>>
      PROVE  a \in 1..Len(t) /\ t[a] \in Space /\ a + Len(gap) = a + 1
  <2>1. Len(gap) = 1 /\ gap[1] = c /\ Len(t) \in Nat
    BY <1>2, LenProperties
  <2>2. a + 1 <= Len(t) + 1 /\ t[a + 1 - 1] = c /\ a + 1 - 1 = a
    BY <2>1 DEF Stands
  <2> QED
    BY <1>2, <2>1, <2>2
<1>3. CASE \E c \in Space : gap = <<c>>
  <2>1. a \in 1..Len(t) /\ t[a] \in Space /\ a + Len(gap) = a + 1
    BY <1>2, <1>3
  <2> QED
    BY <2>1, SpacePassed
<1> QED
  BY <1>1, <1>3 DEF IsGap

\* A word that stands in a text is that part of it.
LEMMA StandsIsPart ==
    ASSUME NEW S, NEW t \in Seq(S), NEW a \in Nat \ {0}, NEW w \in Seq(S), w # << >>, Stands(t, a, w)
    PROVE  /\ a \in 1..Len(t) /\ a + Len(w) - 1 \in a..Len(t)
           /\ t[a] = w[1] /\ SubSeq(t, a, a + Len(w) - 1) = w
           /\ \A k \in a..(a + Len(w) - 1) : k - a + 1 \in 1..Len(w) /\ t[k] = w[k - a + 1]
<1> DEFINE y == a + Len(w) - 1
           u == SubSeq(t, a, y)
<1>1. Len(w) \in Nat /\ Len(t) \in Nat /\ Len(w) # 0 /\ a \in Nat /\ a >= 1
  BY EmptySeq
<1>2. a + Len(w) <= Len(t) + 1 /\ \A k \in 1..Len(w) : t[a + k - 1] = w[k]
  BY DEF Stands
<1>3. a \in 1..Len(t) /\ y \in a..Len(t)
  BY <1>1, <1>2
<1>4. ASSUME NEW k \in a..y PROVE k - a + 1 \in 1..Len(w) /\ t[k] = w[k - a + 1]
  <2>1. k - a + 1 \in 1..Len(w) /\ a + (k - a + 1) - 1 = k
    BY <1>1
  <2> QED
    BY <1>2, <2>1
<1>5. u \in Seq(S) /\ Len(u) = Len(w) /\ \A k \in 1..Len(w) : u[k] = t[a + k - 1]
  <2>1. u \in Seq(S) /\ Len(u) = y - a + 1 /\ \A k \in 1..(y - a + 1) : u[k] = t[a + k - 1]
    BY <1>1, <1>3
  <2>2. y - a + 1 = Len(w)
    BY <1>1
  <2> QED
    BY <2>1, <2>2
<1> HIDE DEF u
<1>6. u = w
  BY <1>2, <1>5, SeqEqual
<1>7. t[a] = w[1]
  <2>1. a \in a..y /\ a - a + 1 = 1
    BY <1>3
  <2> QED
    BY <1>4, <2>1
<1> QED
  BY <1>3, <1>4, <1>6, <1>7 DEF u

\* A rune of names is no bracket, and a digit neither a bracket nor a comma.
LEMMA NothingFollows ==
    ASSUME NEW t \in Seq(Runes), NEW p, NEW P \in Seq(StepValues), NEW n, NEW l \in Seq(ArgValues),
           NEW x \in 1..Len(t)
    PROVE  /\ t[x] \in isIdentPart => ~ThenOpen(t, p, P, n, x)
           /\ t[x] \in Digits => ~ThenMore(t, p, P, n, l, x)
<1>1. ASSUME t[x] \in isIdentPart PROVE ~ThenOpen(t, p, P, n, x)
  <2>1. t[x] \notin Space /\ t[x] # "("
    BY <1>1, RunesApart
  <2>2. ThenOpen(t, p, P, n, x) <=> x \in Opens(t, p, P, n)
    BY <2>1, RuneDecides
  <2> QED
    BY <2>1, <2>2 DEF Opens
<1>2. ASSUME t[x] \in Digits PROVE ~ThenMore(t, p, P, n, l, x)
  <2>1. t[x] \notin Space /\ t[x] # ")" /\ t[x] # ","
    BY <1>2, RunesApart
  <2>2. ThenMore(t, p, P, n, l, x) <=> x \in Closings(t, p, P, n, l) \/ x \in Commas(t, p, P, n, l)
    BY <2>1, RuneDecides
  <2> QED
    BY <2>1, <2>2 DEF Closings, Commas
<1> QED
  BY <1>1, <1>2

\* A written name is read as this name.
LEMMA NameWritten ==
    ASSUME NEW t \in Seq(Runes), NEW p, NEW P \in Seq(StepValues),
           NEW n \in Seq(Runes), n # << >>, n[1] \in isIdentStart, ToSet(n) \subseteq isIdentPart,
           NEW a \in Nat \ {0}, Stands(t, a, n), a + Len(n) <= Len(t), t[a + Len(n)] \notin isIdentPart
    PROVE  ThenStep(t, p, P, a) <=> ThenOpen(t, p, P, n, a + Len(n))
<1> DEFINE b == a + Len(n)
           z == a + Len(n) - 1
<1>1. /\ a \in 1..Len(t) /\ z \in a..Len(t)
      /\ t[a] = n[1] /\ SubSeq(t, a, z) = n
      /\ \A k \in a..z : k - a + 1 \in 1..Len(n) /\ t[k] = n[k - a + 1]
  BY StandsIsPart
<1>2. \A k \in a..z : t[k] \in isIdentPart
  <2>1. \A k \in 1..Len(n) : n[k] \in isIdentPart
    BY DEF ToSet
  <2> QED
    BY <1>1, <2>1
<1>3. a \in Nat /\ z \in Int /\ b = z + 1 /\ Len(t) \in Nat /\ b \in 1..Len(t)
  BY <1>1, LenProperties
<1>4. t[a] \in isIdentStart /\ t[a] \notin Space
  BY <1>1, RunesApart
<1>5. << >> \in Seq(ArgValues)
  BY EmptySeq
<1>6. ThenStep(t, p, P, a) <=> a \in Names(t, p, P)
  BY <1>1, <1>4, <1>5, RuneDecides
<1> HIDE DEF z, b
<1>7. a \in Names(t, p, P) <=>
         \E y \in a..Len(t) : /\ t[a] \in isIdentStart
                              /\ \A k \in (a + 1)..y : t[k] \in isIdentPart
                              /\ ThenOpen(t, p, P, SubSeq(t, a, y), y + 1)
  BY <1>1, NamesAt
<1>8. ASSUME NEW y \in a..Len(t), \A k \in (a + 1)..y : t[k] \in isIdentPart,
             ThenOpen(t, p, P, SubSeq(t, a, y), y + 1)
      PROVE  y = z
  <2>1. CASE y < z
    <3>1. y + 1 \in a..z /\ y + 1 \in 1..Len(t)
      BY <1>1, <1>3, <2>1
    <3> QED
      BY <1>2, <1>5, <1>8, <3>1, NothingFollows
  <2>2. CASE y > z
    <3>1. b \in (a + 1)..y
      BY <1>1, <1>3, <2>2
    <3> QED
      BY <1>8, <3>1 DEF b
  <2> QED
    BY <1>3, <2>1, <2>2
<1>9. \A k \in (a + 1)..z : t[k] \in isIdentPart
  BY <1>2, <1>3
<1>10. ThenOpen(t, p, P, n, b) <=> ThenOpen(t, p, P, SubSeq(t, a, z), z + 1)
  BY <1>1, <1>3
<1> QED
  BY <1>1, <1>4, <1>6, <1>7, <1>8, <1>9, <1>10 DEF b

\* A written integer is read as this integer.
LEMMA NumberWritten ==
    ASSUME NEW t \in Seq(Runes), NEW p, NEW P \in Seq(StepValues), NEW n, NEW l \in Seq(ArgValues),
           NEW w \in Seq(Runes), w # << >>, w[1] \in {"-"} \cup Digits,
           \A k \in 2..Len(w) : w[k] \in Digits, IsNumber(w),
           NEW a \in Nat \ {0}, Stands(t, a, w), a + Len(w) <= Len(t), t[a + Len(w)] \notin Digits
    PROVE  ThenArg(t, p, P, n, l, a) <=> ThenMore(t, p, P, n, WithNumber(l, w), a + Len(w))
<1> DEFINE b == a + Len(w)
           z == a + Len(w) - 1
           more(x, y) == ThenMore(t, p, P, n, Append(l, x), y + 1)
<1>1. /\ a \in 1..Len(t) /\ z \in a..Len(t)
      /\ t[a] = w[1] /\ SubSeq(t, a, z) = w
      /\ \A k \in a..z : k - a + 1 \in 1..Len(w) /\ t[k] = w[k - a + 1]
  BY StandsIsPart
<1>3. a \in Nat /\ z \in Int /\ b = z + 1 /\ Len(t) \in Nat /\ b \in 1..Len(t) /\ Len(w) \in Nat
  BY <1>1, LenProperties
<1>2. \A k \in (a + 1)..z : t[k] \in Digits
  <2>1. \A k \in (a + 1)..z : k \in a..z /\ k - a + 1 \in 2..Len(w)
    BY <1>3
  <2> QED
    BY <1>1, <2>1
<1>4. t[a] \in {"-"} \cup Digits /\ t[a] \notin Space /\ ~IsQuote(t[a])
  BY <1>1, RunesApart, QuoteApart
<1>6. ThenArg(t, p, P, n, l, a) <=> a \in Values(t, p, P, n, l)
  BY <1>1, <1>4, RuneDecides
<1> HIDE DEF z, b
<1>7. a \in Values(t, p, P, n, l) <=> \E y \in a..Len(t) : \E v \in ValueAt(t, a, y) : more(v, y)
  BY <1>1, ValuesAt
<1>8. \A y, v : v \notin Strings(t, a, y)
  BY <1>4, StringAt
<1>9. ASSUME NEW y \in a..Len(t), NEW v
      PROVE  v \in ValueAt(t, a, y) <=>
                /\ \A k \in (a + 1)..y : t[k] \in Digits
                /\ IsNumber(SubSeq(t, a, y)) /\ v = Arg(None, Atoi(SubSeq(t, a, y)), None)
  BY <1>1, <1>4, <1>8, NumberAt DEF ValueAt
<1> HIDE DEF more
<1>10. ASSUME NEW y \in a..Len(t), \A k \in (a + 1)..y : t[k] \in Digits,
              NEW v \in ArgValues, more(v, y)
       PROVE  y = z
  <2>0. Append(l, v) \in Seq(ArgValues)
    OBVIOUS
  <2>1. CASE y < z
    <3>1. y + 1 \in (a + 1)..z /\ y + 1 \in 1..Len(t)
      BY <1>1, <1>3, <2>1
    <3>2. t[y + 1] \in Digits
      BY <1>2, <3>1
    <3> QED
      BY <1>10, <2>0, <3>1, <3>2, NothingFollows DEF more
  <2>2. CASE y > z
    <3>1. b \in (a + 1)..y
      BY <1>1, <1>3, <2>2
    <3> QED
      BY <1>10, <3>1 DEF b
  <2> QED
    BY <1>3, <2>1, <2>2
<1>11. ASSUME NEW y \in a..Len(t), IsNumber(SubSeq(t, a, y))
       PROVE  Arg(None, Atoi(SubSeq(t, a, y)), None) \in ArgValues
  <2>1. Atoi(SubSeq(t, a, y)) \in Int
    BY <1>11, AtoiTyped DEF IsNumber
  <2> QED
    BY <2>1 DEF ArgValues
<1>12. more(Arg(None, Atoi(w), None), z) <=> ThenMore(t, p, P, n, WithNumber(l, w), b)
  BY <1>3 DEF more, WithNumber
<1>13. ASSUME NEW y \in a..Len(t), NEW v \in ValueAt(t, a, y), more(v, y)
       PROVE  more(Arg(None, Atoi(w), None), z)
  <2>1. /\ \A k \in (a + 1)..y : t[k] \in Digits
        /\ IsNumber(SubSeq(t, a, y)) /\ v = Arg(None, Atoi(SubSeq(t, a, y)), None)
    BY <1>9
  <2>2. y = z
    BY <1>10, <1>11, <1>13, <2>1
  <2> QED
    BY <1>1, <1>13, <2>1, <2>2
<1>14. Arg(None, Atoi(w), None) \in ValueAt(t, a, z)
  BY <1>1, <1>2, <1>9
<1> QED
  BY <1>1, <1>6, <1>7, <1>12, <1>13, <1>14 DEF b

\* The runes of a text and of what is written between its parts.
Ink == Runes \cup Punctuation \cup Space

LEMMA InInk ==
    /\ \A w \in Seq(Runes) : w \in Seq(Ink)
    /\ \A c : c \in Punctuation \/ IsQuote(c) => <<c>> \in Seq(Ink)
    /\ \A gap : IsGap(gap) => gap \in Seq(Ink)
<1>1. \A c : IsQuote(c) => c \in Punctuation
  BY Zenon DEF IsQuote, Punctuation
<1>2. Runes \subseteq Ink /\ Punctuation \subseteq Ink /\ Space \subseteq Ink
  BY DEF Ink
<1>3. ASSUME NEW w \in Seq(Runes) PROVE w \in Seq(Ink)
  <2>1. Len(w) \in Nat /\ w \in [1..Len(w) -> Ink]
    BY <1>2
  <2> QED
    BY <2>1
<1>4. \A c \in Ink : <<c>> \in Seq(Ink)
  OBVIOUS
<1>5. << >> \in Seq(Ink)
  BY EmptySeq
<1> QED
  BY <1>1, <1>2, <1>3, <1>4, <1>5 DEF IsGap

\* What is flattened, if anything, stands one behind the other.
LEMMA FlattenedPlaces ==
    ASSUME NEW S, NEW t \in Seq(S), NEW a \in Nat \ {0}, NEW s \in Seq(Seq(S)),
           Stands(t, a, FlattenSeq(s))
    PROVE  \E g \in [1..(Len(s) + 1) -> Nat \ {0}] : PlacedBy(g, t, a, s, a + Len(FlattenSeq(s)))
<1>1. CASE s = << >>
  <2>1. Len(s) = 0 /\ FlattenSeq(s) = << >> /\ Len(<< >>) = 0
    BY <1>1, EmptySeq DEF FlattenSeq
  <2> DEFINE g == [k \in 1..1 |-> a]
  <2>2. g \in [1..1 -> Nat \ {0}] /\ g[1] = a
    OBVIOUS
  <2> HIDE DEF g
  <2>3. a + Len(FlattenSeq(s)) = a
    BY <2>1
  <2>4. PlacedBy(g, t, a, s, a + Len(FlattenSeq(s)))
    BY <2>1, <2>2, <2>3 DEF PlacedBy
  <2>5. Len(s) + 1 = 1
    BY <2>1
  <2> QED
    BY <2>2, <2>4, <2>5
<1>2. CASE s # << >>
  <2>1. Len(s) >= 1
    BY <1>2, EmptySeq
  <2> QED
    BY <2>1, FlattenedStands
<1> QED
  BY <1>1, <1>2

\* The first runes of a word, one by one.
LEMMA FirstRunes ==
    ASSUME NEW S, NEW s \in Seq(S)
    PROVE  /\ SubSeq(s, 1, 0) = << >> /\ SubSeq(s, 1, Len(s)) = s
           /\ \A k \in 1..Len(s) : /\ SubSeq(s, 1, k - 1) \in Seq(S)
                                   /\ Append(SubSeq(s, 1, k - 1), s[k]) = SubSeq(s, 1, k)
<1>1. ASSUME NEW k \in 1..Len(s)
      PROVE  /\ SubSeq(s, 1, k - 1) \in Seq(S)
             /\ Append(SubSeq(s, 1, k - 1), s[k]) = SubSeq(s, 1, k)
  <2> DEFINE u == SubSeq(s, 1, k - 1)
             v == SubSeq(s, 1, k)
  <2>1. /\ u \in Seq(S) /\ Len(u) = k - 1 /\ \A m \in 1..(k - 1) : u[m] = s[m]
        /\ v \in Seq(S) /\ Len(v) = k     /\ \A m \in 1..k : v[m] = s[m]
        /\ s[k] \in S /\ k \in Nat
    OBVIOUS
  <2> HIDE DEF u, v
  <2> DEFINE w == Append(u, s[k])
  <2>2. w \in Seq(S) /\ Len(w) = k /\ \A m \in 1..k : w[m] = s[m]
    BY <2>1
  <2> HIDE DEF w
  <2>3. w = v
    BY <2>1, <2>2, SeqEqual
  <2> QED
    BY <2>1, <2>3 DEF u, v, w
<1>2. SubSeq(s, 1, 0) = << >> /\ SubSeq(s, 1, Len(s)) = s
  OBVIOUS
<1> QED
  BY <1>1, <1>2

\* One or two runes that stand in a text.
LEMMA RunesStand ==
    ASSUME NEW t \in Seq(Runes), NEW x \in Nat \ {0}, NEW c, NEW d
    PROVE  /\ Stands(t, x, <<c>>) => x \in 1..Len(t) /\ t[x] = c
           /\ Stands(t, x, <<c, d>>) => x \in 1..Len(t) /\ x + 1 \in 1..Len(t) /\ t[x] = c /\ t[x + 1] = d
<1>1. Len(t) \in Nat /\ x + 1 - 1 = x /\ x + 2 - 1 = x + 1
  BY LenProperties
<1>2. ASSUME Stands(t, x, <<c>>) PROVE x \in 1..Len(t) /\ t[x] = c
  <2> DEFINE w == <<c>>
  <2>1. Len(w) = 1 /\ w[1] = c
    OBVIOUS
  <2> HIDE DEF w
  <2>2. Stands(t, x, w)
    BY <1>2 DEF w
  <2> QED
    BY <1>1, <2>1, <2>2 DEF Stands
<1>3. ASSUME Stands(t, x, <<c, d>>)
      PROVE  x \in 1..Len(t) /\ x + 1 \in 1..Len(t) /\ t[x] = c /\ t[x + 1] = d
  <2> DEFINE w == <<c, d>>
  <2>1. Len(w) = 2 /\ w[1] = c /\ w[2] = d
    OBVIOUS
  <2> HIDE DEF w
  <2>2. Stands(t, x, w)
    BY <1>3 DEF w
  <2> QED
    BY <1>1, <2>1, <2>2 DEF Stands
<1> QED
  BY <1>2, <1>3

\* How a text is spelled in quotes q.
Spelled(c, q)  == IF c \in {q, "\\"} THEN <<"\\", c>> ELSE <<c>>
Spelling(s, q) == [k \in DOMAIN s |-> Spelled(s[k], q)]

LEMMA QuotedTyped ==
    ASSUME NEW s \in Seq(Runes), NEW q, IsQuote(q)
    PROVE  /\ Spelling(s, q) \in Seq(Seq(Ink)) /\ Len(Spelling(s, q)) = Len(s)
           /\ FlattenSeq(Spelling(s, q)) \in Seq(Ink)
           /\ Quoted(s, q) = (<<q>> \o FlattenSeq(Spelling(s, q))) \o <<q>>
           /\ Quoted(s, q) \in Seq(Ink)
<1> DEFINE N == Len(s)
           e == Spelling(s, q)
           F == FlattenSeq(e)
           d == <<q>>
<1>1. N \in Nat /\ DOMAIN s = 1..N /\ \A k \in 1..N : s[k] \in Runes
  OBVIOUS
<1>2. d \in Seq(Ink)
  BY InInk
<1>3. e \in Seq(Seq(Ink)) /\ Len(e) = N
  <2>1. \A c \in Runes : c \in Ink /\ "\\" \in Ink
    BY DEF Ink, Punctuation
  <2>2. \A c \in Runes : Spelled(c, q) \in Seq(Ink)
    BY <2>1 DEF Spelled
  <2>3. e \in [1..N -> Seq(Ink)]
    BY <1>1, <2>2 DEF Spelling
  <2> HIDE DEF e
  <2> QED
    BY <1>1, <2>3
<1>4. Quoted(s, q) = (d \o F) \o d
  BY DEF Quoted, Spelling, Spelled
<1> HIDE DEF e
<1>5. F \in Seq(Ink)
  BY <1>3, FlattenTyped
<1> HIDE DEF F, d
<1>6. (d \o F) \o d \in Seq(Ink)
  BY <1>2, <1>5
<1> QED
  BY <1>3, <1>4, <1>5, <1>6 DEF e, F, d

\* A written text is read as this text.
LEMMA StringWritten ==
    ASSUME NEW t \in Seq(Runes), NEW p, NEW P \in Seq(StepValues), NEW n, NEW l \in Seq(ArgValues),
           NEW s \in Seq(Runes), NEW q, IsQuote(q), NEW a \in Nat \ {0}, Stands(t, a, Quoted(s, q))
    PROVE  /\ a \in 1..Len(t) /\ t[a] = q
           /\ ThenArg(t, p, P, n, l, a) <=>
                 ThenMore(t, p, P, n, WithText(l, s), a + Len(Quoted(s, q)))
<1> DEFINE N == Len(s)
           e == Spelling(s, q)
           F == FlattenSeq(e)
           d == <<q>>
           u == d \o F
           z == (a + 1) + Len(F)
           goal == ThenMore(t, p, P, n, WithText(l, s), z + 1)
<1>1. N \in Nat /\ DOMAIN s = 1..N /\ \A k \in 1..N : s[k] \in Runes
  OBVIOUS
<1>2. t \in Seq(Ink) /\ d \in Seq(Ink) /\ Len(d) = 1 /\ a \in Nat
  BY InInk
<1>3. e \in Seq(Seq(Ink)) /\ Len(e) = N
  BY QuotedTyped
<1>4. F \in Seq(Ink)
  BY QuotedTyped
<1>5. Quoted(s, q) = u \o d
  BY QuotedTyped
<1> HIDE DEF N, F, d, e, z, goal
<1>6. u \in Seq(Ink)
  BY <1>2, <1>4
<1> HIDE DEF u
<1>7. Stands(t, a, u) /\ Stands(t, a + Len(u), d) /\ a + Len(u \o d) = (a + Len(u)) + 1
  <2>1. Stands(t, a, u \o d)
    BY <1>5
  <2>2. Stands(t, a, u) /\ Stands(t, a + Len(u), d) /\ a + Len(u \o d) = (a + Len(u)) + Len(d)
    <3>1. t \in Seq(Ink) /\ u \in Seq(Ink) /\ d \in Seq(Ink) /\ a \in Nat
      BY <1>2, <1>6
    <3> QED
      BY <2>1, <3>1, StandsParts
  <2> QED
    BY <1>2, <2>2
<1>8. Stands(t, a, d) /\ Stands(t, a + 1, F) /\ a + Len(u) = z
  <2>1. Stands(t, a, d \o F) /\ u = d \o F
    BY <1>7 DEF u
  <2>2. Stands(t, a, d) /\ Stands(t, a + Len(d), F) /\ a + Len(d \o F) = (a + Len(d)) + Len(F)
    <3>1. t \in Seq(Ink) /\ d \in Seq(Ink) /\ F \in Seq(Ink) /\ a \in Nat
      BY <1>2, <1>4
    <3> QED
      BY <2>1, <3>1, StandsParts
  <2>3. a + Len(u) = (a + Len(d)) + Len(F)
    BY <2>1, <2>2
  <2> QED
    BY <1>2, <2>2, <2>3 DEF z
<1>9. /\ z \in Nat \ {0} /\ a + 1 \in Nat \ {0} /\ a + Len(Quoted(s, q)) = z + 1
      /\ Stands(t, z, d)
  <2>1. Len(F) \in Nat
    BY <1>4
  <2>2. a + Len(u \o d) = z + 1 /\ Stands(t, z, d)
    BY <1>7, <1>8
  <2>4. z \in Nat \ {0} /\ a + 1 \in Nat \ {0}
    BY <1>2, <2>1 DEF z
  <2> QED
    BY <1>5, <2>2, <2>4
<1>10. a \in 1..Len(t) /\ t[a] = q /\ z \in 1..Len(t) /\ t[z] = q /\ Len(t) \in Nat
  BY <1>8, <1>9, RunesStand, LenProperties DEF d
<1>11. q \notin Space /\ q # "\\" /\ q \notin {"-"} \cup Digits
  BY RunesApart, QuoteApart
<1>12. ThenArg(t, p, P, n, l, a) <=> InString(t, p, P, n, l, << >>, q, a + 1)
  <2>1. ThenArg(t, p, P, n, l, a) <=> a \in Values(t, p, P, n, l)
    BY <1>10, <1>11, RuneDecides
  <2> QED
    BY <1>10, <1>11, <2>1 DEF Values
<1>13. PICK g \in [1..(N + 1) -> Nat \ {0}] :
          /\ g[1] = a + 1 /\ g[N + 1] = z
          /\ \A k \in 1..N : g[k + 1] = g[k] + Len(e[k]) /\ Stands(t, g[k], e[k])
  <2>1. PICK g \in [1..(Len(e) + 1) -> Nat \ {0}] : PlacedBy(g, t, a + 1, e, (a + 1) + Len(FlattenSeq(e)))
    BY <1>2, <1>3, <1>8, <1>9, FlattenedPlaces DEF F
  <2> QED
    BY <1>3, <2>1 DEF PlacedBy, F, z
<1> DEFINE within(k) == InString(t, p, P, n, l, SubSeq(s, 1, k - 1), q, g[k])
           T == {k \in 1..(N + 1) : within(k) <=> goal}
<1>14. /\ SubSeq(s, 1, 0) = << >> /\ SubSeq(s, 1, N) = s
       /\ \A k \in 1..N : /\ SubSeq(s, 1, k - 1) \in Seq(Runes)
                          /\ Append(SubSeq(s, 1, k - 1), s[k]) = SubSeq(s, 1, k)
  <2>1. Len(s) = N
    BY DEF N
  <2>2. /\ SubSeq(s, 1, 0) = << >> /\ SubSeq(s, 1, Len(s)) = s
        /\ \A k \in 1..Len(s) : /\ SubSeq(s, 1, k - 1) \in Seq(Runes)
                                /\ Append(SubSeq(s, 1, k - 1), s[k]) = SubSeq(s, 1, k)
    BY FirstRunes
  <2> QED
    BY <2>1, <2>2
<1>15. ASSUME NEW k \in 1..N PROVE within(k) <=> within(k + 1)
  <2> DEFINE w == SubSeq(s, 1, k - 1)
             x == g[k]
             c == s[k]
  <2>1. /\ w \in Seq(Runes) /\ Append(w, c) = SubSeq(s, 1, (k + 1) - 1) /\ x \in Nat \ {0}
        /\ g[k + 1] = x + Len(e[k]) /\ Stands(t, x, e[k])
    <3>1. (k + 1) - 1 = k /\ k \in 1..(N + 1)
      BY <1>1
    <3> QED
      BY <1>13, <1>14, <3>1
  <2>2. e[k] = IF c \in {q, "\\"} THEN <<"\\", c>> ELSE <<c>>
    BY <1>1 DEF e, Spelling, Spelled
  <2>3. CASE c \in {q, "\\"}
    <3>1. e[k] = <<"\\", c>> /\ Len(<<"\\", c>>) = 2
      BY <2>2, <2>3
    <3> HIDE DEF x, c
    <3>4. Stands(t, x, <<"\\", c>>) /\ g[k + 1] = x + 2
      BY <2>1, <3>1
    <3>5. x \in Nat \ {0}
      BY <2>1
    <3>2. x \in 1..Len(t) /\ x + 1 \in 1..Len(t) /\ t[x] = "\\" /\ t[x + 1] = c /\ g[k + 1] = x + 2
      BY <3>4, <3>5, RunesStand
    <3> HIDE DEF w
    <3>6. w \in Seq(Runes) /\ q # "\\" /\ x + 1 <= Len(t)
      BY <1>10, <1>11, <2>1, <3>2
    <3>7. InString(t, p, P, n, l, w, q, x) <=>
             x + 1 <= Len(t) /\ InString(t, p, P, n, l, Append(w, t[x + 1]), q, x + 2)
      BY <3>2, <3>6, StringEscapes
    <3>3. InString(t, p, P, n, l, w, q, x) <=> InString(t, p, P, n, l, Append(w, c), q, x + 2)
      BY <3>2, <3>6, <3>7
    <3> QED
      BY <2>1, <3>2, <3>3 DEF w, x
  <2>4. CASE c \notin {q, "\\"}
    <3>1. e[k] = <<c>> /\ Len(<<c>>) = 1
      BY <2>2, <2>4
    <3> HIDE DEF x, c
    <3>4. Stands(t, x, <<c>>) /\ g[k + 1] = x + 1
      BY <2>1, <3>1
    <3>5. x \in Nat \ {0}
      BY <2>1
    <3>2. x \in 1..Len(t) /\ t[x] = c /\ g[k + 1] = x + 1
      BY <3>4, <3>5, RunesStand
    <3> HIDE DEF w
    <3>3. InString(t, p, P, n, l, w, q, x) <=> InString(t, p, P, n, l, Append(w, c), q, x + 1)
      BY <2>1, <2>4, <3>2, StringGoesOn
    <3> QED
      BY <2>1, <3>2, <3>3 DEF w, x
  <2> QED
    BY <2>3, <2>4
<1>16. within(N + 1) <=> goal
  <2>1. SubSeq(s, 1, (N + 1) - 1) = s
    BY <1>1, <1>14
  <2>2. InString(t, p, P, n, l, s, q, z) <=> goal
    BY <1>10, <1>11, StringEnds DEF goal
  <2> QED
    BY <1>13, <2>1, <2>2
<1> HIDE DEF within
<1>17. ASSUME NEW k \in 1..(N + 1), (k + 1)..(N + 1) \subseteq T PROVE k \in T
  <2>1. CASE k = N + 1
    BY <1>16, <2>1
  <2>2. CASE k # N + 1
    <3>1. k \in 1..N /\ k + 1 \in (k + 1)..(N + 1)
      BY <1>1, <2>2
    <3> QED
      BY <1>15, <1>17, <3>1
  <2> QED
    BY <2>1, <2>2
<1>18. 1..(N + 1) \subseteq T
  <2> HIDE DEF T
  <2>1. 1 \in Int /\ N + 1 \in Int
    BY <1>1
  <2> QED
    BY <1>17, <2>1, DownInduction
<1>19. within(1) <=> goal
  <2>1. 1 \in 1..(N + 1)
    BY <1>1
  <2> QED
    BY <1>18, <2>1
<1>20. within(1) <=> InString(t, p, P, n, l, << >>, q, a + 1)
  <2>1. 1 - 1 = 0
    OBVIOUS
  <2> QED
    BY <1>13, <1>14, <2>1 DEF within
<1> QED
  BY <1>9, <1>10, <1>12, <1>19, <1>20 DEF goal

\* An argument of a sample is a value, and written in runes.
LEMMA SampleArgTyped ==
    ASSUME NEW r, IsSampleArg(r), NEW q, IsQuote(q)
    PROVE  r.value \in ArgValues /\ WrittenArg(r, q) \in Seq(Ink)
<1>1. CASE r.text = None /\ r.value.S \in Seq(Runes) /\ r.value = Arg(r.value.S, None, None)
  <2>1. r.value \in ArgValues
    <3>1. Arg(r.value.S, None, None) \in ArgValues
      BY <1>1 DEF ArgValues
    <3> QED
      BY <1>1, <3>1
  <2>2. Quoted(r.value.S, q) \in Seq(Ink)
    BY <1>1, QuotedTyped
  <2> QED
    BY <1>1, <2>1, <2>2 DEF WrittenArg
<1>2. CASE /\ r.text \in Seq(Runes) /\ r.text # None
           /\ Atoi(r.text) # None /\ r.value = Arg(None, Atoi(r.text), None)
  <2>1. Atoi(r.text) \in Int
    BY <1>2, AtoiTyped
  <2>2. Arg(None, Atoi(r.text), None) \in ArgValues
    BY <2>1 DEF ArgValues
  <2>3. r.text \in Seq(Ink)
    BY <1>2, InInk
  <2> QED
    BY <1>2, <2>2, <2>3 DEF WrittenArg
<1> QED
  BY <1>1, <1>2 DEF IsSampleArg

\* A written argument is read as this argument.
LEMMA ArgWritten ==
    ASSUME NEW t \in Seq(Runes), NEW p, NEW P \in Seq(StepValues), NEW n, NEW l \in Seq(ArgValues),
           NEW r, IsSampleArg(r), NEW q, IsQuote(q), NEW a \in Nat \ {0},
           Stands(t, a, WrittenArg(r, q)), a + Len(WrittenArg(r, q)) <= Len(t),
           t[a + Len(WrittenArg(r, q))] \notin Digits
    PROVE  /\ a \in 1..Len(t) /\ t[a] \notin Space /\ t[a] # ")"
           /\ ThenArg(t, p, P, n, l, a) <=>
                 ThenMore(t, p, P, n, Append(l, r.value), a + Len(WrittenArg(r, q)))
<1>1. CASE r.text = None /\ r.value.S \in Seq(Runes) /\ r.value = Arg(r.value.S, None, None)
  <2> DEFINE s == r.value.S
  <2>1. WrittenArg(r, q) = Quoted(s, q) /\ s \in Seq(Runes) /\ WithText(l, s) = Append(l, r.value)
    BY <1>1 DEF WrittenArg, WithText
  <2> HIDE DEF s
  <2>2. Stands(t, a, Quoted(s, q))
    BY <2>1
  <2>3. /\ a \in 1..Len(t) /\ t[a] = q
        /\ ThenArg(t, p, P, n, l, a) <=> ThenMore(t, p, P, n, WithText(l, s), a + Len(Quoted(s, q)))
    BY <2>1, <2>2, StringWritten
  <2>4. q \notin Space /\ q # ")"
    BY RunesApart, QuoteApart
  <2> QED
    BY <2>1, <2>3, <2>4
<1>2. CASE /\ r.text \in Seq(Runes) \ {<< >>, <<"-">>}
           /\ r.text[1] \in {"-"} \cup Digits /\ \A k \in 2..Len(r.text) : r.text[k] \in Digits
           /\ r.text # None /\ Atoi(r.text) # None /\ r.value = Arg(None, Atoi(r.text), None)
  <2> DEFINE w == r.text
  <2>1. WrittenArg(r, q) = w /\ w \in Seq(Runes) /\ WithNumber(l, w) = Append(l, r.value)
    BY <1>2 DEF WrittenArg, WithNumber
  <2>2. /\ w # << >> /\ w[1] \in {"-"} \cup Digits /\ \A k \in 2..Len(w) : w[k] \in Digits
        /\ IsNumber(w)
    BY <1>2 DEF IsNumber
  <2> HIDE DEF w
  <2>3. Stands(t, a, w) /\ a + Len(w) <= Len(t) /\ t[a + Len(w)] \notin Digits
    BY <2>1
  <2>4. ThenArg(t, p, P, n, l, a) <=> ThenMore(t, p, P, n, WithNumber(l, w), a + Len(w))
    BY <2>1, <2>2, <2>3, NumberWritten
  <2>5. a \in 1..Len(t) /\ t[a] = w[1]
    BY <2>1, <2>2, <2>3, StandsIsPart
  <2>6. \A c \in {"-"} \cup Digits : c \notin Space /\ c # ")"
    BY RunesApart
  <2> QED
    BY <2>1, <2>2, <2>4, <2>5, <2>6
<1> QED
  BY <1>1, <1>2 DEF IsSampleArg

\* The marks between the parts of a pipeline.
IsComma(c) == c = ","
IsMark(c)  == c \in {"(", ")", "|"} \/ IsComma(c)

LEMMA MarksApart ==
    /\ \A c : IsMark(c) => c \notin isIdentPart /\ c \notin Digits /\ c \notin Space
    /\ \A c : IsComma(c) => IsMark(c) /\ c # ")"
    /\ \A t, p, P, n, l, x : x \in Commas(t, p, P, n, l) <=>
          x \in 1..Len(t) /\ IsComma(t[x]) /\ ThenArg(t, p, P, n, l, x + 1)
BY RunesApart DEF IsMark, IsComma, Commas

\* Between a name or a value and the mark behind it is a gap at most.
LEMMA GapAndMark ==
    ASSUME NEW t \in Seq(Runes), NEW x \in Nat \ {0}, NEW gap, IsGap(gap), Stands(t, x, gap),
           x + Len(gap) \in 1..Len(t), IsMark(t[x + Len(gap)])
    PROVE  x <= Len(t) /\ t[x] \notin isIdentPart /\ t[x] \notin Digits
<1>1. \A c : IsMark(c) \/ c \in Space => c \notin isIdentPart /\ c \notin Digits
  BY MarksApart, RunesApart
<1>2. Len(t) \in Nat /\ Len(<< >>) = 0
  BY LenProperties, EmptySeq
<1>3. CASE gap = << >>
  <2>1. x + Len(gap) = x
    <3>1. Len(gap) = 0
      BY <1>2, <1>3
    <3> QED
      BY <3>1
  <2>2. x \in 1..Len(t) /\ IsMark(t[x])
    BY <2>1
  <2> QED
    BY <1>1, <1>2, <2>2
<1>4. ASSUME NEW c \in Space, gap = <<c>> PROVE x \in 1..Len(t) /\ t[x] \in Space
  <2>1. Stands(t, x, <<c>>)
    BY <1>4
  <2> QED
    BY <2>1, RunesStand
<1>5. CASE \E c \in Space : gap = <<c>>
  <2>1. x \in 1..Len(t) /\ t[x] \in Space
    BY <1>4, <1>5
  <2> QED
    BY <1>1, <1>2, <2>1
<1> QED
  BY <1>3, <1>5 DEF IsGap

AreCommas(w) == \E c : IsComma(c) /\ w = <<c>>

LEMMA CommaStands ==
    ASSUME NEW w, AreCommas(w)
    PROVE  /\ w \in Seq(Ink) /\ w # << >> /\ Len(w) = 1
           /\ \A t \in Seq(Runes), x \in Nat \ {0} : Stands(t, x, w) => x \in 1..Len(t) /\ IsComma(t[x])
<1>1. PICK c : IsComma(c) /\ w = <<c>>
  BY DEF AreCommas
<1>2. c \in Punctuation
  BY <1>1, Zenon DEF IsComma, Punctuation
<1>3. w \in Seq(Ink) /\ w # << >> /\ Len(w) = 1
  BY <1>1, <1>2, InInk
<1>4. ASSUME NEW t \in Seq(Runes), NEW x \in Nat \ {0}, Stands(t, x, w)
      PROVE  x \in 1..Len(t) /\ IsComma(t[x])
  <2>1. Stands(t, x, <<c>>)
    BY <1>1, <1>4
  <2> QED
    BY <1>1, <2>1, RunesStand
<1> QED
  BY <1>3, <1>4

\* An argument is read, and the gaps and the comma or the bracket behind it.
LEMMA ArgPassed ==
    ASSUME NEW t \in Seq(Runes), NEW p, NEW P \in Seq(StepValues), NEW n, NEW l \in Seq(ArgValues),
           NEW r, IsSampleArg(r), NEW q, IsQuote(q), NEW gap, IsGap(gap),
           NEW x \in Nat \ {0}, NEW y, NEW b, PartAt(t, x, y, WrittenArg(r, q), b, gap),
           (b = << >> /\ y <= Len(t) /\ t[y] = ")") \/ AreCommas(b)
    PROVE  /\ ThenArgs(t, p, P, n, x) <=> ThenArg(t, p, P, n, << >>, x)
           /\ b = << >> => (ThenArg(t, p, P, n, l, x) <=>
                          ThenEnd(t, p, WithStep(P, n, Append(l, r.value)), y + 1))
           /\ AreCommas(b) => (ThenArg(t, p, P, n, l, x) <=> ThenArg(t, p, P, n, Append(l, r.value), y))
<1> DEFINE w == WrittenArg(r, q)
           k == Append(l, r.value)
           u == x + Len(gap)
           v == u + Len(w)
           z == v + Len(gap)
<1>1. w \in Seq(Ink) /\ gap \in Seq(Ink) /\ r.value \in ArgValues
  BY SampleArgTyped, InInk
<1>2. Stands(t, x, gap) /\ Stands(t, u, w) /\ Stands(t, v, gap)
  BY DEF PartAt
<1>3. Stands(t, z, b) /\ y = z + Len(b)
  BY DEF PartAt
<1> HIDE DEF w
<1>4. u \in Nat \ {0} /\ v \in Nat \ {0} /\ z \in Nat \ {0} /\ Len(t) \in Nat
  <2>1. Len(gap) \in Nat /\ Len(w) \in Nat /\ Len(t) \in Nat
    BY <1>1, LenProperties
  <2>2. u \in Nat \ {0}
    BY <2>1
  <2>3. v \in Nat \ {0}
    BY <2>1, <2>2
  <2> QED
    BY <2>1, <2>2, <2>3
<1>5. z \in 1..Len(t) /\ IsMark(t[z]) /\ IF b = << >> THEN y = z /\ t[z] = ")" ELSE y = z + 1 /\ IsComma(t[z])
  <2> HIDE DEF u, v, z, k
  <2>1. CASE b = << >>
    <3>1. Len(b) = 0
      BY <2>1, EmptySeq
    <3>2. z = y /\ y <= Len(t) /\ t[y] = ")"
      BY <1>3, <1>4, <2>1, <3>1, CommaStands
    <3> QED
      BY <1>4, <2>1, <3>2 DEF IsMark
  <2>2. CASE AreCommas(b)
    <3>1. b # << >> /\ Len(b) = 1 /\ z \in 1..Len(t) /\ IsComma(t[z])
      BY <1>3, <1>4, <2>2, CommaStands
    <3> QED
      BY <1>3, <3>1, MarksApart
  <2> QED
    BY <2>1, <2>2
<1>6. v <= Len(t) /\ t[v] \notin Digits
  <2>1. v + Len(gap) \in 1..Len(t) /\ IsMark(t[v + Len(gap)])
    BY <1>5
  <2> HIDE DEF v, z
  <2> QED
    BY <1>2, <1>4, <2>1, GapAndMark
<1>7. << >> \in Seq(ArgValues) /\ k \in Seq(ArgValues)
  <2>1. k \in Seq(ArgValues)
    BY <1>1
  <2> QED
    BY <2>1, EmptySeq
<1>8. ASSUME NEW m \in Seq(ArgValues)
      PROVE  /\ u \in 1..Len(t) /\ t[u] \notin Space /\ t[u] # ")"
             /\ ThenArg(t, p, P, n, m, u) <=> ThenMore(t, p, P, n, Append(m, r.value), v)
  <2>1. Stands(t, u, WrittenArg(r, q)) /\ v = u + Len(WrittenArg(r, q))
    BY <1>2 DEF w
  <2> HIDE DEF u, v
  <2> QED
    BY <1>4, <1>6, <2>1, ArgWritten
<1>9. ThenArgs(t, p, P, n, x) <=> ThenArg(t, p, P, n, << >>, x)
  <2>1. /\ ThenArgs(t, p, P, n, x) <=> ThenArgs(t, p, P, n, u)
        /\ ThenArg(t, p, P, n, << >>, x) <=> ThenArg(t, p, P, n, << >>, u)
    BY <1>2, <1>7, GapPassed
  <2>2. u \in 1..Len(t) /\ t[u] \notin Space /\ t[u] # ")"
    BY <1>7, <1>8
  <2> HIDE DEF u
  <2>3. /\ ThenArgs(t, p, P, n, u) <=>
             u \in Closings(t, p, P, n, << >>) \/ u \in Values(t, p, P, n, << >>)
        /\ ThenArg(t, p, P, n, << >>, u) <=> u \in Values(t, p, P, n, << >>)
    BY <1>7, <2>2, RuneDecides
  <2>4. u \notin Closings(t, p, P, n, << >>)
    BY <2>2 DEF Closings
  <2> QED
    BY <2>1, <2>3, <2>4
<1>10. ThenArg(t, p, P, n, l, x) <=> ThenMore(t, p, P, n, k, z)
  <2>1. ThenArg(t, p, P, n, l, x) <=> ThenArg(t, p, P, n, l, u)
    BY <1>2, GapPassed
  <2>2. ThenArg(t, p, P, n, l, u) <=> ThenMore(t, p, P, n, k, v)
    BY <1>8
  <2> HIDE DEF u, v, k
  <2>3. ThenMore(t, p, P, n, k, v) <=> ThenMore(t, p, P, n, k, v + Len(gap))
    BY <1>2, <1>4, <1>7, GapPassed
  <2> QED
    BY <2>1, <2>2, <2>3
<1> HIDE DEF z, k
<1>11. t[z] \notin Space
  BY <1>5, MarksApart
<1>12. ThenMore(t, p, P, n, k, z) <=> z \in Closings(t, p, P, n, k) \/ z \in Commas(t, p, P, n, k)
  BY <1>5, <1>7, <1>11, RuneDecides
<1>13. ASSUME b = << >>
       PROVE  ThenMore(t, p, P, n, k, z) <=> ThenEnd(t, p, WithStep(P, n, k), y + 1)
  <2>1. z = y /\ t[z] = ")"
    BY <1>5, <1>13
  <2>2. z \notin Commas(t, p, P, n, k)
    BY <2>1, MarksApart
  <2> QED
    BY <1>5, <1>12, <2>1, <2>2 DEF Closings
<1>14. ASSUME AreCommas(b)
       PROVE  ThenMore(t, p, P, n, k, z) <=> ThenArg(t, p, P, n, k, y)
  <2>1. z + 1 = y /\ IsComma(t[z]) /\ t[z] # ")"
    BY <1>5, <1>14, MarksApart, CommaStands
  <2>2. z \notin Closings(t, p, P, n, k)
    BY <2>1 DEF Closings
  <2>3. z \in Commas(t, p, P, n, k) <=> ThenArg(t, p, P, n, k, y)
    BY <1>5, <2>1, MarksApart
  <2> QED
    BY <1>12, <2>2, <2>3
<1> QED
  BY <1>9, <1>10, <1>13, <1>14 DEF k

ArgTexts(A, q) == [k \in DOMAIN A |-> WrittenArg(A[k], q)]
ArgsOf(A)      == [k \in DOMAIN A |-> A[k].value]

\* The arguments of a step are read, up to the closing bracket.
LEMMA ArgsWritten ==
    ASSUME NEW t \in Seq(Runes), NEW p, NEW P \in Seq(StepValues), NEW n,
           NEW A, A \in Seq(ToSet(A)), \A k \in DOMAIN A : IsSampleArg(A[k]),
           NEW q, IsQuote(q), NEW gap, IsGap(gap), NEW b, AreCommas(b),
           NEW a \in Nat \ {0}, Stands(t, a, Joined(ArgTexts(A, q), b, gap)),
           NEW z \in 1..Len(t), z = a + Len(Joined(ArgTexts(A, q), b, gap)), t[z] = ")"
    PROVE  ThenArgs(t, p, P, n, a) <=> ThenEnd(t, p, WithStep(P, n, ArgsOf(A)), z + 1)
<1> DEFINE N == Len(A)
           V == ArgsOf(A)
           W == ArgTexts(A, q)
           J == Joined(W, b, gap)
           goal == ThenEnd(t, p, WithStep(P, n, V), z + 1)
<1>1. N \in Nat /\ DOMAIN A = 1..N
  OBVIOUS
<1>2. /\ V \in Seq(ArgValues) /\ Len(V) = N /\ \A k \in 1..N : V[k] = A[k].value
      /\ W \in Seq(Seq(Ink)) /\ Len(W) = N /\ \A k \in 1..N : W[k] = WrittenArg(A[k], q)
  <2>1. \A k \in 1..N : A[k].value \in ArgValues /\ WrittenArg(A[k], q) \in Seq(Ink)
    BY <1>1, SampleArgTyped
  <2>2. V = [k \in 1..N |-> A[k].value] /\ W = [k \in 1..N |-> WrittenArg(A[k], q)]
    BY <1>1 DEF ArgsOf, ArgTexts
  <2>3. V \in [1..N -> ArgValues] /\ W \in [1..N -> Seq(Ink)]
    BY <2>1, <2>2
  <2> HIDE DEF V, W, N
  <2>4. Len(V) = N /\ Len(W) = N
    BY <1>1, <2>3
  <2> QED
    BY <1>1, <2>2, <2>3, <2>4
<1>3. gap \in Seq(Ink) /\ t \in Seq(Ink) /\ b \in Seq(Ink) /\ << >> \in Seq(ArgValues)
  BY InInk, CommaStands, EmptySeq
<1> HIDE DEF N, V, W, goal
<1>4. CASE N = 0
  <2>1. V = << >> /\ W = << >>
    BY <1>2, <1>4
  <2>2. Len(J) = 0
    <3>1. FlattenSeq(Fitted(W, b, gap)) = J /\ Len(Fitted(W, b, gap)) = 0
      <4>1. /\ Len(Fitted(W, b, gap)) = Len(W)
            /\ Joined(W, b, gap) = FlattenSeq(Fitted(W, b, gap))
        BY <1>2, <1>3, JoinedTyped
      <4> QED
        BY <1>2, <1>4, <4>1
    <3> QED
      BY <3>1 DEF FlattenSeq
  <2>3. z = a
    <3> HIDE DEF J
    <3>1. z = a + Len(J)
      BY DEF J, W
    <3> QED
      BY <2>2, <3>1
  <2>4. t[z] \notin Space /\ ~IsQuote(t[z]) /\ t[z] \notin {"-"} \cup Digits
    BY RunesApart, QuoteApart
  <2>5. ThenArgs(t, p, P, n, z) <=>
           z \in Closings(t, p, P, n, << >>) \/ z \in Values(t, p, P, n, << >>)
    BY <1>3, <2>4, RuneDecides
  <2>6. z \notin Values(t, p, P, n, << >>)
    BY <2>4 DEF Values
  <2>7. z \in Closings(t, p, P, n, << >>) <=> goal
    BY <2>1 DEF Closings, goal
  <2> QED
    BY <2>3, <2>5, <2>6, <2>7 DEF goal, V
<1>5. CASE N # 0
  <2>1. PICK g \in [1..(N + 1) -> Nat \ {0}] :
           /\ g[1] = a /\ g[N + 1] = z
           /\ \A k \in 1..N :
                 PartAt(t, g[k], g[k + 1], W[k], IF k = N THEN << >> ELSE b, gap)
    <3>1. Len(W) >= 1 /\ Stands(t, a, J) /\ z = a + Len(J)
      BY <1>1, <1>2, <1>5 DEF W
    <3>2. PICK g \in [1..(Len(W) + 1) -> Nat \ {0}] :
             g[1] = a /\ g[Len(W) + 1] = a + Len(J) /\ JoinedBy(g, t, W, b, gap)
      <4> HIDE DEF J
      <4>1. J = Joined(W, b, gap)
        BY DEF J
      <4>2. /\ W \in Seq(Seq(Ink)) /\ Len(W) >= 1 /\ t \in Seq(Ink) /\ b \in Seq(Ink)
            /\ gap \in Seq(Ink) /\ Stands(t, a, Joined(W, b, gap))
        BY <1>2, <1>3, <3>1, <4>1
      <4> HIDE DEF N, V, W
      <4>3. \E g \in [1..(Len(W) + 1) -> Nat \ {0}] :
               /\ g[1] = a /\ g[Len(W) + 1] = a + Len(Joined(W, b, gap))
               /\ JoinedBy(g, t, W, b, gap)
        BY <4>2, JoinedStands
      <4> QED
        BY <4>1, <4>3
    <3> QED
      BY <1>2, <3>1, <3>2 DEF JoinedBy
  <2> DEFINE l(k) == SubSeq(V, 1, k)
             behind(k) == ThenArg(t, p, P, n, l(k - 1), g[k])
             T == {k \in 1..N : behind(k) <=> goal}
  <2>2. /\ l(0) = << >> /\ l(N) = V
        /\ \A k \in 1..N : l(k - 1) \in Seq(ArgValues) /\ Append(l(k - 1), V[k]) = l(k)
    <3>1. /\ SubSeq(V, 1, 0) = << >> /\ SubSeq(V, 1, Len(V)) = V
          /\ \A k \in 1..Len(V) : /\ SubSeq(V, 1, k - 1) \in Seq(ArgValues)
                                  /\ Append(SubSeq(V, 1, k - 1), V[k]) = SubSeq(V, 1, k)
      BY <1>2, FirstRunes
    <3> QED
      BY <1>2, <3>1
  <2> HIDE DEF l
  <2>3. ASSUME NEW k \in 1..N
        PROVE  /\ ThenArgs(t, p, P, n, g[k]) <=> ThenArg(t, p, P, n, << >>, g[k])
               /\ k = N => (behind(k) <=> goal)
               /\ k # N => (behind(k) <=> behind(k + 1))
    <3> DEFINE x == g[k]
               y == g[k + 1]
               r == A[k]
               m == l(k - 1)
    <3>1. k \in 1..(N + 1) /\ (k + 1) - 1 = k
      BY <1>1
    <3>2. /\ m \in Seq(ArgValues) /\ IsSampleArg(r) /\ x \in Nat \ {0}
          /\ Append(m, r.value) = l(k)
      BY <1>1, <1>2, <2>1, <2>2, <3>1
    <3>3. PartAt(t, x, y, WrittenArg(r, q), IF k = N THEN << >> ELSE b, gap)
      BY <1>2, <2>1
    <3>4. k = N => y = z /\ l(k) = V
      BY <2>1, <2>2
    <3> HIDE DEF J, behind, T, x, y, r, m
    <3>5. CASE k = N
      <4>1. PartAt(t, x, y, WrittenArg(r, q), << >>, gap) /\ y <= Len(t) /\ t[y] = ")"
        BY <3>3, <3>4, <3>5
      <4>2. /\ ThenArgs(t, p, P, n, x) <=> ThenArg(t, p, P, n, << >>, x)
            /\ ThenArg(t, p, P, n, m, x) <=> ThenEnd(t, p, WithStep(P, n, Append(m, r.value)), y + 1)
        BY <3>2, <4>1, ArgPassed
      <4> QED
        BY <3>2, <3>4, <3>5, <4>2 DEF x, m, goal, behind
    <3>6. CASE k # N
      <4>1. PartAt(t, x, y, WrittenArg(r, q), b, gap)
        BY <3>3, <3>6
      <4>2. /\ ThenArgs(t, p, P, n, x) <=> ThenArg(t, p, P, n, << >>, x)
            /\ ThenArg(t, p, P, n, m, x) <=> ThenArg(t, p, P, n, Append(m, r.value), y)
        BY <3>2, <4>1, ArgPassed
      <4> QED
        BY <3>1, <3>2, <3>6, <4>2 DEF x, y, m, behind
    <3> QED
      BY <3>5, <3>6
  <2> HIDE DEF behind
  <2>4. ASSUME NEW k \in 1..N, (k + 1)..N \subseteq T PROVE k \in T
    <3>1. k # N => k + 1 \in (k + 1)..N
      BY <1>1
    <3> QED
      BY <2>3, <2>4, <3>1
  <2>5. 1..N \subseteq T
    <3> HIDE DEF T
    <3>1. 1 \in Int /\ N \in Int
      BY <1>1
    <3> QED
      BY <2>4, <3>1, DownInduction
  <2>6. 1 \in 1..N /\ 1 - 1 = 0
    BY <1>1, <1>5
  <2>7. behind(1) <=> goal
    BY <2>5, <2>6
  <2>8. behind(1) <=> ThenArg(t, p, P, n, << >>, a)
    BY <2>1, <2>2, <2>6 DEF behind
  <2>9. ThenArgs(t, p, P, n, a) <=> ThenArg(t, p, P, n, << >>, a)
    BY <2>1, <2>3, <2>6
  <2> QED
    BY <2>7, <2>8, <2>9 DEF goal, V
<1> QED
  BY <1>4, <1>5

\* How a step is spelled.
LEMMA StepSpelled ==
    ASSUME NEW s, NEW q, NEW gap
    PROVE  \E b : /\ AreCommas(b)
                  /\ WrittenStep(s, q, gap) =
                        (((s.Name \o gap) \o <<"(">>) \o Joined(ArgTexts(s.Args, q), b, gap)) \o <<")">>
<1> DEFINE b == <<",">>
<1>1. AreCommas(b)
  BY Zenon DEF AreCommas, IsComma
<1>2. WrittenStep(s, q, gap) =
         (((s.Name \o gap) \o <<"(">>) \o Joined(ArgTexts(s.Args, q), b, gap)) \o <<")">>
  BY Zenon DEF WrittenStep, ArgTexts
<1> QED
  BY <1>1, <1>2, Zenon

\* The arguments of a step are values, and its text is written in runes.
LEMMA SampleArgsTyped ==
    ASSUME NEW A, A \in Seq(ToSet(A)), \A k \in DOMAIN A : IsSampleArg(A[k]), NEW q, IsQuote(q)
    PROVE  ArgsOf(A) \in Seq(ArgValues) /\ ArgTexts(A, q) \in Seq(Seq(Ink))
<1> DEFINE N == Len(A)
           V == ArgsOf(A)
           W == ArgTexts(A, q)
<1>1. N \in Nat /\ DOMAIN A = 1..N
  OBVIOUS
<1>2. \A k \in 1..N : A[k].value \in ArgValues /\ WrittenArg(A[k], q) \in Seq(Ink)
  BY <1>1, SampleArgTyped
<1>3. V = [k \in 1..N |-> A[k].value] /\ W = [k \in 1..N |-> WrittenArg(A[k], q)]
  BY <1>1 DEF ArgsOf, ArgTexts
<1>4. V \in [1..N -> ArgValues] /\ W \in [1..N -> Seq(Ink)]
  BY <1>2, <1>3
<1> HIDE DEF V, W, N
<1>5. V \in Seq(ArgValues) /\ W \in Seq(Seq(Ink))
  BY <1>1, <1>4
<1> QED
  BY <1>5 DEF V, W

LEMMA StepTyped ==
    ASSUME NEW s, IsSampleStep(s), NEW q, IsQuote(q), NEW gap, IsGap(gap)
    PROVE  WrittenStep(s, q, gap) \in Seq(Ink)
<1> DEFINE o == <<"(">>
           e == <<")">>
<1>1. PICK b : /\ AreCommas(b)
               /\ WrittenStep(s, q, gap) =
                     (((s.Name \o gap) \o o) \o Joined(ArgTexts(s.Args, q), b, gap)) \o e
  BY StepSpelled
<1> DEFINE J == Joined(ArgTexts(s.Args, q), b, gap)
<1>2. s.Name \in Seq(Ink) /\ gap \in Seq(Ink) /\ o \in Seq(Ink) /\ e \in Seq(Ink)
  <2>1. "(" \in Punctuation /\ ")" \in Punctuation
    BY DEF Punctuation
  <2>2. s.Name \in Seq(Runes)
    BY DEF IsSampleStep
  <2> QED
    BY <2>1, <2>2, InInk
<1>3. J \in Seq(Ink)
  <2>1. ArgTexts(s.Args, q) \in Seq(Seq(Ink))
    BY SampleArgsTyped DEF IsSampleStep
  <2> QED
    BY <1>1, <1>2, <2>1, CommaStands, JoinedTyped
<1> HIDE DEF o, e, J
<1>4. ((s.Name \o gap) \o o) \o J \in Seq(Ink)
  BY <1>2, <1>3
<1>5. (((s.Name \o gap) \o o) \o J) \o e \in Seq(Ink)
  BY <1>2, <1>4
<1> QED
  BY <1>1, <1>5 DEF J

\* A written step is read as this step.
LEMMA StepWritten ==
    ASSUME NEW t \in Seq(Runes), NEW p, NEW P \in Seq(StepValues), NEW s, IsSampleStep(s),
           NEW q, IsQuote(q), NEW gap, IsGap(gap), NEW x \in Nat \ {0},
           Stands(t, x, WrittenStep(s, q, gap))
    PROVE  /\ WrittenStep(s, q, gap) \in Seq(Ink)
           /\ ThenStep(t, p, P, x) <=>
                 ThenEnd(t, p, WithStep(P, s.Name, ArgsOf(s.Args)), x + Len(WrittenStep(s, q, gap)))
<1> DEFINE n == s.Name
           A == s.Args
           o == <<"(">>
           e == <<")">>
           w == WrittenStep(s, q, gap)
<1>1. PICK b : AreCommas(b) /\ w = (((n \o gap) \o o) \o Joined(ArgTexts(A, q), b, gap)) \o e
  BY StepSpelled
<1> DEFINE J == Joined(ArgTexts(A, q), b, gap)
           u == n \o gap
           v == u \o o
           r == v \o J
<1>2. /\ n \in Seq(Runes) /\ n # << >> /\ n[1] \in isIdentStart /\ ToSet(n) \subseteq isIdentPart
      /\ A \in Seq(ToSet(A)) /\ \A k \in DOMAIN A : IsSampleArg(A[k])
  BY DEF IsSampleStep
<1> HIDE DEF n, A
<1>3. t \in Seq(Ink) /\ n \in Seq(Ink) /\ gap \in Seq(Ink) /\ o \in Seq(Ink) /\ e \in Seq(Ink)
  <2>1. "(" \in Punctuation /\ ")" \in Punctuation
    BY DEF Punctuation
  <2> QED
    BY <1>2, <2>1, InInk
<1>4. J \in Seq(Ink)
  BY <1>1, <1>2, <1>3, SampleArgsTyped, CommaStands, JoinedTyped
<1>5. Len(o) = 1 /\ Len(e) = 1
  OBVIOUS
<1> HIDE DEF w, J, o, e, u, v, r
<1>6. u \in Seq(Ink) /\ v \in Seq(Ink) /\ r \in Seq(Ink) /\ w = r \o e /\ w \in Seq(Ink)
  <2>1. u \in Seq(Ink)
    BY <1>3 DEF u
  <2>2. v \in Seq(Ink)
    BY <1>3, <2>1 DEF v
  <2>3. r \in Seq(Ink)
    BY <1>4, <2>2 DEF r
  <2>4. w = r \o e
    BY <1>1 DEF r, v, u, J, w
  <2> QED
    BY <1>3, <2>1, <2>2, <2>3, <2>4
<1> DEFINE a == x + Len(n)
           c == a + Len(gap)
           z == c + 1 + Len(J)
<1>7. /\ Stands(t, x, n) /\ Stands(t, a, gap) /\ Stands(t, c, o) /\ Stands(t, c + 1, J)
      /\ Stands(t, z, e) /\ x + Len(w) = z + 1
      /\ a \in Nat \ {0} /\ c \in Nat \ {0} /\ c + 1 \in Nat \ {0} /\ z \in Nat \ {0}
  <2>0. x \in Nat /\ Len(n) \in Nat /\ Len(gap) \in Nat /\ Len(J) \in Nat
    BY <1>3, <1>4
  <2>1. Stands(t, x, r) /\ Stands(t, x + Len(r), e) /\ x + Len(w) = (x + Len(r)) + Len(e)
    <3>1. Stands(t, x, r \o e)
      BY <1>6 DEF w
    <3>2. /\ Stands(t, x, r) /\ Stands(t, x + Len(r), e)
          /\ x + Len(r \o e) = (x + Len(r)) + Len(e)
      BY <1>3, <1>6, <2>0, <3>1, StandsParts
    <3> QED
      BY <1>6, <3>2
  <2>2. Stands(t, x, v) /\ Stands(t, x + Len(v), J) /\ x + Len(r) = (x + Len(v)) + Len(J)
    <3>1. Stands(t, x, v \o J)
      BY <2>1 DEF r
    <3>2. /\ Stands(t, x, v) /\ Stands(t, x + Len(v), J)
          /\ x + Len(v \o J) = (x + Len(v)) + Len(J)
      BY <1>3, <1>4, <1>6, <2>0, <3>1, StandsParts
    <3> QED
      BY <3>2 DEF r
  <2>3. Stands(t, x, u) /\ Stands(t, x + Len(u), o) /\ x + Len(v) = (x + Len(u)) + Len(o)
    <3>1. Stands(t, x, u \o o)
      BY <2>2 DEF v
    <3>2. /\ Stands(t, x, u) /\ Stands(t, x + Len(u), o)
          /\ x + Len(u \o o) = (x + Len(u)) + Len(o)
      BY <1>3, <1>6, <2>0, <3>1, StandsParts
    <3> QED
      BY <3>2 DEF v
  <2>4. Stands(t, x, n) /\ Stands(t, x + Len(n), gap) /\ x + Len(u) = (x + Len(n)) + Len(gap)
    <3>1. Stands(t, x, n \o gap)
      BY <2>3 DEF u
    <3>2. /\ Stands(t, x, n) /\ Stands(t, x + Len(n), gap)
          /\ x + Len(n \o gap) = (x + Len(n)) + Len(gap)
      BY <1>3, <2>0, <3>1, StandsParts
    <3> QED
      BY <3>2 DEF u
  <2>5. x + Len(u) = c /\ x + Len(v) = c + 1 /\ x + Len(r) = z /\ x + Len(w) = z + 1
    BY <1>5, <2>1, <2>2, <2>3, <2>4
  <2>6. a \in Nat \ {0} /\ c \in Nat \ {0} /\ c + 1 \in Nat \ {0} /\ z \in Nat \ {0}
    BY <2>0
  <2> HIDE DEF a, c, z
  <2> QED
    BY <2>1, <2>2, <2>3, <2>4, <2>5, <2>6 DEF a
<1> HIDE DEF z
<1>8. c \in 1..Len(t) /\ t[c] = "(" /\ z \in 1..Len(t) /\ t[z] = ")"
  <2> HIDE DEF a, c
  <2> QED
    BY <1>7, RunesStand DEF o, e
<1>9. ThenStep(t, p, P, x) <=> ThenOpen(t, p, P, n, a)
  <2>1. a + Len(gap) \in 1..Len(t) /\ IsMark(t[a + Len(gap)])
    BY <1>8 DEF IsMark
  <2>2. a <= Len(t) /\ t[a] \notin isIdentPart
    <3> HIDE DEF a
    <3> QED
      BY <1>7, <2>1, GapAndMark
  <2> QED
    BY <1>2, <1>7, <2>2, NameWritten
<1>10. ThenOpen(t, p, P, n, a) <=> ThenOpen(t, p, P, n, c)
  <2>1. << >> \in Seq(ArgValues)
    BY EmptySeq
  <2> HIDE DEF a
  <2> QED
    BY <1>7, <2>1, GapPassed
<1> HIDE DEF a, c
<1>11. ThenOpen(t, p, P, n, c) <=> ThenArgs(t, p, P, n, c + 1)
  <2>1. t[c] \notin Space /\ << >> \in Seq(ArgValues)
    BY <1>8, RunesApart, EmptySeq
  <2>2. ThenOpen(t, p, P, n, c) <=> c \in Opens(t, p, P, n)
    BY <1>8, <2>1, RuneDecides
  <2> QED
    BY <1>8, <2>2 DEF Opens
<1>12. ThenArgs(t, p, P, n, c + 1) <=> ThenEnd(t, p, WithStep(P, n, ArgsOf(A)), z + 1)
  <2>1. z = (c + 1) + Len(Joined(ArgTexts(A, q), b, gap)) /\ Stands(t, c + 1, Joined(ArgTexts(A, q), b, gap))
    BY <1>7 DEF J, z
  <2> QED
    BY <1>1, <1>2, <1>7, <1>8, <2>1, ArgsWritten
<1> QED
  BY <1>6, <1>7, <1>9, <1>10, <1>11, <1>12 DEF n, A, w

\* A step is read, and the gaps and the bar or the end behind it.
LEMMA StepPassed ==
    ASSUME NEW t \in Seq(Runes), NEW p, NEW P \in Seq(StepValues), NEW s, IsSampleStep(s),
           NEW q, IsQuote(q), NEW gap, IsGap(gap), NEW x \in Nat \ {0}, NEW y, NEW b,
           PartAt(t, x, y, WrittenStep(s, q, gap), b, gap),
           (b = << >> /\ y = Len(t) + 1) \/ b = <<"|">>
    PROVE  LET Q == WithStep(P, s.Name, ArgsOf(s.Args))
           IN  /\ Q \in Seq(StepValues)
               /\ b = << >> => (ThenStep(t, p, P, x) <=> p = Q)
               /\ b = <<"|">> => (ThenStep(t, p, P, x) <=> ThenStep(t, p, Q, y))
<1> DEFINE w == WrittenStep(s, q, gap)
           Q == WithStep(P, s.Name, ArgsOf(s.Args))
           u == x + Len(gap)
           v == u + Len(w)
           z == v + Len(gap)
<1>1. Stands(t, x, gap) /\ Stands(t, u, w) /\ Stands(t, v, gap) /\ Stands(t, z, b) /\ y = z + Len(b)
  BY DEF PartAt
<1>2. Q \in Seq(StepValues)
  <2>1. s.Name \in Seq(Runes)
    BY DEF IsSampleStep
  <2>2. ArgsOf(s.Args) \in Seq(ArgValues)
    BY SampleArgsTyped DEF IsSampleStep
  <2> QED
    BY <2>1, <2>2, ReadTyped
<1> HIDE DEF w, Q
<1>3. x \in Nat /\ Len(gap) \in Nat /\ Len(t) \in Nat /\ << >> \in Seq(ArgValues)
  BY InInk, EmptySeq, LenProperties
<1>4. u \in Nat \ {0}
  BY <1>3
<1>5. w \in Seq(Ink) /\ (ThenStep(t, p, P, u) <=> ThenEnd(t, p, Q, v))
  <2> HIDE DEF u
  <2>1. Stands(t, u, WrittenStep(s, q, gap))
    BY <1>1 DEF w
  <2> QED
    BY <1>4, <2>1, StepWritten DEF w, Q
<1>6. v \in Nat \ {0} /\ z \in Nat \ {0}
  <2>1. Len(w) \in Nat
    BY <1>5
  <2> HIDE DEF u
  <2> QED
    BY <1>3, <1>4, <2>1
<1>7. ThenStep(t, p, P, x) <=> ThenEnd(t, p, Q, z)
  <2>1. ThenStep(t, p, P, x) <=> ThenStep(t, p, P, u)
    BY <1>1, <1>3, GapPassed
  <2> HIDE DEF u, v
  <2>2. ThenEnd(t, p, Q, v) <=> ThenEnd(t, p, Q, v + Len(gap))
    BY <1>1, <1>2, <1>3, <1>6, GapPassed
  <2> QED
    BY <1>5, <2>1, <2>2
<1> HIDE DEF u, v, z
<1>8. CASE b = << >>
  <2>1. Len(b) = 0 /\ b # <<"|">>
    BY <1>8
  <2>2. z = y /\ y = Len(t) + 1
    BY <1>1, <1>6, <1>8, <2>1
  <2>3. z \in 1..(Len(t) + 1) /\ z > Len(t)
    BY <1>3, <2>2
  <2>4. ThenEnd(t, p, Q, z) <=> p = Q
    BY <1>2, <1>3, <2>3, EndDecides
  <2> QED
    BY <1>2, <1>7, <2>1, <2>4 DEF Q
<1>9. CASE b = <<"|">>
  <2>1. Len(b) = 1 /\ b # << >>
    BY <1>9
  <2>2. z \in 1..Len(t) /\ t[z] = "|" /\ y = z + 1
    BY <1>1, <1>6, <1>9, <2>1, RunesStand
  <2>3. t[z] \notin Space
    BY <2>2, RunesApart
  <2>4. ThenEnd(t, p, Q, z) <=> z \in Bars(t, p, Q)
    BY <1>2, <1>3, <2>2, <2>3, RuneDecides
  <2>5. z \in Bars(t, p, Q) <=> ThenStep(t, p, Q, y)
    BY <2>2 DEF Bars
  <2> QED
    BY <1>2, <1>7, <2>1, <2>4, <2>5 DEF Q
<1> QED
  BY <1>8, <1>9

StepTexts(d, q, gap) == [k \in DOMAIN d |-> WrittenStep(d[k], q, gap)]

\* The steps of a written pipeline are read as this pipeline and no other.
LEMMA PipelineWritten ==
    ASSUME NEW t \in Seq(Runes), NEW p, NEW d, d \in Seq(ToSet(d)), \A k \in DOMAIN d : IsSampleStep(d[k]),
           NEW q, IsQuote(q), NEW gap, IsGap(gap), t = WrittenPipeline(d, q, gap)
    PROVE  /\ Len(Meaning(d)) = Len(d)
           /\ d = << >> => t = << >> /\ Meaning(d) = << >>
           /\ d # << >> => (ThenStep(t, p, << >>, 1) <=> p = Meaning(d))
<1> DEFINE N == Len(d)
           V == Meaning(d)
           W == StepTexts(d, q, gap)
           b == <<"|">>
           goal == p = V
<1>1. N \in Nat /\ DOMAIN d = 1..N
  OBVIOUS
<1>2. ASSUME NEW k \in 1..N
      PROVE  /\ IsSampleStep(d[k]) /\ WrittenStep(d[k], q, gap) \in Seq(Ink)
             /\ [Name |-> d[k].Name, Args |-> ArgsOf(d[k].Args)] \in StepValues
  <2> DEFINE s == d[k]
  <2>1. IsSampleStep(s)
    BY <1>1
  <2> HIDE DEF s
  <2>2. WrittenStep(s, q, gap) \in Seq(Ink)
    BY <2>1, StepTyped
  <2>3. s.Name \in Seq(Runes)
    BY <2>1 DEF IsSampleStep
  <2>4. ArgsOf(s.Args) \in Seq(ArgValues)
    BY <2>1, SampleArgsTyped DEF IsSampleStep
  <2>5. [Name |-> s.Name, Args |-> ArgsOf(s.Args)] \in StepValues
    BY <2>3, <2>4 DEF StepValues
  <2> QED
    BY <2>1, <2>2, <2>5 DEF s
<1>3. /\ V \in Seq(StepValues) /\ Len(V) = N
      /\ \A k \in 1..N : V[k] = [Name |-> d[k].Name, Args |-> ArgsOf(d[k].Args)]
      /\ W \in Seq(Seq(Ink)) /\ Len(W) = N /\ \A k \in 1..N : W[k] = WrittenStep(d[k], q, gap)
  <2>1. /\ V = [k \in 1..N |-> [Name |-> d[k].Name, Args |-> ArgsOf(d[k].Args)]]
        /\ W = [k \in 1..N |-> WrittenStep(d[k], q, gap)]
    BY <1>1 DEF Meaning, ArgsOf, StepTexts
  <2>2. V \in [1..N -> StepValues] /\ W \in [1..N -> Seq(Ink)]
    BY <1>2, <2>1
  <2> HIDE DEF V, W, N
  <2>3. Len(V) = N /\ Len(W) = N
    BY <1>1, <2>2
  <2> QED
    BY <1>1, <2>1, <2>2, <2>3
<1>4. t = Joined(W, b, gap)
  BY DEF WrittenPipeline, StepTexts
<1>5. b \in Seq(Ink) /\ gap \in Seq(Ink) /\ t \in Seq(Ink)
  <2>1. "|" \in Punctuation
    BY DEF Punctuation
  <2> QED
    BY <2>1, InInk
<1> HIDE DEF N, V, W, goal, b
<1>6. CASE N = 0
  <2>0. W \in Seq(Seq(Ink)) /\ Len(W) = 0
    BY <1>3, <1>6
  <2>4. /\ Fitted(W, b, gap) \in Seq(Seq(Ink)) /\ Len(Fitted(W, b, gap)) = Len(W)
        /\ Joined(W, b, gap) = FlattenSeq(Fitted(W, b, gap))
    <3>1. W \in Seq(Seq(Ink)) /\ b \in Seq(Ink) /\ gap \in Seq(Ink)
      BY <1>5, <2>0
    <3> QED
      BY <3>1, JoinedTyped
  <2>1. /\ Len(Fitted(W, b, gap)) = 0 /\ t = FlattenSeq(Fitted(W, b, gap))
        /\ Fitted(W, b, gap) \in Seq(Seq(Ink))
    BY <1>4, <2>0, <2>4
  <2>2. t = << >>
    BY <2>1 DEF FlattenSeq
  <2>3. V = << >> /\ d = << >>
    BY <1>3, <1>6 DEF N
  <2> QED
    BY <1>3, <2>2, <2>3 DEF V, N
<1>7. CASE N # 0
  <2>1. 1 + Len(t) = Len(t) + 1 /\ Stands(t, 1, t) /\ Len(t) \in Nat
    <3>1. \A k \in 1..Len(t) : 1 + k - 1 = k
      OBVIOUS
    <3>2. 1 + Len(t) = Len(t) + 1 /\ 1 + Len(t) <= Len(t) + 1 /\ Len(t) \in Nat
      BY LenProperties
    <3> QED
      BY <3>1, <3>2 DEF Stands
  <2>2. PICK g \in [1..(N + 1) -> Nat \ {0}] :
           /\ g[1] = 1 /\ g[N + 1] = Len(t) + 1
           /\ \A k \in 1..N : PartAt(t, g[k], g[k + 1], W[k], IF k = N THEN << >> ELSE b, gap)
    <3>1. Len(W) >= 1 /\ Stands(t, 1, Joined(W, b, gap)) /\ 1 \in Nat \ {0}
      BY <1>1, <1>3, <1>4, <1>7, <2>1
    <3>2. PICK g \in [1..(Len(W) + 1) -> Nat \ {0}] :
             g[1] = 1 /\ g[Len(W) + 1] = 1 + Len(Joined(W, b, gap)) /\ JoinedBy(g, t, W, b, gap)
      <4>1. /\ W \in Seq(Seq(Ink)) /\ Len(W) >= 1 /\ t \in Seq(Ink) /\ b \in Seq(Ink)
            /\ gap \in Seq(Ink) /\ 1 \in Nat \ {0} /\ Stands(t, 1, Joined(W, b, gap))
        BY <1>3, <1>5, <3>1
      <4> QED
        BY <4>1, JoinedStands
    <3> QED
      BY <1>3, <1>4, <2>1, <3>2 DEF JoinedBy
  <2> DEFINE l(k) == SubSeq(V, 1, k)
             behind(k) == ThenStep(t, p, l(k - 1), g[k])
             T == {k \in 1..N : behind(k) <=> goal}
  <2>3. /\ l(0) = << >> /\ l(N) = V
        /\ \A k \in 1..N : l(k - 1) \in Seq(StepValues) /\ Append(l(k - 1), V[k]) = l(k)
    <3>1. /\ SubSeq(V, 1, 0) = << >> /\ SubSeq(V, 1, Len(V)) = V
          /\ \A k \in 1..Len(V) : /\ SubSeq(V, 1, k - 1) \in Seq(StepValues)
                                  /\ Append(SubSeq(V, 1, k - 1), V[k]) = SubSeq(V, 1, k)
      BY <1>3, FirstRunes
    <3> QED
      BY <1>3, <3>1
  <2> HIDE DEF l
  <2>4. ASSUME NEW k \in 1..N
        PROVE  /\ k = N => (behind(k) <=> goal)
               /\ k # N => (behind(k) <=> behind(k + 1))
    <3> DEFINE x == g[k]
               y == g[k + 1]
               s == d[k]
               m == l(k - 1)
               e == IF k = N THEN << >> ELSE b
    <3>1. k \in 1..(N + 1) /\ (k + 1) - 1 = k
      BY <1>1
    <3>2. /\ m \in Seq(StepValues) /\ IsSampleStep(s) /\ x \in Nat \ {0}
          /\ WithStep(m, s.Name, ArgsOf(s.Args)) = l(k)
      BY <1>2, <1>3, <2>2, <2>3, <3>1 DEF WithStep
    <3>3. PartAt(t, x, y, WrittenStep(s, q, gap), e, gap)
      BY <1>3, <2>2
    <3>4. k = N => y = Len(t) + 1 /\ l(k) = V
      BY <2>2, <2>3
    <3>5. (k = N => e = << >>) /\ (k # N => e = <<"|">>)
      BY DEF b
    <3> HIDE DEF behind, T, x, y, s, m, e
    <3>6. /\ e = << >> => (ThenStep(t, p, m, x) <=> p = l(k))
          /\ e = <<"|">> => (ThenStep(t, p, m, x) <=> ThenStep(t, p, l(k), y))
      <4>1. (e = << >> /\ y = Len(t) + 1) \/ e = <<"|">>
        BY <3>4, <3>5
      <4> QED
        BY <3>2, <3>3, <4>1, StepPassed
    <3> QED
      BY <3>1, <3>4, <3>5, <3>6 DEF x, y, m, goal, behind
  <2> HIDE DEF behind
  <2>5. ASSUME NEW k \in 1..N, (k + 1)..N \subseteq T PROVE k \in T
    <3>1. k # N => k + 1 \in (k + 1)..N
      BY <1>1
    <3> QED
      BY <2>4, <2>5, <3>1
  <2>6. 1..N \subseteq T
    <3> HIDE DEF T
    <3>1. 1 \in Int /\ N \in Int
      BY <1>1
    <3> QED
      BY <2>5, <3>1, DownInduction
  <2>7. 1 \in 1..N /\ 1 - 1 = 0
    BY <1>1, <1>7
  <2>8. behind(1) <=> goal
    BY <2>6, <2>7
  <2>9. behind(1) <=> ThenStep(t, p, << >>, 1)
    BY <2>2, <2>3, <2>7 DEF behind
  <2>10. d # << >>
    BY <1>7, EmptySeq DEF N
  <2> QED
    BY <1>3, <2>8, <2>9, <2>10 DEF goal, V, N
<1> QED
  BY <1>6, <1>7

\* A written pipeline denotes itself and nothing else, unless it is too long.
LEMMA WrittenDenotes ==
    ASSUME NEW t \in Seq(Runes), NEW d \in Samples, t \in Writings[d]
    PROVE  Pipelines(t) = IF Len(d) > maxPipelineLength THEN {} ELSE {Meaning(d)}
<1>1. d \in Seq(ToSet(d)) /\ \A k \in DOMAIN d : IsSampleStep(d[k])
  BY SampleAssumption
<1>2. \E q, gap : IsQuote(q) /\ IsGap(gap) /\ t = WrittenPipeline(d, q, gap)
  <2>1. PICK q \in QuoteRunes, gap \in Gaps : t = WrittenPipeline(d, q, gap)
    BY DEF Writings
  <2>2. IsQuote(q)
    BY Zenon DEF IsQuote, QuoteRunes
  <2>3. IsGap(gap)
    BY SampleAssumption, Zenon DEF IsGap, Gaps
  <2> QED
    BY <2>1, <2>2, <2>3
<1>3. PICK q, gap : IsQuote(q) /\ IsGap(gap) /\ t = WrittenPipeline(d, q, gap)
  BY <1>2
<1>4. ASSUME NEW p
      PROVE  /\ Len(Meaning(d)) = Len(d)
             /\ d = << >> => t = << >> /\ Meaning(d) = << >>
             /\ d # << >> => (ThenStep(t, p, << >>, 1) <=> p = Meaning(d))
  BY <1>1, <1>3, PipelineWritten
<1>5. Len(d) \in Nat /\ maxPipelineLength \in Nat /\ Len(t) \in Nat
  BY <1>1, RuneAssumption, LenProperties
<1>6. CASE d = << >>
  <2>1. Blank(t, 1, Len(t))
    <3>1. Len(t) = 0
      BY <1>4, <1>6, EmptySeq
    <3> QED
      BY <3>1 DEF Blank
  <2>2. Pipelines(t) = {<< >>} /\ Meaning(d) = << >>
    BY <1>4, <1>6, <2>1 DEF Pipelines
  <2>3. ~(Len(d) > maxPipelineLength)
    <3>1. Len(d) = 0
      BY <1>6, EmptySeq
    <3> QED
      BY <1>5, <3>1
  <2> QED
    BY <2>2, <2>3
<1>7. CASE d # << >>
  <2>1. ~Blank(t, 1, Len(t))
    <3>1. ThenStep(t, Meaning(d), << >>, 1) /\ 1 \in 1..(Len(t) + 1) /\ << >> \in Seq(StepValues)
      BY <1>4, <1>5, <1>7, EmptySeq
    <3>2. PICK m \in Names(t, Meaning(d), << >>) : m >= 1
      BY <3>1, StepComes DEF Comes
    <3>3. m \in 1..Len(t) /\ t[m] \notin Space
      BY <3>2, RunesApart DEF Names
    <3> QED
      BY <3>3 DEF Blank
  <2>2. \A p : p \in Tails(t)[1] <=> p = Meaning(d)
    BY <1>4, <1>7, TailsCome
  <2>3. Pipelines(t) = {p \in {Meaning(d)} : Len(p) <= maxPipelineLength}
    BY <2>1, <2>2 DEF Pipelines
  <2> QED
    BY <1>4, <1>5, <2>3
<1> QED
  BY <1>6, <1>7

\* A pipeline that is written down is read back as the same operations with
\* the same arguments, unless it is too long.
THEOREM ParsedAsWrittenHolds == ParserSpec => []ParsedAsWritten
<1>1. ParserInv /\ AcceptsGrammar => ParsedAsWritten
  <2> SUFFICES ASSUME ParserInv, AcceptsGrammar, stage \in Over, NEW p \in Samples, text \in Writings[p]
               PROVE  IF Len(p) > maxPipelineLength THEN stage = "error"
                      ELSE stage = "done" /\ pipeline = Meaning(p)
    BY DEF ParsedAsWritten
  <2>1. Pipelines(text) = IF Len(p) > maxPipelineLength THEN {} ELSE {Meaning(p)}
    BY WrittenDenotes DEF ParserInv
  <2> QED
    BY <2>1 DEF AcceptsGrammar, Over
<1> QED
  BY <1>1, ParserInvHolds, AcceptsGrammarHolds, PTL

-----------------------------------------------------------------------------
(* The texts of rules.                                                      *)

\* Texts that are read between requests, and pipelines that are evaluated as
\* they were read, are read as by Parse alone: what is proved of ParserSpec
\* holds of TextSpec.
THEOREM TextsAreParsed == TextSpec => ParserSpec
<1>1. TextInit => Idle
  BY DEF TextInit
<1>2. ASSUME [TextNext]_textVars PROVE [ParserNext]_parserVars
  BY <1>2 DEF TextNext, EvaluateText, textVars
<1> QED
  BY <1>1, <1>2, PTL DEF TextSpec, ParserSpec
=============================================================================
