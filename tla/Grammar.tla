------------------------------ MODULE Grammar -------------------------------
(***************************************************************************)
(* The language of pipelines, said without a parser: which pipelines a     *)
(* text denotes, part by part.  Bars separate steps and commas arguments,  *)
(* and white space may stand around each of them.                          *)
(* A part of a text t is given by the places a..b of its runes.            *)
(***************************************************************************)
EXTENDS Parser

Blank(t, a, b) == \A i \in a..b : t[i] \in Space

\* Where a part may begin and end, its white space left out.
Begins(t, a, b) == {x \in a..b : Blank(t, a, x - 1)}
Closes(t, a, b) == {y \in a..b : Blank(t, y + 1, b)}

Identifiers(t, a, b) ==
    {n \in {SubSeq(t, x, y) : x \in Begins(t, a, b), y \in Closes(t, a, b)} :
        n # << >> /\ n[1] \in isIdentStart /\ ToSet(n) \subseteq isIdentPart}

\* What stands in quotes q up to the place b, read from any place: runes that
\* are neither the quote nor a backslash, and runes after a backslash.
Quotations(t, q, b) ==
    LET rest[i \in 1..(b + 1)] ==
          IF i > b THEN {<< >>}
          ELSE IF t[i] = "\\"
               THEN IF i = b THEN {} ELSE {<<t[i + 1]>> \o r : r \in rest[i + 2]}
               ELSE IF t[i] = q THEN {} ELSE {<<t[i]>> \o r : r \in rest[i + 1]}
    IN  rest

Strings(t, x, y) ==
    IF x < y /\ t[x] \in {"\"", "'"} /\ t[y] = t[x]
    THEN {Arg(s, None, None) : s \in Quotations(t, t[x], y - 1)[x + 1]}
    ELSE {}

\* Digits, at least one, that may follow a minus, and that Atoi accepts.
Numbers(t, x, y) ==
    LET first == IF t[x] = "-" THEN x + 1 ELSE x
    IN  IF /\ first <= y /\ \A i \in first..y : t[i] \in Digits
           /\ Atoi(SubSeq(t, x, y)) # None
        THEN {Arg(None, Atoi(SubSeq(t, x, y)), None)}
        ELSE {}

Arguments(t, a, b) ==
    UNION {Strings(t, x, y) \cup Numbers(t, x, y) : x \in Begins(t, a, b), y \in Closes(t, a, b)}

\* What is separated by the rune c up to the place b, read from any place.
Separated(item, c, t, b) ==
    LET list[a \in 1..(b + 1)] ==
          {<<v>> : v \in item[a][b]}
          \cup UNION {{<<v>> \o r : v \in item[a][m - 1], r \in list[m + 1]} :
                          m \in {k \in a..b : t[k] = c}}
    IN  list

Lists(t, b) == Separated([a \in 1..(b + 1) |-> [e \in 0..b |-> Arguments(t, a, e)]], ",", t, b)

Brackets(t, a, b) == IF Blank(t, a, b) THEN {<< >>} ELSE Lists(t, b)[a]

Steps(t, a, b) ==
    UNION {{[Name |-> n, Args |-> l] :
               n \in Identifiers(t, a, s[1] - 1), l \in Brackets(t, s[1] + 1, s[2] - 1)} :
           s \in {k \in (a..b) \X Closes(t, a, b) : k[1] < k[2] /\ t[k[1]] = "(" /\ t[k[2]] = ")"}}

Tails(t) ==
    Separated([a \in 1..(Len(t) + 1) |-> [e \in 0..Len(t) |-> Steps(t, a, e)]], "|", t, Len(t))

Pipelines(t) ==
    IF Blank(t, 1, Len(t)) THEN {<< >>} ELSE {p \in Tails(t)[1] : Len(p) <= maxPipelineLength}

\* Parse accepts the texts of the language and no other, and returns what the
\* text denotes, wherever spaces, quotes, escapes and bars stand and wherever
\* the text breaks off.
AcceptsGrammar == /\ stage = "done"  => Pipelines(text) = {pipeline}
                  /\ stage = "error" => Pipelines(text) = {}
=============================================================================
