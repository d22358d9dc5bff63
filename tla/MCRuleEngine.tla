---------------------------- MODULE MCRuleEngine ----------------------------
(* A small instance of RuleText, and with it of RuleEngine and Parser. *)
EXTENDS RuleText

CONSTANTS MaxTemplate,  \* bounds: the length of a template,
          MaxText       \* and of a text of any runes

(* Host names by what the group g captures.  Lower case x has the upper case
   X; W stands for a character of two bytes. *)
Text == [empty |-> << >>, x |-> <<"x">>, wx |-> <<"W", "x">>, xsx |-> <<"x", " ", "x">>]

\* "bad" does not compile, "plain" has no group and matches one host name.
MCGroupsOf == [bad |-> None, plain |-> {}, group |-> {<<"g">>}]

MCMatchOf == [bad   |-> [h \in Hosts |-> None],
              plain |-> [h \in Hosts |-> IF h = "x" THEN << >> ELSE None],
              group |-> [h \in Hosts |-> [g \in {<<"g">>} |-> Text[h]]]]

MCUpper(c) == IF c = "x" THEN "X" ELSE c
MCLower(c) == IF c = "X" THEN "x" ELSE c

\* The one pattern that compiles matches the whole value.
MCReplace(pattern, repl, v) == IF pattern = <<"x">> THEN repl ELSE None

-----------------------------------------------------------------------------
String(s) == Json("string", s, None, None)
Number(n) == Json("number", None, n, None)
Tables    == {Json("object", None, None, [v \in {<<"x">>} |-> <<"W">>]),
              Json("null", None, None, None), Json("other", None, None, None)}

Values    == {String(s) : s \in {<< >>, <<"x">>, <<"W", "x">>}}
             \cup {Number(n) : n \in -1..4} \cup Tables

\* Every operation, with any values as its arguments.
OneOp == UNION {{<<[op |-> o, args |-> a]>> :
                    a \in [ToSet(registry[o].ArgNames) -> Values]} : o \in DOMAIN registry}

\* Arguments that are missing or unknown, an unknown operation, two steps.
Odd == {<<[op |-> "mapValues", args |-> [table |-> t]]>> : t \in Values}
       \cup {<<[op |-> "mapValues", args |-> [fallback |-> String(<<"x">>)]]>>,
             <<[op |-> "upper", args |-> [cutset |-> String(<<"x">>)]]>>,
             <<[op |-> "eval", args |-> << >>]>>,
             <<[op |-> "slice", args |-> [start |-> Number(0), end |-> Number(1)]],
               [op |-> "upper", args |-> << >>]>>,
             << >>}

\* Few pipelines for what is stored: one that changes the text, one that
\* fails on a short one, one that cannot be saved.
Few == {<<[op |-> "upper", args |-> << >>]>>,
        <<[op |-> "slice", args |-> [start |-> Number(0), end |-> Number(1)]]>>,
        <<[op |-> "prefix", args |-> [text |-> Json("null", None, None, None)]]>>}

\* The transforms of a rule: none, or one of S for the group g.
Optional(S) == {<< >>} \cup {[g \in {<<"g">>} |-> p] : p \in S}

Rules(flags, patterns, pipelines, templates) ==
    [enabled : flags, pattern : patterns, transforms : Optional(pipelines), template : templates]

AllTemplates == BoundedSeq({"{", "}", "g"}, MaxTemplate)

\* A token, an empty token, an unclosed brace, nothing.
SavedTemplates == {<<"{", "g", "}">>, <<"{", "}">>, <<"g", "{">>, << >>}

MCBodies == Rules(BOOLEAN, {"bad", "plain", "group"}, Few, SavedTemplates)

MCTestBodies == Rules({TRUE}, {"plain", "group"}, {}, AllTemplates)
                \cup Rules({TRUE}, {"group"}, OneOp \cup Odd, {<<"{", "g", "}">>})
-----------------------------------------------------------------------------
(* Texts of pipelines.  D is a digit that is none of ASCII. *)

MCValueOf == [d \in {"1"} |-> 1]

MCNameOf(t) == CASE t = <<"x">> -> "prefix"
                 [] t = <<"x", "x">> -> "slice"
                 [] t = <<"x", "1">> -> "upper"
                 [] OTHER -> "unknown"

MCRunes == {"x", "1", "D", "-", "(", ")", "\"", "'", "\\", "|", ",", " "}

Of(s)      == [text |-> None, value |-> Arg(s, None, None)]
Num(t, n)  == [text |-> t, value |-> Arg(None, n, None)]
Op(n, as)  == [Name |-> n, Args |-> as]

\* Texts with quotes, backslashes and spaces; integers; two steps; one step
\* too many.
MCSamples == {<<Op(<<"x">>, <<Of(<<"\"", "x", "'">>)>>)>>,
              <<Op(<<"x">>, <<Of(<<"\\", " ">>)>>)>>,
              <<Op(<<"x", "x">>, <<Num(<<"-", "1", "1">>, -11), Num(<<"1">>, 1)>>)>>,
              <<Op(<<"x">>, <<Of(<< >>)>>), Op(<<"x", "1">>, << >>)>>,
              <<Op(<<"x">>, << >>), Op(<<"x">>, << >>), Op(<<"x">>, << >>)>>}

\* A text, and what a slip makes of it: a rune too many, too few or another.
Slips(t) == {t} \cup {InsertAt(t, k, r) : k \in 1..(Len(t) + 1), r \in Runes}
                \cup {RemoveAt(t, k) : k \in DOMAIN t}
                \cup {ReplaceAt(t, k, r) : k \in DOMAIN t, r \in Runes}

MCTexts == BoundedSeq(Runes, MaxText)
           \cup UNION {Slips(t) : t \in UNION {Writings[p] : p \in Samples}}
=============================================================================
