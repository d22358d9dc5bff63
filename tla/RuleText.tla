------------------------------ MODULE RuleText ------------------------------
(***************************************************************************)
(* Rules whose pipelines were written as text: what Parse makes of a text, *)
(* evaluated by the rule engine.  The tests of ruleengine write rules this *)
(* way, without the validation of a request.                               *)
(***************************************************************************)
EXTENDS RuleEngine, Grammar

CONSTANTS NameOf(_),  \* the operation that a text names
          Samples     \* pipelines, an argument that is an integer with its text

\* An argument of a sample: a text, or an integer as Atoi reads it.
IsSampleArg(a) ==
    \/ /\ a.text = None
       /\ a.value.S \in Seq(Runes) /\ a.value = Arg(a.value.S, None, None)
    \/ /\ a.text \in Seq(Runes) \ {<< >>, <<"-">>}
       /\ a.text[1] \in {"-"} \cup Digits /\ \A k \in 2..Len(a.text) : a.text[k] \in Digits
       /\ None \notin {a.text, Atoi(a.text)} /\ a.value = Arg(None, Atoi(a.text), None)

IsSampleStep(s) ==
    /\ s.Name \in Seq(Runes) \ {<< >>}
    /\ s.Name[1] \in isIdentStart /\ ToSet(s.Name) \subseteq isIdentPart
    /\ s.Args \in Seq(ToSet(s.Args)) /\ \A k \in DOMAIN s.Args : IsSampleArg(s.Args[k])

ASSUME SampleAssumption ==
    /\ " " \in Space
    /\ \A p \in Samples : p \in Seq(ToSet(p)) /\ \A k \in DOMAIN p : IsSampleStep(p[k])

textVars == <<vars, parserVars>>

Named(p) == [k \in DOMAIN p |-> [p[k] EXCEPT !.Name = NameOf(@)]]

\* Evaluate on a rule that transforms one group by the pipeline, whatever its
\* operations and their arguments are.
EvaluateText(p, h) ==
    /\ stage = "done" /\ pc = "idle"
    /\ \E g \in GroupsOf[p] :
          Call(<<[enabled |-> TRUE, pattern |-> p, transforms |-> [t \in {g} |-> Named(pipeline)],
                  template |-> <<"{">> \o g \o <<"}">>]>>, h)
    /\ op' = "text"
    /\ UNCHANGED <<stored, req, result, parserVars>>

TextInit == Init /\ Idle

\* A text is read while nothing is stored, and requests come between texts:
\* neither reads what the other writes.
TextNext ==
    \/ stage = "idle" /\ Next /\ UNCHANGED parserVars
    \/ pc = "idle" /\ stored = << >> /\ ParserNext /\ UNCHANGED vars
    \/ \E p \in DOMAIN GroupsOf, h \in Hosts : GroupsOf[p] # None /\ EvaluateText(p, h)
    \/ op = "text" /\ (Skip \/ evaluateMatch \/ Unmatched \/ Return) /\ UNCHANGED parserVars

TextSpec == TextInit /\ [][TextNext]_textVars

-----------------------------------------------------------------------------
(* Texts that are written from pipelines. *)

Quoted(s, q) ==
    <<q>> \o FlattenSeq([k \in DOMAIN s |-> IF s[k] \in {q, "\\"} THEN <<"\\", s[k]>> ELSE <<s[k]>>])
          \o <<q>>

Joined(parts, bar, gap) ==
    FlattenSeq([k \in DOMAIN parts |-> gap \o parts[k] \o gap \o IF k = Len(parts) THEN << >> ELSE bar])

\* The text of a sample, with this quote, and this white space wherever there
\* may be some.
WrittenArg(a, q) == IF a.text = None THEN Quoted(a.value.S, q) ELSE a.text

WrittenStep(s, q, gap) ==
    s.Name \o gap \o <<"(">>
    \o Joined([k \in DOMAIN s.Args |-> WrittenArg(s.Args[k], q)], <<",">>, gap) \o <<")">>

WrittenPipeline(p, q, gap) == Joined([k \in DOMAIN p |-> WrittenStep(p[k], q, gap)], <<"|">>, gap)

QuoteRunes == {"\"", "'"}
Gaps       == {<< >>, <<" ">>}
Writings   == [p \in Samples |-> {WrittenPipeline(p, q, gap) : q \in QuoteRunes, gap \in Gaps}]

Meaning(p) == [k \in DOMAIN p |-> [Name |-> p[k].Name,
                                   Args |-> [n \in DOMAIN p[k].Args |-> p[k].Args[n].value]]]

\* A pipeline that is written down is read back as the same operations with
\* the same arguments, in either quotes and with quotes and backslashes in
\* its texts, unless it is too long.
ParsedAsWritten ==
    stage \in Over =>
        \A p \in Samples : text \in Writings[p] =>
            IF Len(p) > maxPipelineLength THEN stage = "error"
            ELSE stage = "done" /\ pipeline = Meaning(p)
=============================================================================
