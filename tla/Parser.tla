------------------------------- MODULE Parser -------------------------------
(***************************************************************************)
(* The text form of a pipeline, such as trim() | replace("-old-", "-new-"),*)
(* read rune by rune.                                                      *)
(*   src/internal/dsl/parser.go.                                           *)
(* A stage is the place where the parser stands between two reads; the     *)
(* stages of Skips are its calls of skipSpace.                             *)
(***************************************************************************)
EXTENDS Dsl

CONSTANTS Runes,
          Texts,     \* the inputs of Parse
          Letters,   \* unicode.IsLetter
          Digits,    \* unicode.IsDigit
          ValueOf,   \* the digits that strconv.Atoi knows, and their values
          MaxInt,    \* the largest int
          maxPipelineLength

Punctuation == {"_", "(", ")", ",", "|", "-", "\"", "'", "\\"}

ASSUME RuneAssumption ==
    /\ Texts \subseteq Seq(Runes) /\ None \notin Runes
    /\ Letters \cap Digits = {} /\ (Letters \cup Digits) \cap Space = {}
    /\ Punctuation \cap (Letters \cup Digits \cup Space) = {}
    /\ DOMAIN ValueOf \subseteq Digits
    /\ MaxInt \in Nat /\ maxPipelineLength \in Nat

VARIABLES
    text, pos,  \* input and pos of the parser
    stage,
    pipeline,   \* the steps so far, or the result
    name, args, \* of the step that is read
    token,      \* the identifier, integer or string that is read, as far as it is
    quote       \* the quote that opened the string

parserVars == <<text, pos, stage, pipeline, name, args, token, quote>>

Skips  == {"begin", "afterName", "afterOpen", "afterArg", "afterComma", "afterStep", "afterBar"}
Tokens == {"name", "digits", "string", "escape"}
Over   == {"done", "error"}

-----------------------------------------------------------------------------
\* p.pos < len(p.input), and p.input[p.pos], which exists only then: where
\* the code panics, Rune has no value.
More == pos < Len(text)
Rune == text[pos + 1]

Peek(runes) == More /\ Rune \in runes

isIdentStart == Letters \cup {"_"}
isIdentPart  == isIdentStart \cup Digits

\* strconv.Atoi of an optional minus and digits: no other digits than those of
\* ASCII, and no value out of range.
Atoi(s) ==
    LET digits == IF s[1] = "-" THEN Tail(s) ELSE s
        value[k \in 0..Len(digits)] == IF k = 0 THEN 0 ELSE 10 * value[k - 1] + ValueOf[digits[k]]
        n == IF s[1] = "-" THEN -value[Len(digits)] ELSE value[Len(digits)]
    IN  IF ToSet(digits) \subseteq DOMAIN ValueOf /\ n \in (-MaxInt - 1)..MaxInt THEN n ELSE None

-----------------------------------------------------------------------------
Idle == /\ text = << >> /\ pos = 0 /\ stage = "idle" /\ pipeline = << >>
        /\ name = << >> /\ args = << >> /\ token = << >> /\ quote = None

Parse ==
    /\ stage = "idle"
    /\ stage' = "begin" /\ text' \in Texts
    /\ UNCHANGED <<pos, pipeline, name, args, token, quote>>

\* The caller has the result.
Parsed ==
    /\ stage \in Over
    /\ stage' = "idle" /\ text' = << >> /\ pos' = 0 /\ pipeline' = << >>
    /\ name' = << >> /\ args' = << >> /\ token' = << >> /\ quote' = None

\* On to another stage, past a rune or not.
Goto(next)  == stage' = next /\ UNCHANGED <<text, pos>>
Eat(next)   == stage' = next /\ pos' = pos + 1 /\ UNCHANGED text
Others      == UNCHANGED <<pipeline, name, args, token, quote>>
Fail        == Goto("error") /\ pipeline' = << >> /\ UNCHANGED <<name, args, token, quote>>

\* A loop iteration of skipSpace.
skipSpace == stage \in Skips /\ Peek(Space) /\ Eat(stage) /\ Others

\* The call of skipSpace that ends at a stage has returned.
At(s) == stage = s /\ ~Peek(Space)

\* parsePipeline: nothing but white space.
Empty == At("begin") /\ ~More /\ Goto("done") /\ Others

\* Mutant: the arguments of the step before stay.
Ident_KeepsArgs ==
    /\ (At("begin") /\ More) \/ At("afterBar")
    /\ IF Peek(isIdentStart)
       THEN Eat("name") /\ token' = <<Rune>> /\ UNCHANGED <<pipeline, name, args, quote>>
       ELSE Fail

\* parseStep begins with parseIdent.
Ident ==
    /\ (At("begin") /\ More) \/ At("afterBar")
    /\ IF Peek(isIdentStart)
       THEN /\ Eat("name")
            /\ token' = <<Rune>> /\ args' = << >>
            /\ UNCHANGED <<pipeline, name, quote>>
       ELSE Fail

\* Mutant: the position stays.
IdentPart_Stays ==
    /\ stage = "name"
    /\ IF Peek(isIdentPart)
       THEN Goto("name") /\ token' = Append(token, Rune) /\ UNCHANGED <<pipeline, name, args, quote>>
       ELSE Goto("afterName") /\ name' = token /\ UNCHANGED <<pipeline, args, token, quote>>

\* The loop of parseIdent.
IdentPart ==
    /\ stage = "name"
    /\ IF Peek(isIdentPart)
       THEN Eat("name") /\ token' = Append(token, Rune) /\ UNCHANGED <<pipeline, name, args, quote>>
       ELSE Goto("afterName") /\ name' = token /\ UNCHANGED <<pipeline, args, token, quote>>

Open == At("afterName") /\ IF Peek({"("}) THEN Eat("afterOpen") /\ Others ELSE Fail

\* parseArg, which begins a string or an integer, for the first argument or
\* the one after a comma.
parseArg ==
    /\ (At("afterOpen") /\ More /\ Rune # ")") \/ At("afterComma")
    /\ \/ /\ Peek({"\"", "'"})
          /\ Eat("string")
          /\ quote' = Rune /\ token' = << >>
          /\ UNCHANGED <<pipeline, name, args>>
       \/ /\ Peek({"-"} \cup Digits)
          /\ Eat("digits")
          /\ token' = <<Rune>>
          /\ UNCHANGED <<pipeline, name, args, quote>>
       \/ ~Peek({"\"", "'", "-"} \cup Digits) /\ Fail

\* The rune after a backslash, whatever it is.
Escape ==
    /\ stage = "escape"
    /\ IF More
       THEN /\ Eat("string")
            /\ token' = Append(token, Rune)
            /\ UNCHANGED <<pipeline, name, args, quote>>
       ELSE Fail

\* An iteration of the loop of parseString.
parseString ==
    /\ stage = "string"
    /\ \/ ~More /\ Fail
       \/ Peek({"\\"}) /\ Eat("escape") /\ Others
       \/ /\ Peek({quote} \ {"\\"})
          /\ Eat("afterArg")
          /\ args' = Append(args, Arg(token, None, None))
          /\ UNCHANGED <<pipeline, name, token, quote>>
       \/ /\ More /\ Rune \notin {"\\", quote}
          /\ Eat("string")
          /\ token' = Append(token, Rune)
          /\ UNCHANGED <<pipeline, name, args, quote>>

\* An iteration of the loop of parseInt, and what follows it.
parseInt ==
    /\ stage = "digits"
    /\ \/ /\ Peek(Digits)
          /\ Eat("digits")
          /\ token' = Append(token, Rune)
          /\ UNCHANGED <<pipeline, name, args, quote>>
       \/ /\ ~Peek(Digits) /\ token # <<"-">> /\ Atoi(token) # None
          /\ Goto("afterArg")
          /\ args' = Append(args, Arg(None, Atoi(token), None))
          /\ UNCHANGED <<pipeline, name, token, quote>>
       \/ /\ ~Peek(Digits)
          /\ token # <<"-">> => Atoi(token) = None
          /\ Fail

Comma == At("afterArg") /\ Peek({","}) /\ Eat("afterComma") /\ Others

\* The end of parseStep.
Close ==
    /\ (At("afterOpen") /\ (More => Rune = ")")) \/ (At("afterArg") /\ ~Peek({","}))
    /\ IF Peek({")"})
       THEN /\ Eat("afterStep")
            /\ pipeline' = Append(pipeline, [Name |-> name, Args |-> args])
            /\ UNCHANGED <<name, args, token, quote>>
       ELSE Fail

\* Mutant: one step too few.
Finish_OffByOne ==
    /\ At("afterStep") /\ ~More
    /\ IF Len(pipeline) >= maxPipelineLength THEN Fail ELSE Goto("done") /\ Others

\* The end of parsePipeline, and of Parse.
Finish ==
    /\ At("afterStep") /\ ~More
    /\ IF Len(pipeline) > maxPipelineLength THEN Fail ELSE Goto("done") /\ Others

Bar == At("afterStep") /\ More /\ IF Peek({"|"}) THEN Eat("afterBar") /\ Others ELSE Fail

parserStep == \/ skipSpace \/ Empty \/ Ident \/ IdentPart \/ Open \/ parseArg \/ Escape
              \/ parseString \/ parseInt \/ Comma \/ Close \/ Finish \/ Bar

ParserNext == Parse \/ parserStep \/ Parsed

ParserSpec == Idle /\ [][ParserNext]_parserVars

-----------------------------------------------------------------------------
(* Correctness. *)

\* Stages that a step may reach without reading a rune.
Left == CASE stage \in {"name", "digits"} -> 2
          [] stage \in Over -> 0
          [] OTHER -> 1

\* No text keeps the parser busy: every step reads a rune, or leaves fewer
\* steps that may follow without reading one, and none at all when the text
\* is over.
Progress ==
    [][stage \notin Over \cup {"idle"} => pos' > pos \/ (pos' = pos /\ Left' < Left)]_parserVars
=============================================================================
