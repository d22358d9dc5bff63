----------------------------- MODULE RuleEngine -----------------------------
(***************************************************************************)
(* From a host name to a cluster key: how rules are validated when they    *)
(* are saved, kept in the rules table, and evaluated when they are used.   *)
(*   src/internal/ruleengine/*.go, the handlers Create, Update and Test of *)
(*   src/internal/api/http/rules.go, and the rows of rule_repo.go.         *)
(* What a regular expression captures is external: a table.  Texts that    *)
(* are taken apart are sequences of characters.                            *)
(***************************************************************************)
EXTENDS Dsl

CONSTANTS GroupsOf,    \* GroupsOf[p]: named groups of pattern p, None: does not compile
          MatchOf,     \* MatchOf[p][h]: group -> text on host name h, None: no match
          Hosts,
          Bodies,      \* bodies of create and update requests, with JSON pipelines
          TestBodies,  \* bodies of test requests
          MaxRules     \* bound: rules that are stored at a time

\* A body is a rule; a group has a name, and a match a text for every group, the
\* empty text for one that took no part in it.
ASSUME RuleEngineAssumption ==
    /\ \A b \in Bodies \cup TestBodies :
          /\ b = [enabled |-> b.enabled, pattern |-> b.pattern,
                  transforms |-> b.transforms, template |-> b.template]
          /\ b.enabled \in BOOLEAN /\ b.pattern \in DOMAIN GroupsOf
          /\ b.template \in Seq(Char)
          /\ \A g \in DOMAIN b.transforms : IsJson(b.transforms[g])
    /\ \A p \in DOMAIN GroupsOf : GroupsOf[p] # None =>
          /\ << >> \notin GroupsOf[p]
          /\ \A h \in Hosts : MatchOf[p][h] # None => MatchOf[p][h] \in [GroupsOf[p] -> Seq(Char)]

VARIABLES
    stored,  \* the rules table, in the order of the priorities
    pc,
    op,      \* the request that is served
    req,     \* the rule in its body
    rules,   \* the argument "rules" of Evaluate
    host,    \* its argument "hostname"
    i,       \* the position of its loop
    result   \* the MatchResult; the rule is its position in rules, 0: nil

vars == <<stored, pc, op, req, rules, host, i, result>>

-----------------------------------------------------------------------------
(* template.go *)

\* Mutant: the search starts one character late.
IndexByte_Late(t, c, from) == SelectInSubSeq(t, from + 1, Len(t), LAMBDA x : x = c)

\* strings.IndexByte on the rest of t, as a position of t; 0 if there is none.
IndexByte(t, c, from) == SelectInSubSeq(t, from, Len(t), LAMBDA x : x = c)

Literal(s) == [token |-> FALSE, text |-> s]
Token(s)   == [token |-> TRUE, text |-> s]

\* The pieces walkTemplateTokens visits, in their order.
walkTemplateTokens(t) ==
    LET walk[n \in 1..(Len(t) + 1)] ==
          LET open  == IndexByte(t, "{", n)
              close == IndexByte(t, "}", open)
              tail  == IF close = 0 THEN <<Literal(SubSeq(t, open, Len(t)))>>
                       ELSE <<Token(SubSeq(t, open + 1, close - 1))>> \o walk[close + 1]
          IN  IF n > Len(t) THEN <<>>
              ELSE IF open = 0 THEN <<Literal(SubSeq(t, n, Len(t)))>>
              ELSE IF open > n THEN <<Literal(SubSeq(t, n, open - 1))>> \o tail
              ELSE tail
    IN  walk[1]

Visited(t) == ToSet(walkTemplateTokens(t))

extractTemplateTokens(t) == {piece.text : piece \in {q \in Visited(t) : q.token}}

renderTemplate(t, values) ==
    LET write(piece) == IF ~piece.token THEN piece.text
                        ELSE IF piece.text \in DOMAIN values THEN values[piece.text]
                        ELSE <<>>
        pieces == walkTemplateTokens(t)
    IN  FlattenSeq([n \in DOMAIN pieces |-> write(pieces[n])])

-----------------------------------------------------------------------------
(* validate.go and ruleengine.go *)

\* Mutant: any token will do as long as there is a group.
ValidateRule_SomeGroup(r) ==
    IF GroupsOf[r.pattern] = None THEN {"pattern"}
    ELSE IF GroupsOf[r.pattern] = {} THEN extractTemplateTokens(r.template)
    ELSE DOMAIN r.transforms \ GroupsOf[r.pattern]

\* What is wrong with a rule: the undefined groups it refers to.
ValidateRule(r) ==
    IF GroupsOf[r.pattern] = None THEN {"pattern"}
    ELSE (DOMAIN r.transforms \cup extractTemplateTokens(r.template)) \ GroupsOf[r.pattern]

\* The groups whose pipeline fails, or panics.
Ends(r, raw, outcome) ==
    {g \in DOMAIN raw \cap DOMAIN r.transforms : Apply(r.transforms[g], raw[g]) = outcome}

TransformedCaptures(r, raw) ==
    [g \in DOMAIN raw |-> IF g \in DOMAIN r.transforms \ Ends(r, raw, None)
                          THEN Apply(r.transforms[g], raw[g])
                          ELSE raw[g]]

NoResult == [rule |-> 0, values |-> << >>, key |-> << >>, warnings |-> {}]

\* The warnings are the groups whose pipeline failed, and << >> for the empty
\* key.
MatchResult(n, r, raw) ==
    LET values == TransformedCaptures(r, raw)
        key    == renderTemplate(r.template, values)
    IN  [rule |-> n, values |-> values, key |-> key,
         warnings |-> Ends(r, raw, None) \cup IF key = << >> THEN {<< >>} ELSE {}]

\* json.Marshal and json.Unmarshal of the transforms of a rule.
Encode(r) == [r EXCEPT !.transforms = [g \in DOMAIN @ |-> MarshalJSON(@[g])]]
Decode(r) == [r EXCEPT !.transforms = [g \in DOMAIN @ |-> FromJSON(@[g])]]

Sound(r) == \A g \in DOMAIN r.transforms : r.transforms[g] # None

-----------------------------------------------------------------------------
Init == /\ stored = << >>
        /\ pc = "idle" /\ op = "none" /\ req = None
        /\ rules = << >> /\ host = None /\ i = 0
        /\ result = NoResult

\* A create, update or test request; the body must be a rule.
Receive(o, bodies) ==
    /\ pc = "idle"
    /\ o = "create" => Len(stored) < MaxRules
    /\ \E body \in bodies : Sound(Decode(body)) /\ req' = Decode(body)
    /\ pc' = "validate" /\ op' = o
    /\ UNCHANGED <<stored, rules, host, i, result>>

Answered == pc' = "idle" /\ op' = "none" /\ req' = None

\* A validation error; or the rule cannot be encoded, the statement fails, or
\* it finds no rule to update.
Refuse ==
    /\ pc = "validate"
    /\ ValidateRule(req) # {} \/ op # "test"
    /\ Answered
    /\ UNCHANGED <<stored, rules, host, i, result>>

\* RulesHandler.Create: its priority puts the rule anywhere.
Create(n) ==
    /\ pc = "validate" /\ op = "create"
    /\ ValidateRule(req) = {}
    /\ Sound(Encode(req))
    /\ stored' = InsertAt(stored, n, Encode(req))
    /\ Answered
    /\ UNCHANGED <<rules, host, i, result>>

\* RulesHandler.Update: every field, and so the position too.
Update(n, m) ==
    /\ pc = "validate" /\ op = "update"
    /\ ValidateRule(req) = {}
    /\ Sound(Encode(req))
    /\ stored' = InsertAt(RemoveAt(stored, n), m, Encode(req))
    /\ Answered
    /\ UNCHANGED <<rules, host, i, result>>

Call(rs, h) ==
    /\ pc' = "evaluate"
    /\ rules' = rs /\ host' = h /\ i' = 1

\* RulesHandler.Test: the candidate alone, enabled.
Test(h) ==
    /\ pc = "validate" /\ op = "test"
    /\ ValidateRule(req) = {}
    /\ Call(<<[req EXCEPT !.enabled = TRUE]>>, h)
    /\ UNCHANGED <<stored, op, req, result>>

\* SELECT ... WHERE is_enabled, in the order of the table.
Enabled(table) ==
    LET rows[n \in 0..Len(table)] == IF n = 0 THEN << >>
                                     ELSE IF table[n].enabled THEN Append(rows[n - 1], table[n])
                                     ELSE rows[n - 1]
    IN  rows[Len(table)]

ListEnabledOrdered == [n \in DOMAIN Enabled(stored) |-> Decode(Enabled(stored)[n])]

\* A discovery or redistribute: one row that does not decode fails all; then
\* Evaluate.
Assign(h) ==
    /\ pc = "idle"
    /\ \A n \in DOMAIN ListEnabledOrdered : Sound(ListEnabledOrdered[n])
    /\ Call(ListEnabledOrdered, h)
    /\ op' = "assign"
    /\ UNCHANGED <<stored, req, result>>

\* The regular expression of a rule on the host name; one that does not
\* compile matches nothing.
Captures(r) == IF GroupsOf[r.pattern] = None THEN None ELSE MatchOf[r.pattern][host]

Matches(r) == r.enabled /\ Captures(r) # None

\* The loop of Evaluate goes on.
Skip ==
    /\ pc = "evaluate"
    /\ i <= Len(rules)
    /\ ~Matches(rules[i])
    /\ i' = i + 1
    /\ UNCHANGED <<stored, pc, op, req, rules, host, result>>

\* Mutant: a rule that renders to nothing does not count.
evaluateMatch_NonEmpty ==
    /\ pc = "evaluate"
    /\ i <= Len(rules)
    /\ Matches(rules[i])
    /\ LET match == MatchResult(i, rules[i], Captures(rules[i]))
       IN  IF match.key = << >> THEN i' = i + 1 /\ UNCHANGED <<pc, result>>
                                ELSE pc' = "return" /\ result' = match /\ UNCHANGED i
    /\ UNCHANGED <<stored, op, req, rules, host>>

\* The first rule that matches decides.
evaluateMatch ==
    /\ pc = "evaluate"
    /\ i <= Len(rules)
    /\ Matches(rules[i])
    /\ LET raw == Captures(rules[i])
       IN  IF Ends(rules[i], raw, Panic) # {}
           THEN pc' = "panic" /\ UNCHANGED result
           ELSE pc' = "return" /\ result' = MatchResult(i, rules[i], raw)
    /\ UNCHANGED <<stored, op, req, rules, host, i>>

\* No rule matched.
Unmatched ==
    /\ pc = "evaluate"
    /\ i > Len(rules)
    /\ result' = NoResult
    /\ pc' = "return"
    /\ UNCHANGED <<stored, op, req, rules, host, i>>

\* The caller has the result.
Return ==
    /\ pc = "return"
    /\ Answered
    /\ rules' = << >> /\ host' = None /\ i' = 0 /\ result' = NoResult
    /\ UNCHANGED stored

\* A dry run does not read what is stored: it is enough to make them while
\* nothing is.
Next ==
    \/ Receive("create", Bodies) \/ Receive("update", Bodies)
    \/ stored = << >> /\ Receive("test", TestBodies)
    \/ Refuse
    \/ \E n \in 1..(Len(stored) + 1) : Create(n)
    \/ \E n, m \in DOMAIN stored : Update(n, m)
    \/ \E h \in Hosts : Test(h) \/ Assign(h)
    \/ Skip \/ evaluateMatch \/ Unmatched \/ Return

Spec == Init /\ [][Next]_vars

-----------------------------------------------------------------------------
(* Correctness. *)

\* Put together again, literals and braced tokens.
Source(pieces) ==
    FlattenSeq([n \in DOMAIN pieces |-> IF pieces[n].token THEN <<"{">> \o pieces[n].text \o <<"}">>
                                                         ELSE pieces[n].text])

\* walkTemplateTokens neither loses nor repeats text, whatever the braces look
\* like (unclosed, nested, adjacent, empty), and finds every token: only the
\* last literal may have an opening brace, and then nothing closes it; no token
\* reaches beyond the first closing brace.
WalkIsLossless ==
    pc = "validate" =>
        LET pieces == walkTemplateTokens(req.template)
        IN  /\ Source(pieces) = req.template
            /\ \A n \in DOMAIN pieces : \A b \in DOMAIN pieces[n].text :
                  /\ pieces[n].text[b] = "{" => pieces[n].token \/ n = Len(pieces)
                  /\ pieces[n].text[b] = "}" => /\ ~pieces[n].token
                                                /\ \A a \in 1..b : pieces[n].text[a] # "{"

\* The fallback of renderTemplate for a token without a value is never needed,
\* as its comment says: whatever was saved, moved, edited or failed before, the
\* rule that decides has a value for each of its tokens and a group for each of
\* its transforms, also when a pipeline fails.  (Which operations a pipeline has,
\* and with how many arguments, FromJSON checks.)
ValidatedNeverFallsBack ==
    result.rule # 0 =>
        /\ extractTemplateTokens(rules[result.rule].template) \subseteq DOMAIN result.values
        /\ DOMAIN rules[result.rule].transforms \subseteq DOMAIN result.values

\* The verdict of a discovery or redistribute is that of the first stored rule
\* that is enabled and matches; a rule that renders to nothing, or whose
\* pipeline fails, is no exception.  There is a key only from a rule, and a
\* group whose pipeline failed keeps what was captured.
EvaluateIsFirstMatch ==
    (pc = "return" /\ op = "assign") =>
        LET hits == {n \in DOMAIN stored : /\ stored[n].enabled
                                           /\ MatchOf[stored[n].pattern][host] # None}
        IN  IF hits = {} THEN result = NoResult
            ELSE LET first == stored[CHOOSE n \in hits : \A m \in hits : n <= m]
                 IN  /\ result.rule # 0
                     /\ rules[result.rule] = Decode(first)
                     /\ DOMAIN result.values = GroupsOf[first.pattern]
                     /\ result.key = << >> <=> << >> \in result.warnings
                     /\ \A g \in DOMAIN result.values \cap result.warnings :
                           result.values[g] = MatchOf[first.pattern][host][g]

\* What is saved is what was sent and tried out: a pipeline comes back from its
\* JSON form as the same operations with the same arguments, so that one rule
\* never makes the table unreadable.
SavedAsSent ==
    [][stored' # stored => \E n \in DOMAIN stored' : Decode(stored'[n]) = req]_vars

\* No operation slices a value out of its bounds, whatever integers its
\* arguments are: a panic in the goroutine of a scan would end the process.
NeverPanics == pc # "panic"

\* The pads a rule asks for, by themselves.
Pads == {g \in DOMAIN req.transforms :
            /\ Len(req.transforms[g]) = 1
            /\ req.transforms[g][1].Name \in {"padLeft", "padRight"}
            /\ g \notin result.warnings}

\* pad keeps the value at its side, never exceeds the length, and reaches it
\* when all characters are single bytes; with others it may fall short, since
\* its loop also counts bytes.
PadFits ==
    (pc = "return" /\ op = "test" /\ result.rule # 0) =>
        \A g \in Pads :
            LET a      == req.transforms[g][1].Args
                raw    == MatchOf[req.pattern][host][g]
                padded == result.values[g]
                goal   == IF Len(raw) >= a[1].I THEN Len(raw) ELSE a[1].I
            IN  /\ IF req.transforms[g][1].Name = "padLeft" THEN IsSuffix(raw, padded)
                                                           ELSE IsPrefix(raw, padded)
                /\ Len(padded) <= goal
                /\ (ToSet(raw) \cup ToSet(a[2].S)) \cap Wide = {} => Len(padded) = goal
=============================================================================
