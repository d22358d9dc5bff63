-------------------------------- MODULE Dsl --------------------------------
(***************************************************************************)
(* The pipelines that transform captured values: what their operations     *)
(* compute, and the JSON form in which requests carry and the rules table  *)
(* keeps them.                                                             *)
(*   src/internal/dsl/ops.go, pipeline.go, json.go.                        *)
(* A text is a sequence of characters.  Go's string functions, case        *)
(* mappings and regular expressions are external.                          *)
(***************************************************************************)
EXTENDS Integers, SequencesExt

CONSTANTS Char,           \* the characters of texts
          Wide,           \* those of two bytes, all others have one
          Space,          \* the white space characters
          ToUpper(_),     \* of a character
          ToLower(_),
          ReplaceAllString(_, _, _),  \* pattern, repl, text; None: does not compile
          Panic,          \* a slice index out of range: the goroutine panics
          None            \* an error, and nil

ASSUME DslAssumption ==
    /\ \A c \in Char : ToUpper(c) \in Char /\ ToLower(c) \in Char
    /\ Panic # None /\ Panic \notin Seq(Char)

-----------------------------------------------------------------------------
(* Go: slices, and package strings. *)

\* s[a:b]
Slice(s, a, b) == IF 0 <= a /\ a <= b /\ b <= Len(s) THEN SubSeq(s, a + 1, b) ELSE Panic

Concat(s, t) == IF s = Panic \/ t = Panic THEN Panic ELSE s \o t

ByteLen(s) == Len(s) + Cardinality({i \in DOMAIN s : s[i] \in Wide})

TrimLeft(s, cut) ==
    LET first == SelectInSeq(s, LAMBDA c : c \notin cut)
    IN  IF first = 0 THEN << >> ELSE SubSeq(s, first, Len(s))

TrimRight(s, cut) == SubSeq(s, 1, SelectLastInSeq(s, LAMBDA c : c \notin cut))

\* strings.Replace: from left to right, at most n times, always if n < 0; the
\* empty text is found before every character and at the end.
Replace(s, old, new, n) ==
    LET found(i) == i + Len(old) - 1 <= Len(s) /\ SubSeq(s, i, i + Len(old) - 1) = old
        rest[i \in 1..(Len(s) + 1)] == [done \in Nat |->
            LET here == found(i) /\ done # n
                head == IF here THEN new ELSE << >>
                count == IF here THEN done + 1 ELSE done
            IN  IF here /\ old # << >> THEN new \o rest[i + Len(old)][count]
                ELSE IF i > Len(s) THEN head
                ELSE head \o <<s[i]>> \o rest[i + 1][count]]
    IN  rest[1][0]

-----------------------------------------------------------------------------
(* ops.go and pipeline.go.  An argument is a text, an integer or a table. *)

Arg(s, i, m) == [S |-> s, I |-> i, M |-> m]

OpSpec(min, max, names) == [MinArgs |-> min, MaxArgs |-> max, ArgNames |-> names]

registry ==
    [trim            |-> OpSpec(0, 0, << >>),
     trimLeft        |-> OpSpec(1, 1, <<"cutset">>),
     trimRight       |-> OpSpec(1, 1, <<"cutset">>),
     upper           |-> OpSpec(0, 0, << >>),
     lower           |-> OpSpec(0, 0, << >>),
     replace         |-> OpSpec(2, 2, <<"old", "new">>),
     replaceN        |-> OpSpec(3, 3, <<"old", "new", "n">>),
     replaceRegex    |-> OpSpec(2, 2, <<"pattern", "repl">>),
     deleteSubstring |-> OpSpec(1, 1, <<"substr">>),
     deleteRange     |-> OpSpec(2, 2, <<"start", "end">>),
     insertAt        |-> OpSpec(2, 2, <<"pos", "text">>),
     slice           |-> OpSpec(2, 2, <<"start", "end">>),
     prefix          |-> OpSpec(1, 1, <<"text">>),
     suffix          |-> OpSpec(1, 1, <<"text">>),
     padLeft         |-> OpSpec(2, 2, <<"length", "pad">>),
     padRight        |-> OpSpec(2, 2, <<"length", "pad">>),
     default         |-> OpSpec(1, 1, <<"value">>),
     mapValues       |-> OpSpec(1, 2, <<"table", "fallback">>)]

argString(a, i) == IF i > Len(a) THEN None ELSE a[i].S
argInt(a, i)    == IF i > Len(a) THEN None ELSE a[i].I

\* The positions where an operation calls argString, and argInt, first of all.
StringArgs(name) ==
    CASE name \in {"trimLeft", "trimRight", "deleteSubstring", "prefix", "suffix"} -> {1}
      [] name \in {"replace", "replaceN", "replaceRegex"} -> {1, 2}
      [] name \in {"insertAt", "padLeft", "padRight"} -> {2}
      [] OTHER -> {}
IntArgs(name) ==
    CASE name = "replaceN" -> {3}
      [] name \in {"deleteRange", "slice"} -> {1, 2}
      [] name \in {"insertAt", "padLeft", "padRight"} -> {1}
      [] OTHER -> {}

\* Mutant: the end is not compared with the start.
InRange_Ends(start, end, v) == start >= 0 /\ end <= Len(v)

\* runeRange
InRange(start, end, v) == start >= 0 /\ end <= Len(v) /\ start <= end

\* Mutant: the last repetition is not cut off.
Padding_Whole(v, length, p) ==
    LET build[b \in 0..length] ==
          IF ByteLen(p) * b + ByteLen(v) < length /\ Len(p) * b + Len(v) < length
          THEN p \o build[b + 1] ELSE << >>
    IN  build[0]

\* The loop of pad, which counts bytes and characters, and the cut to what is
\* needed.
Padding(v, length, p) ==
    LET build[b \in 0..length] ==
          IF ByteLen(p) * b + ByteLen(v) < length /\ Len(p) * b + Len(v) < length
          THEN p \o build[b + 1] ELSE << >>
        needed == length - Len(v)
    IN  IF Len(build[0]) > needed THEN Slice(build[0], 0, needed) ELSE build[0]

pad(v, length, p, left) ==
    IF p = << >> THEN None
    ELSE IF Len(v) >= length THEN v
    ELSE IF left THEN Concat(Padding(v, length, p), v) ELSE Concat(v, Padding(v, length, p))

deleteRange(v, start, end) ==
    IF InRange(start, end, v) THEN Concat(Slice(v, 0, start), Slice(v, end, Len(v))) ELSE None

insertAt(v, pos, text) ==
    IF pos < 0 \/ pos > Len(v) THEN None
    ELSE Concat(Concat(Slice(v, 0, pos), text), Slice(v, pos, Len(v)))

mapValues(v, a) ==
    IF a[1].M = None THEN None
    ELSE IF v \in DOMAIN a[1].M THEN a[1].M[v]
    ELSE IF Len(a) = 2 THEN argString(a, 2)
    ELSE v

\* OpSpec.Fn
Fn(name, v, a) ==
    LET s(i) == argString(a, i)
        n(i) == argInt(a, i)
    IN  IF \/ \E i \in StringArgs(name) : s(i) = None
           \/ \E i \in IntArgs(name) : n(i) = None THEN None
        ELSE CASE name = "trim"      -> TrimRight(TrimLeft(v, Space), Space)
               [] name = "trimLeft"  -> TrimLeft(v, ToSet(s(1)))
               [] name = "trimRight" -> TrimRight(v, ToSet(s(1)))
               [] name = "upper"     -> [i \in DOMAIN v |-> ToUpper(v[i])]
               [] name = "lower"     -> [i \in DOMAIN v |-> ToLower(v[i])]
               [] name = "replace"   -> Replace(v, s(1), s(2), -1)
               [] name = "replaceN"  -> Replace(v, s(1), s(2), n(3))
               [] name = "replaceRegex"    -> ReplaceAllString(s(1), s(2), v)
               [] name = "deleteSubstring" -> Replace(v, s(1), << >>, -1)
               [] name = "deleteRange"     -> deleteRange(v, n(1), n(2))
               [] name = "insertAt"  -> insertAt(v, n(1), s(2))
               [] name = "slice"     -> IF InRange(n(1), n(2), v) THEN Slice(v, n(1), n(2)) ELSE None
               [] name = "prefix"    -> s(1) \o v
               [] name = "suffix"    -> v \o s(1)
               [] name = "padLeft"   -> pad(v, n(1), s(2), TRUE)
               [] name = "padRight"  -> pad(v, n(1), s(2), FALSE)
               [] name = "default"   -> IF v # << >> THEN v ELSE s(1)
               [] name = "mapValues" -> mapValues(v, a)

\* Pipeline.Apply: None at the first step that fails.
Apply(p, input) ==
    LET arity(op) == Len(op.Args) \in registry[op.Name].MinArgs..registry[op.Name].MaxArgs
        value[k \in 0..Len(p)] ==
            IF k = 0 THEN input
            ELSE IF value[k - 1] \in {None, Panic} THEN value[k - 1]
            ELSE IF p[k].Name \in DOMAIN registry /\ arity(p[k])
            THEN Fn(p[k].Name, value[k - 1], p[k].Args)
            ELSE None
    IN  value[Len(p)]

-----------------------------------------------------------------------------
(* json.go.  A JSON pipeline is a sequence of objects with an op and named *)
(* args; a JSON value has a type and, according to it, a content.          *)

Json(t, s, i, m) == [type |-> t, s |-> s, i |-> i, m |-> m]

\* What a request or a row can hold, jsonOp: any names, any values.
IsJson(ops) ==
    /\ Len(ops) \in Nat /\ ops = [k \in 1..Len(ops) |-> ops[k]]
    /\ \A k \in DOMAIN ops : \A n \in DOMAIN ops[k].args :
          LET v == ops[k].args[n]
          IN  /\ v.s = None \/ v.s \in Seq(Char)
              /\ v.i = None \/ v.i \in Int
              /\ v.m = None \/ \A t \in DOMAIN v.m : v.m[t] \in Seq(Char)

marshalArg(a) == CASE a.S # None -> Json("string", a.S, None, None)
                   [] a.S = None /\ a.I # None -> Json("number", None, a.I, None)
                   [] a.S = None /\ a.I = None /\ a.M # None -> Json("object", None, None, a.M)
                   [] OTHER -> None

\* null is a table without a value; a list or a fraction is no argument.
unmarshalArg(v) == CASE v.type \in {"object", "null"} -> Arg(None, None, v.m)
                     [] v.type = "number" -> Arg(None, v.i, None)
                     [] v.type = "string" -> Arg(v.s, None, None)
                     [] OTHER -> None

\* Mutant: counts from one.
argNameFor_FromOne(spec, i) == IF i + 1 <= Len(spec.ArgNames) THEN spec.ArgNames[i + 1] ELSE "arg"

argNameFor(spec, i) == IF i <= Len(spec.ArgNames) THEN spec.ArgNames[i] ELSE "arg"

\* Pipeline.MarshalJSON: None if there is no such op or an argument has no
\* value.
MarshalJSON(p) ==
    LET fine(op) == /\ op.Name \in DOMAIN registry
                    /\ \A i \in DOMAIN op.Args : marshalArg(op.Args[i]) # None
        name(op, i) == argNameFor(registry[op.Name], i)
        args(op) == [n \in {name(op, i) : i \in DOMAIN op.Args} |->
                        marshalArg(op.Args[CHOOSE i \in DOMAIN op.Args : name(op, i) = n])]
    IN  IF \A k \in DOMAIN p : fine(p[k])
        THEN [k \in DOMAIN p |-> [op |-> p[k].Name, args |-> args(p[k])]]
        ELSE None

\* FromJSON: the arguments up to the first one that is missing; those after
\* it, and those no operation knows, are dropped.
FromJSON(ops) ==
    LET spec(jo)  == registry[jo.op]
        names(jo) == spec(jo).ArgNames
        given(jo) == LET gap == SelectInSeq(names(jo), LAMBDA n : n \notin DOMAIN jo.args)
                     IN  IF gap = 0 THEN Len(names(jo)) ELSE gap - 1
        args(jo)  == [i \in 1..given(jo) |-> unmarshalArg(jo.args[names(jo)[i]])]
        fine(jo)  == /\ jo.op \in DOMAIN registry
                     /\ given(jo) >= spec(jo).MinArgs
                     /\ \A i \in 1..given(jo) : args(jo)[i] # None
    IN  IF \A k \in DOMAIN ops : fine(ops[k])
        THEN [k \in DOMAIN ops |-> [Name |-> ops[k].op, Args |-> args(ops[k])]]
        ELSE None
=============================================================================
