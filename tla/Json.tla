-------------------------------- MODULE Json --------------------------------
(***************************************************************************)
(* JSON values and their text (json.rs), as the lexemes of the text: marks *)
(* of punctuation, words, numbers and strings, with line ends for white    *)
(* space.  Numbers are counted in halves, so that there are fractions; one *)
(* too large for an f64 is parsed as Infinity.                             *)
(***************************************************************************)
EXTENDS Integers, Sequences, SequencesExt

CONSTANTS MaxDepth,     \* MAX_DEPTH
          Infinity      \* f64::INFINITY

Mark(s) == [k |-> "mark", s |-> s]

Word(s) == [k |-> "word", s |-> s]

Space == [k |-> "eol"]

Null == [t |-> "null"]

Bool(b) == [t |-> "bool", b |-> b]

Num(n) == [t |-> "num", n |-> n]

Str(s) == [t |-> "str", s |-> s]

Arr(a) == [t |-> "arr", a |-> a]

Obj(o) == [t |-> "obj", o |-> o]

IsValue(v) == \/ v = Null
              \/ v.t = "bool" /\ v = Bool(v.b)
              \/ v.t = "num" /\ v = Num(v.n) /\ v.n \in Int \cup {Infinity}
              \/ v.t = "str" /\ v = Str(v.s)
              \/ v.t = "arr" /\ v = Arr(v.a)
              \/ v.t = "obj" /\ v = Obj(v.o)

\* Not a value: what is absent, and what does not parse.
NoValue == [t |-> "none"]

-----------------------------------------------------------------------------
(* The parser: each part yields a value and the place after it             *)

Parsed(v, i) == [v |-> v, i |-> i]

Failed == Parsed(NoValue, 0)

\* ws: the first place from i on that is not white space.
Skip(b, i) == Min({Len(b) + 1} \cup {j \in i..Len(b) : b[j] # Space})

\* Whether b has the mark s at i.
At(b, i, s) == i <= Len(b) /\ b[i] = Mark(s)

\* A value of one lexeme: string, number and lit.
Scalar(x) == CASE x.k = "num" -> Num(x.n)
               [] x.k = "str" -> Str(x.s)
               [] x = Word("null") -> Null
               [] x = Word("true") -> Bool(TRUE)
               [] x = Word("false") -> Bool(FALSE)
               [] OTHER -> NoValue

\* What array does where an item is expected; `parse` is the parser of b.
Items(b, i, depth, parse) ==
    LET item == parse["value", Skip(b, i), depth + 1]
        next == Skip(b, item.i)
        rest == parse["items", next + 1, depth]
    IN CASE item.v = NoValue -> Failed
         [] At(b, next, "]") -> Parsed(Arr(<<item.v>>), next + 1)
         [] At(b, next, ",") /\ rest.v # NoValue -> Parsed(Arr(<<item.v>> \o rest.v.a), rest.i)
         [] OTHER -> Failed

\* What object does where a key is expected; a repeated key keeps its last value.
Members(b, i, depth, parse) ==
    LET key == Skip(b, i)
        colon == Skip(b, key + 1)
        member == parse["value", Skip(b, colon + 1), depth + 1]
        next == Skip(b, member.i)
        rest == parse["members", next + 1, depth]
    IN CASE key > Len(b) \/ ~(b[key].k = "str") -> Failed
         [] ~At(b, colon, ":") \/ member.v = NoValue -> Failed
         [] At(b, next, "}") -> Parsed(Obj(b[key].s :> member.v), next + 1)
         [] At(b, next, ",") /\ rest.v # NoValue ->
                Parsed(Obj(rest.v.o @@ (b[key].s :> member.v)), rest.i)
         [] OTHER -> Failed

ValueAt(b, i, depth, parse) ==
    LET first == Skip(b, i + 1)
    IN CASE depth > MaxDepth \/ i > Len(b) -> Failed
         [] At(b, i, "[") /\ At(b, first, "]") -> Parsed(Arr(<<>>), first + 1)
         [] At(b, i, "[") /\ ~At(b, first, "]") -> parse["items", i + 1, depth]
         [] At(b, i, "{") /\ At(b, first, "}") -> Parsed(Obj(<<>>), first + 1)
         [] At(b, i, "{") /\ ~At(b, first, "}") -> parse["members", i + 1, depth]
         [] OTHER -> Parsed(Scalar(b[i]), i + 1)

\* parse: one value and nothing after it.
Parse(b) ==
    LET parse[what \in {"value", "items", "members"}, i \in Nat, depth \in Nat] ==
            CASE what = "value" -> ValueAt(b, i, depth, parse)
              [] what = "items" -> Items(b, i, depth, parse)
              [] what = "members" -> Members(b, i, depth, parse)
        value == parse["value", Skip(b, 1), 0]
    IN IF value.v # NoValue /\ Skip(b, value.i) = Len(b) + 1 THEN value.v ELSE NoValue

-----------------------------------------------------------------------------
(* Access                                                                  *)

\* A number that is_finite.
Finite(v) == v.t = "num" /\ v.n \in Int

\* Json::get: the member of an object, if it is one and has it.
Get(v, key) == IF v.t = "obj" /\ key \in DOMAIN v.o THEN v.o[key] ELSE NoValue

GetStr(v, key) == LET m == Get(v, key) IN IF m.t = "str" THEN m.s ELSE ""

HasStr(v, key) == Get(v, key).t = "str"
=============================================================================
