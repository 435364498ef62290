------------------------------ MODULE JsonText ------------------------------
(***************************************************************************)
(* The text of a JSON value (json.rs): what its serializer writes and its  *)
(* parser (Json) reads.  The serializer writes null for a number that is   *)
(* not finite; here it stands for the digits of one too large for a double *)
(* that a client may send.                                                 *)
(***************************************************************************)
EXTENDS Json

\* The members are written in the order of their keys, of which only that there is one
\* matters here.
RECURSIVE Text(_)

Separated(texts) ==
    FlattenSeq([i \in DOMAIN texts |-> IF i = 1 THEN texts[i] ELSE <<Mark(",")>> \o texts[i]])

Member(o, key) == <<[k |-> "str", s |-> key], Mark(":")>> \o Text(o[key])

Text(v) ==
    CASE v.t = "null" -> <<Word("null")>>
      [] v.t = "bool" -> <<Word(IF v.b THEN "true" ELSE "false")>>
      [] v.t = "num" -> <<[k |-> "num", n |-> v.n]>>
      [] v.t = "str" -> <<[k |-> "str", s |-> v.s]>>
      [] v.t = "arr" -> <<Mark("[")>> \o Separated([i \in DOMAIN v.a |-> Text(v.a[i])])
                        \o <<Mark("]")>>
      [] v.t = "obj" -> LET keys == SetToSeq(DOMAIN v.o)
                        IN <<Mark("{")>> \o Separated([i \in DOMAIN keys |-> Member(v.o, keys[i])])
                           \o <<Mark("}")>>
=============================================================================
