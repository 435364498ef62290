------------------------------- MODULE Retain -------------------------------
(***************************************************************************)
(* Vec::retain, and how many elements of a sequence are in a set.          *)
(*                                                                         *)
(* Retain is SelectSeq of the standard module with a set for its test,     *)
(* written out: the prover knows SelectSeq by name only.                   *)
(***************************************************************************)
EXTENDS Integers, Sequences, FiniteSets

\* What is kept of each prefix.
Kept(s, gone) ==
    LET kept[i \in 0..Len(s)] == IF i = 0 THEN <<>>
                                 ELSE IF s[i] \in gone THEN kept[i - 1]
                                 ELSE Append(kept[i - 1], s[i])
    IN kept

\* What is left of s, in its order, when the elements in gone are dropped.
Retain(s, gone) == Kept(s, gone)[Len(s)]

Count(s, Y) == Cardinality({i \in DOMAIN s : s[i] \in Y})
=============================================================================
