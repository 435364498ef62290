--------------------------- MODULE MCMarketplace ---------------------------
(* Two requests at a time, of an owner and of somebody else, about one spot. *)
EXTENDS Marketplace, TLC

Symmetry == Permutations(Workers) \cup Permutations(Users) \cup Permutations(Prices)
=============================================================================
