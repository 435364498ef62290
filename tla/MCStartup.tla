----------------------------- MODULE MCStartup -----------------------------
(* Two instances that start together; a column to add and two rows of      *)
(* inventory, so that a loop can stop in its middle; one account each.     *)
EXTENDS Startup

MCColumns == <<<<"c1">>>>
MCSeeds == <<<<"s1">>, <<"s2">>>>
=============================================================================
