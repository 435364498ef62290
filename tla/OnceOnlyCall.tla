---------------------------- MODULE OnceOnlyCall ----------------------------
(***************************************************************************)
(* What a call to Stripe through the worker promises to the handler that   *)
(* makes it.  A call is answered once.  It takes effect at most once,      *)
(* however often it is tried; it has taken effect if the caller is told    *)
(* so, and never will have if the caller is told that it was not tried.    *)
(* Of a call that failed or timed out nothing is known, and it may still   *)
(* take effect afterwards.                                                 *)
(***************************************************************************)
EXTENDS Naturals

CONSTANT Calls

VARIABLES told,      \* what the caller was told, or "pending"
          effects    \* how often the call took effect

vars == <<told, effects>>

Untried == {"busy", "open"}
Answers == {"done", "failed", "timeout"} \cup Untried

Init == told = [c \in Calls |-> "none"] /\ effects = [c \in Calls |-> 0]

\* The handler makes a new call.
Issue(c) == /\ told[c] # "pending"
            /\ told' = [told EXCEPT ![c] = "pending"]
            /\ effects' = [effects EXCEPT ![c] = 0]

\* Stripe executes it: once, and not after the caller was told it was not tried.
Execute(c) == /\ told[c] \in {"pending", "failed", "timeout"} /\ effects[c] = 0
              /\ effects' = [effects EXCEPT ![c] = 1]
              /\ UNCHANGED told

Answer(c, a) == /\ told[c] = "pending"
                /\ a = "done" => effects[c] = 1
                /\ a \in Untried => effects[c] = 0
                /\ told' = [told EXCEPT ![c] = a]
                /\ UNCHANGED effects

Next == \E c \in Calls : Issue(c) \/ Execute(c) \/ \E a \in Answers : Answer(c, a)

Spec == Init /\ [][Next]_vars
=============================================================================
