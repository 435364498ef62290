---------------------------- MODULE RemoteStore ----------------------------
(***************************************************************************)
(* What a caller may rely on when its operations go to a database that can *)
(* only be reached by messages.  An operation takes effect once, and whole, *)
(* or never; "done" is reported only when it has taken effect.  "Failed"   *)
(* says nothing: the effect may be there, or may come later.  No batons,   *)
(* streams or requests appear here.                                        *)
(***************************************************************************)
EXTENDS Naturals

CONSTANTS Callers,
          Parts,          \* what an operation writes
          MaxOps          \* bound on the operations of a caller

VARIABLES told,           \* what each caller was told of its last operation
          issued,         \* how many operations each has issued
          durable         \* what has been written

vars == <<told, issued, durable>>

Init == /\ told = [c \in Callers |-> "err"]
        /\ issued = [c \in Callers |-> 0]
        /\ durable = {}

Issue(c) == /\ told[c] # "none" /\ issued[c] < MaxOps
            /\ told' = [told EXCEPT ![c] = "none"]
            /\ issued' = [issued EXCEPT ![c] = @ + 1]
            /\ UNCHANGED durable

All(c, n) == {<<c, n, p>> : p \in Parts}

\* Any operation issued so far, whatever its caller has been told.
Take(c, n) == /\ n \in 1..issued[c]
              /\ durable' = durable \cup All(c, n)
              /\ UNCHANGED <<told, issued>>

Done(c) == /\ told[c] = "none" /\ All(c, issued[c]) \subseteq durable
           /\ told' = [told EXCEPT ![c] = "ok"]
           /\ UNCHANGED <<issued, durable>>

Failed(c) == /\ told[c] = "none"
             /\ told' = [told EXCEPT ![c] = "err"]
             /\ UNCHANGED <<issued, durable>>

Next == \E c \in Callers : \/ Issue(c) \/ Done(c) \/ Failed(c)
                           \/ \E n \in 1..MaxOps : Take(c, n)

Spec == Init /\ [][Next]_vars
=============================================================================
