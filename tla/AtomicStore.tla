----------------------------- MODULE AtomicStore -----------------------------
(***************************************************************************)
(* What the database layer promises to the code that calls it.  A caller   *)
(* issues one operation at a time.  As a rule the operation either takes    *)
(* effect as a whole and is reported as done, or has no effect and is       *)
(* reported as failed.  There are two exceptions.  An operation that reads  *)
(* back what it wrote takes effect first and may then be reported as       *)
(* failed.  And while the layer is jammed, which only a failed operation    *)
(* can bring about, one may be reported as done and leave nothing behind.   *)
(* Connections, locks and transactions do not appear here.                  *)
(***************************************************************************)
CONSTANTS Threads          \* the callers

VARIABLES echoes,          \* the callers whose pending operation reads back
          result,          \* what each caller was told of its last operation
          durable,         \* the callers whose last operation is in the store
          jammed           \* writes may be lost

vars == <<echoes, result, durable, jammed>>

Pending(t) == result[t] = "none"
Tell(t, r) == result' = [result EXCEPT ![t] = r]

Init == /\ echoes = {}
        /\ result = [t \in Threads |-> "err"]
        /\ durable = {}
        /\ jammed = FALSE

\* The caller issues a new operation: it is pending and has no effect yet.
Issue(t) == /\ ~Pending(t) /\ Tell(t, "none")
            /\ echoes' \in {echoes \ {t}, echoes \cup {t}}
            /\ durable' = durable \ {t}
            /\ UNCHANGED jammed

\* The operation takes effect and is reported as done, in one step.
Take(t) == /\ Pending(t) /\ t \notin echoes /\ Tell(t, "ok")
           /\ durable' = durable \cup {t}
           /\ UNCHANGED <<echoes, jammed>>

\* One that reads back takes effect, and is reported as one or the other.
Apply(t) == /\ Pending(t) /\ t \in echoes \ durable
            /\ durable' = durable \cup {t}
            /\ UNCHANGED <<echoes, result, jammed>>

Echo(t) == /\ Pending(t) /\ t \in echoes \cap durable
           /\ Tell(t, "ok") \/ Tell(t, "err")
           /\ echoes' = echoes \ {t}
           /\ UNCHANGED <<durable, jammed>>

\* The operation is reported as failed and leaves nothing behind, unless that
\* jams the layer or frees it.
Refuse(t) == /\ Pending(t) /\ t \notin durable /\ Tell(t, "err")
             /\ jammed' \in BOOLEAN
             /\ echoes' = echoes \ {t}
             /\ UNCHANGED durable

\* The operation is reported as done, and its write is lost.
Lose(t) == /\ jammed /\ Pending(t) /\ t \notin durable /\ Tell(t, "ok")
           /\ echoes' = echoes \ {t}
           /\ UNCHANGED <<durable, jammed>>

\* The layer recovers by itself.
Free == /\ jammed /\ jammed' = FALSE
        /\ UNCHANGED <<echoes, result, durable>>

Next == \/ \E t \in Threads : \/ Issue(t) \/ Take(t) \/ Apply(t)
                              \/ Echo(t) \/ Refuse(t) \/ Lose(t)
        \/ Free

Spec == Init /\ [][Next]_vars
=============================================================================
