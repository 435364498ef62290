----------------------------- MODULE UsageQuota -----------------------------
(***************************************************************************)
(* POST /api/usage: the free-tier quota of one user, as the handler        *)
(* routes::usage and the store operations consume_usage and                *)
(* reset_usage_window keep it.  Several requests of the user run at the    *)
(* same time on different workers.  Each reads the user's row, then the    *)
(* clock, decides on what it read, and writes in one transaction (atomic,  *)
(* by DbPool), so everything it decided on may be stale by then.  A tick of *)
(* the clock is longer than any request takes (MaxSpan ticks may pass while *)
(* one is served); the quota window is much longer than that.              *)
(***************************************************************************)
EXTENDS Integers, FiniteSets

CONSTANTS Requests,     \* the workers that may serve this user at once
          Limits,       \* the values FREE_USAGE_LIMIT may have
          Window,       \* USAGE_WINDOW_SECS, in ticks of the clock
          MaxSpan,      \* the clock ticks at most so often during a request
          MaxTime       \* bound on the clock

ASSUME QuotaAssumption ==
    /\ IsFiniteSet(Requests) /\ Requests # {}
    /\ Limits \subseteq Int
    /\ MaxSpan \in Nat
    /\ Window \in Nat \ {0} /\ Window >= 3 * MaxSpan
    /\ MaxTime \in Nat

VARIABLES limit,        \* state.free_usage_limit, fixed at startup
          now,          \* the clock
          subscribed,   \* the row has a live subscription
          count,        \* usage_count
          resetAt,      \* usage_reset_at; -1, which is always past, for NULL
          pc,           \* where each request stands
          tracking,     \* the request's operation is "track", not "check"
          seen,         \* the usage_reset_at a request read
          newReset,     \* the reset time it computed
          began,        \* the time at which it started
          period        \* history: units granted since the last time a window
                        \* was opened over one that had run out

row == <<subscribed, count, resetAt>>
local == <<tracking, seen, newReset, began>>
vars == <<limit, now, row, pc, local, period>>

Labels == {"free", "judge", "reset", "consume"}

Goto(r, l) == pc' = [pc EXCEPT ![r] = l]

\* The request is answered; what it had read is gone.
Answer(r) == /\ Goto(r, "free")
             /\ tracking' = [tracking EXCEPT ![r] = FALSE]
             /\ seen' = [seen EXCEPT ![r] = -1]
             /\ newReset' = [newReset EXCEPT ![r] = 0]
             /\ began' = [began EXCEPT ![r] = 0]

\* now > reset_at, or no reset_at at all
Expired(t, reset) == t > reset

Init == /\ limit \in Limits
        /\ now = 0
        /\ subscribed \in BOOLEAN
        /\ count = 0
        /\ resetAt = -1
        /\ pc = [r \in Requests |-> "free"]
        /\ tracking = [r \in Requests |-> FALSE]
        /\ seen = [r \in Requests |-> -1]
        /\ newReset = [r \in Requests |-> 0]
        /\ began = [r \in Requests |-> 0]
        /\ period = 0

\* find_user.  A failed or empty lookup and a subscriber's answer (unlimited,
\* nothing counted) end the request here.
Lookup(r) ==
    /\ pc[r] = "free"
    /\ ~subscribed
    /\ \E b \in BOOLEAN : tracking' = [tracking EXCEPT ![r] = b]
    /\ seen' = [seen EXCEPT ![r] = resetAt]
    /\ began' = [began EXCEPT ![r] = now]
    /\ Goto(r, "judge")
    /\ UNCHANGED <<limit, now, row, newReset, period>>

\* The decision, on the row as it was read and the clock as it is now.  A limit
\* below 1 admits nothing, not even the first operation of a window.
Judge(r) ==
    /\ pc[r] = "judge"
    /\ IF tracking[r] /\ limit < 1
       THEN Answer(r)
       ELSE IF Expired(now, seen[r])
       THEN /\ newReset' = [newReset EXCEPT ![r] = now + Window]
            /\ Goto(r, "reset")
            /\ UNCHANGED <<tracking, seen, began>>
       ELSE IF tracking[r]
       THEN Goto(r, "consume") /\ UNCHANGED local
       ELSE Answer(r)
    /\ UNCHANGED <<limit, now, row, period>>

\* reset_usage_window: one UPDATE sets both columns, whatever they hold.
Reset(r) ==
    /\ pc[r] = "reset"
    /\ Answer(r)
    /\ \/ /\ count' = IF tracking[r] THEN 1 ELSE 0
          /\ resetAt' = newReset[r]
          /\ period' = (IF Expired(now, resetAt) THEN 0 ELSE period) + count'
       \/ UNCHANGED <<count, resetAt, period>>       \* the transaction failed
    /\ UNCHANGED <<limit, now, subscribed>>

\* Faulty variant: the limit is not part of the UPDATE, so a concurrent request
\* may have taken the last unit since the row was read.
ConsumeUnguarded(r) ==
    /\ pc[r] = "consume"
    /\ Answer(r)
    /\ count' = count + 1
    /\ period' = period + 1
    /\ UNCHANGED <<limit, now, subscribed, resetAt>>

\* consume_usage: the limit is enforced by the UPDATE itself; 429 otherwise.
Consume(r) ==
    /\ pc[r] = "consume"
    /\ Answer(r)
    /\ \/ /\ count < limit
          /\ count' = count + 1
          /\ period' = period + 1
       \/ UNCHANGED <<count, period>>     \* refused, or the transaction failed
    /\ UNCHANGED <<limit, now, subscribed, resetAt>>

\* A webhook starts or ends the subscription; it may also just expire.
Subscription == /\ subscribed' = ~subscribed
                /\ UNCHANGED <<limit, now, count, resetAt, pc, local, period>>

Tick == /\ now < MaxTime
        /\ \A r \in Requests : pc[r] # "free" => now - began[r] < MaxSpan
        /\ now' = now + 1
        /\ UNCHANGED <<limit, row, pc, local, period>>

Next == \/ \E r \in Requests : Lookup(r) \/ Judge(r) \/ Reset(r) \/ Consume(r)
        \/ Subscription
        \/ Tick

Spec == Init /\ [][Next]_vars

-----------------------------------------------------------------------------
(* Properties                                                              *)

\* The shape of the state.
TypeOK == /\ limit \in Limits
          /\ now \in 0..MaxTime
          /\ subscribed \in BOOLEAN
          /\ count \in Nat
          /\ resetAt \in -1..(MaxTime + Window)
          /\ pc \in [Requests -> Labels]
          /\ tracking \in [Requests -> BOOLEAN]
          /\ seen \in [Requests -> -1..(MaxTime + Window)]
          /\ newReset \in [Requests -> 0..(MaxTime + Window)]
          /\ began \in [Requests -> 0..MaxTime]
          /\ period \in Nat

\* "Concurrent requests cannot both be admitted at the boundary": the stored
\* counter never passes the limit, however the requests interleave.
Quota == IF limit > 0 THEN limit ELSE 0
CountWithinLimit == count <= Quota

\* How far the quota can be overrun: a request that saw the old window may
\* erase the new one's counter, but each worker can do so once per window, so a
\* window grants at most one quota per worker.
OverrunBounded == period <= Quota * Cardinality(Requests)
=============================================================================
