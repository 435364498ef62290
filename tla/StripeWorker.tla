---------------------------- MODULE StripeWorker ----------------------------
(***************************************************************************)
(* Calls to Stripe (stripe_worker.rs, stripe.rs): a handler puts a job     *)
(* with a deadline into a bounded queue and waits for the answer, but not  *)
(* longer than the timeout.  A few workers take jobs, drop the expired     *)
(* ones, and try the others again and again behind a circuit breaker that  *)
(* all of them share.                                                      *)
(*                                                                         *)
(* The jobs are POSTs, which have an effect at Stripe; a GET is the same   *)
(* without one.  Units of time may pass between any two steps.             *)
(***************************************************************************)
EXTENDS Naturals, Sequences, FiniteSets, Functions

CONSTANTS Jobs,         \* calls; a name is used again when its job is gone
          Workers,
          Cap,          \* STRIPE_QUEUE_CAP
          Timeout,      \* STRIPE_CALL_TIMEOUT
          Retries,      \* MAX_RETRIES
          Threshold,    \* CIRCUIT_FAILURE_THRESHOLD
          Cooldown,     \* CIRCUIT_COOLDOWN
          None

ASSUME WorkerAssumption == /\ Cap \in Nat \ {0}
                           /\ Timeout \in Nat \ {0}
                           /\ Retries \in Nat
                           /\ Threshold \in Nat \ {0}
                           /\ Cooldown \in Nat \ {0}
                           /\ None \notin Jobs
                           /\ None \notin {"done", "failed", "timeout", "open"}

VARIABLES call,         \* where the caller stands, or what it was told
          wait,         \* what is left of its recv_timeout
          ttl,          \* what is left until the job's deadline
          reply,        \* the reply channel, which holds one answer
          effects,      \* how often Stripe executed the job
          queue,        \* the job queue
          pc,           \* where each worker stands
          serving,      \* its job
          tries,        \* the attempts it has made before this one
          fails,        \* CircuitState::consecutive_failures, up to Threshold
          cooldown      \* what is left until open_until

callers == <<call, wait>>
worker == <<pc, serving, tries>>
breaker == <<fails, cooldown>>
vars == <<callers, ttl, reply, effects, queue, worker, breaker>>

Init == /\ call = [j \in Jobs |-> "none"]
        /\ wait = [j \in Jobs |-> 0]
        /\ ttl = [j \in Jobs |-> 0]
        /\ reply = [j \in Jobs |-> None]
        /\ effects = [j \in Jobs |-> 0]
        /\ queue = <<>>
        /\ pc = [w \in Workers |-> "recv"]
        /\ serving = [w \in Workers |-> None]
        /\ tries = [w \in Workers |-> 0]
        /\ fails = 0 /\ cooldown = 0

Pending == {"sending", "waiting"}

-----------------------------------------------------------------------------
(* The caller                                                              *)

\* enqueue stamps the deadline on a new job.
Issue(j) == /\ call[j] \notin Pending
            /\ j \notin Range(queue) /\ \A w \in Workers : serving[w] # j
            /\ call' = [call EXCEPT ![j] = "sending"]
            /\ ttl' = [ttl EXCEPT ![j] = Timeout]
            /\ reply' = [reply EXCEPT ![j] = None]
            /\ effects' = [effects EXCEPT ![j] = 0]
            /\ UNCHANGED <<wait, queue, worker, breaker>>

\* Faulty variant: an unbounded channel.
SendUnbounded(j) == /\ call[j] = "sending"
                    /\ queue' = Append(queue, j)
                    /\ call' = [call EXCEPT ![j] = "waiting"]
                    /\ wait' = [wait EXCEPT ![j] = Timeout]
                    /\ UNCHANGED <<ttl, reply, effects, worker, breaker>>

\* try_send, and then recv_timeout begins; a full queue is the answer Busy.
Send(j) == /\ call[j] = "sending"
           /\ \/ /\ Len(queue) < Cap
                 /\ queue' = Append(queue, j)
                 /\ call' = [call EXCEPT ![j] = "waiting"]
                 /\ wait' = [wait EXCEPT ![j] = Timeout]
              \/ /\ Len(queue) = Cap
                 /\ call' = [call EXCEPT ![j] = "busy"]
                 /\ UNCHANGED <<queue, wait>>
           /\ UNCHANGED <<ttl, reply, effects, worker, breaker>>

Receive(j) == /\ call[j] = "waiting" /\ reply[j] # None
              /\ call' = [call EXCEPT ![j] = reply[j]]
              /\ wait' = [wait EXCEPT ![j] = 0]
              /\ UNCHANGED <<ttl, reply, effects, queue, worker, breaker>>

\* Faulty variant: recv instead of recv_timeout.
GiveUpNever(j) == FALSE /\ UNCHANGED vars

\* recv_timeout ends, perhaps just before the answer arrives.
GiveUp(j) == /\ call[j] = "waiting" /\ wait[j] = 0
             /\ call' = [call EXCEPT ![j] = "timeout"]
             /\ UNCHANGED <<wait, ttl, reply, effects, queue, worker, breaker>>

-----------------------------------------------------------------------------
(* The breaker                                                             *)

RecordSuccess == fails' = 0 /\ cooldown' = 0

\* The count keeps its value when the cooldown is over; only a success resets it.
RecordFailure == /\ fails' = IF fails < Threshold THEN fails + 1 ELSE fails
                 /\ cooldown' = IF fails' = Threshold THEN Cooldown ELSE cooldown

-----------------------------------------------------------------------------
(* A worker                                                                *)

Goto(w, l) == pc' = [pc EXCEPT ![w] = l]

\* The job is over, and whoever still waits for it is answered.
Reply(w, answer) == /\ reply' = [reply EXCEPT ![serving[w]] = answer]
                    /\ serving' = [serving EXCEPT ![w] = None]
                    /\ tries' = [tries EXCEPT ![w] = 0]
                    /\ Goto(w, "recv")

Take(w) == /\ pc[w] = "recv" /\ queue # <<>>
           /\ queue' = Tail(queue)
           /\ serving' = [serving EXCEPT ![w] = Head(queue)]
           /\ Goto(w, "check")
           /\ UNCHANGED <<callers, ttl, reply, effects, tries, breaker>>

\* run_job drops a job whose deadline has passed.
Check(w) == /\ pc[w] = "check"
            /\ \/ ttl[serving[w]] = 0 /\ Reply(w, "timeout")
               \/ /\ ttl[serving[w]] > 0 /\ Goto(w, "gate")
                  /\ UNCHANGED <<reply, serving, tries>>
            /\ UNCHANGED <<callers, ttl, effects, queue, breaker>>

\* Faulty variant: a call that the breaker refuses counts as a failure.
GateCounts(w) == /\ pc[w] = "gate"
                 /\ \/ cooldown > 0 /\ Reply(w, "open") /\ RecordFailure
                    \/ Reply(w, "failed") /\ UNCHANGED breaker
                    \/ /\ cooldown = 0 /\ Goto(w, "attempt")
                       /\ UNCHANGED <<reply, serving, tries, breaker>>
                 /\ UNCHANGED <<callers, ttl, effects, queue>>

\* The breaker is consulted once per call.  (Before that, there may be no random
\* bytes for the idempotency key.)
Gate(w) == /\ pc[w] = "gate"
           /\ \/ cooldown > 0 /\ Reply(w, "open")
              \/ Reply(w, "failed")
              \/ cooldown = 0 /\ Goto(w, "attempt") /\ UNCHANGED <<reply, serving, tries>>
           /\ UNCHANGED <<callers, ttl, effects, queue, breaker>>

\* Faulty variant: a fresh key for each attempt.
ProcessedAfresh(n) == {n, IF n < 2 THEN n + 1 ELSE n}

\* What Stripe may make of an attempt if n executions went before: all attempts of a
\* job carry the same Idempotency-Key.
Processed(n) == {n, 1}

\* One attempt.  An answer that is not worth a retry counts as a success, a refusal by
\* Stripe included; an accepted call whose answer cannot be used has failed all the same.
\* Anything else, a lost answer among them, ends in another attempt or in none.
Attempt(w) ==
    /\ pc[w] = "attempt"
    /\ \E n \in Processed(effects[serving[w]]) :
          /\ effects' = [effects EXCEPT ![serving[w]] = n]
          /\ \/ n > 0 /\ Reply(w, "done") /\ RecordSuccess
             \/ Reply(w, "failed") /\ RecordSuccess
             \/ /\ Goto(w, IF tries[w] < Retries THEN "backoff" ELSE "exhausted")
                /\ UNCHANGED <<reply, serving, tries, breaker>>
    /\ UNCHANGED <<callers, ttl, queue>>

\* The worker sleeps and tries again.
Backoff(w) == /\ pc[w] = "backoff"
              /\ tries' = [tries EXCEPT ![w] = @ + 1]
              /\ Goto(w, "attempt")
              /\ UNCHANGED <<callers, ttl, reply, effects, queue, serving, breaker>>

Exhausted(w) == /\ pc[w] = "exhausted"
                /\ RecordFailure /\ Reply(w, "failed")
                /\ UNCHANGED <<callers, ttl, effects, queue>>

-----------------------------------------------------------------------------
Less(n) == IF n > 0 THEN n - 1 ELSE 0

Tick == /\ cooldown > 0 \/ \E j \in Jobs : wait[j] > 0 \/ ttl[j] > 0
        /\ cooldown' = Less(cooldown)
        /\ wait' = [j \in Jobs |-> Less(wait[j])]
        /\ ttl' = [j \in Jobs |-> Less(ttl[j])]
        /\ UNCHANGED <<call, reply, effects, queue, worker, fails>>

Caller(j) == Send(j) \/ Receive(j) \/ GiveUp(j)
Worker(w) == Take(w) \/ Check(w) \/ Gate(w) \/ Attempt(w) \/ Backoff(w) \/ Exhausted(w)

Next == \/ \E j \in Jobs : Issue(j) \/ Caller(j)
        \/ \E w \in Workers : Worker(w)
        \/ Tick

\* Time passes and callers run.  Nothing is assumed of the workers: an attempt may take
\* as long as it likes.
Fairness == WF_vars(Tick) /\ \A j \in Jobs : WF_vars(Caller(j))

Spec == Init /\ [][Next]_vars /\ Fairness

-----------------------------------------------------------------------------
(* Properties                                                              *)

\* The shape of the state; the queue keeps to its bound.
TypeOK == /\ call \in [Jobs -> {"none", "sending", "waiting", "done", "failed",
                                "timeout", "busy", "open"}]
          /\ wait \in [Jobs -> 0..Timeout]
          /\ ttl \in [Jobs -> 0..Timeout]
          /\ reply \in [Jobs -> {None, "done", "failed", "timeout", "open"}]
          /\ effects \in [Jobs -> Nat]
          /\ queue \in Seq(Jobs) /\ Len(queue) <= Cap
          /\ pc \in [Workers -> {"recv", "check", "gate", "attempt", "backoff", "exhausted"}]
          /\ serving \in [Workers -> Jobs \cup {None}]
          /\ tries \in [Workers -> 0..Retries]
          /\ fails \in 0..Threshold
          /\ cooldown \in 0..Cooldown

\* A caller that gives up leaves nothing behind that a worker would still begin: a
\* job in the queue for which nobody waits is past its deadline and will be dropped.
AbandonedExpires == \A j \in Range(queue) : call[j] # "waiting" => ttl[j] = 0

\* With retries, lost answers and timeouts, a call takes effect at most once, has done
\* so if the caller is told "done", and has not and never will if it is told "busy" or
\* "open".
Told == [j \in Jobs |-> IF call[j] \in Pending THEN "pending" ELSE call[j]]
Call == INSTANCE OnceOnlyCall WITH Calls <- Jobs, told <- Told
CallSpec == Call!Spec

\* A handler is never stuck with Stripe: every call returns, though no worker may ever
\* finish an attempt.
EveryCallAnswered == \A j \in Jobs : call[j] \in Pending ~> call[j] \notin Pending

\* An open breaker closes by itself, although handlers go on calling and failures of
\* calls that passed it earlier extend the cooldown.
BreakerCloses == cooldown > 0 ~> cooldown = 0
=============================================================================
