----------------------------- MODULE StripeProofs -----------------------------
(***************************************************************************)
(* Proofs about the two components that talk to Stripe.                    *)
(*                                                                         *)
(* StripeWorker, for any number of calls and workers and any queue,        *)
(* timeout, retries, threshold and cooldown.  The refinement of            *)
(* OnceOnlyCall needs to know that a job is in one place at a time         *)
(* (Unique), so that nothing happens to it after its answer (InFlight),    *)
(* and what each answer says of its effect (Truthful).                     *)
(*                                                                         *)
(* Webhook, for any number of workers and events.  An event is recorded,   *)
(* or answered with 2xx, only by a worker that stands after                *)
(* process_webhook (Done) or that found it in the table.  Done needs no    *)
(* assumption on failures, crashes or repeats: those only free workers.    *)
(***************************************************************************)
EXTENDS StripeWorker, Webhook, SequenceTheorems, TLAPS

Underway(j) == j \in Range(queue) \/ \E w \in Workers : serving[w] = j

\* A job is in the queue once, or with one worker.
Unique == /\ \A i, k \in 1..Len(queue) : queue[i] = queue[k] => i = k
          /\ \A w \in Workers : serving[w] \notin Range(queue)
          /\ \A w, v \in Workers : serving[w] # None /\ serving[w] = serving[v] => w = v

Occupied == \A w \in Workers : pc[w] = "recv" <=> serving[w] = None

\* A job that a worker has, or will get, was not answered yet.
InFlight == \A j \in Jobs : Underway(j) => reply[j] = None /\ call[j] \in {"waiting", "timeout"}

Unsent == \A j \in Jobs : call[j] = "sending" => effects[j] = 0 /\ reply[j] = None

Untouched == /\ \A j \in Range(queue) : effects[j] = 0
             /\ \A w \in Workers : pc[w] \in {"check", "gate"} => effects[serving[w]] = 0

\* What an answer on its way to the caller says is so.
Truthful == \A j \in Jobs : /\ effects[j] \in {0, 1}
                            /\ reply[j] = "done" => effects[j] = 1
                            /\ reply[j] = "open" => effects[j] = 0

\* The caller begins to wait after the deadline was stamped.
Waits == \A j \in Jobs : call[j] = "waiting" => ttl[j] <= wait[j]

Places == Unique /\ Occupied
IInv == /\ TypeOK /\ Places /\ InFlight /\ Unsent /\ Untouched /\ Truthful
        /\ Waits /\ AbandonedExpires

LEMMA InitInv == Init => IInv
<1> SUFFICES ASSUME Init PROVE IInv OBVIOUS
<1> USE DEF Init
<1>1. queue \in Seq(Jobs) /\ Len(queue) = 0 /\ Range(queue) = {}
  <2>1. queue \in Seq(Jobs) /\ Len(queue) = 0 BY EmptySeq
  <2>2. DOMAIN queue = 1..0 BY <2>1, LenProperties
  <2>3. 1..0 = {} OBVIOUS
  <2> QED BY <2>1, <2>2, <2>3 DEF Range
<1>2. TypeOK BY <1>1, WorkerAssumption DEF TypeOK
<1>3. Places BY <1>1 DEF Places, Unique, Occupied
<1>4. \A j \in Jobs : ~Underway(j) BY <1>1, WorkerAssumption DEF Underway
<1>5. InFlight /\ Unsent /\ Untouched /\ Truthful /\ Waits /\ AbandonedExpires
  BY <1>1, <1>4, WorkerAssumption
     DEF InFlight, Unsent, Untouched, Truthful, Waits, AbandonedExpires
<1> QED BY <1>2, <1>3, <1>5 DEF IInv

-----------------------------------------------------------------------------
(* The queue                                                               *)

LEMMA RangeAppend ==
  ASSUME NEW S, NEW q \in Seq(S), NEW e \in S
  PROVE  Range(Append(q, e)) = Range(q) \cup {e}
<1> DEFINE a == Append(q, e)
<1>1. /\ a \in Seq(S) /\ Len(a) = Len(q) + 1 /\ Len(q) \in Nat
      /\ \A i \in 1..Len(q) : a[i] = q[i]
      /\ a[Len(q) + 1] = e
  BY AppendProperties, LenProperties
<1>2. DOMAIN q = 1..Len(q) /\ DOMAIN a = 1..(Len(q) + 1) BY <1>1, LenProperties
<1> HIDE DEF a
<1>3. \A i \in 1..(Len(q) + 1) : i \in 1..Len(q) \/ i = Len(q) + 1 BY <1>1
<1>4. \A i \in 1..Len(q) : i \in 1..(Len(q) + 1) BY <1>1
<1>5. Len(q) + 1 \in 1..(Len(q) + 1) BY <1>1
<1>6. Range(a) = Range(q) \cup {e}
  BY <1>1, <1>2, <1>3, <1>4, <1>5, Zenon DEF Range
<1> QED BY <1>6 DEF a

LEMMA RangeTail ==
  ASSUME NEW S, NEW q \in Seq(S), q # <<>>,
         \A i, k \in 1..Len(q) : q[i] = q[k] => i = k
  PROVE  /\ Head(q) \in Range(q)
         /\ Range(Tail(q)) \subseteq Range(q) \ {Head(q)}
         /\ \A i, k \in 1..Len(Tail(q)) : Tail(q)[i] = Tail(q)[k] => i = k
<1> DEFINE t == Tail(q)
<1>1. /\ t \in Seq(S) /\ Len(t) = Len(q) - 1 /\ \A i \in 1..Len(t) : t[i] = q[i + 1]
  BY HeadTailProperties
<1>2. Len(q) \in Nat \ {0} /\ Len(t) \in Nat BY <1>1, EmptySeq, LenProperties
<1>3. DOMAIN q = 1..Len(q) /\ DOMAIN t = 1..Len(t) BY <1>1, LenProperties
<1>4. Head(q) = q[1] /\ 1 \in 1..Len(q) BY <1>2
<1> HIDE DEF t
<1>5. \A i \in 1..Len(t) : i + 1 \in 1..Len(q) /\ i + 1 # 1 BY <1>1, <1>2
<1>6. Head(q) \in Range(q) BY <1>3, <1>4 DEF Range
<1>7. ASSUME NEW x \in Range(t) PROVE x \in Range(q) /\ x # Head(q)
  <2>1. PICK i \in 1..Len(t) : x = t[i] BY <1>7, <1>3 DEF Range
  <2>2. x = q[i + 1] /\ i + 1 \in 1..Len(q) /\ i + 1 # 1 BY <2>1, <1>1, <1>5
  <2>3. x \in Range(q) BY <2>2, <1>3 DEF Range
  <2>4. x # q[1] BY <2>2, <1>4
  <2> QED BY <2>3, <2>4, <1>4
<1>8. ASSUME NEW i \in 1..Len(t), NEW k \in 1..Len(t), t[i] = t[k] PROVE i = k
  <2>1. q[i + 1] = q[k + 1] BY <1>1, <1>8
  <2>2. i + 1 = k + 1 BY <2>1, <1>5
  <2> QED BY <2>2
<1>9. /\ Range(t) \subseteq Range(q) \ {Head(q)}
      /\ \A i, k \in 1..Len(t) : t[i] = t[k] => i = k
  BY <1>7, <1>8
<1> QED BY <1>6, <1>9 DEF t

LEMMA QueuedAreJobs == ASSUME TypeOK PROVE Range(queue) \subseteq Jobs
BY LenProperties, ElementOfSeq DEF TypeOK, Range

-----------------------------------------------------------------------------
(* Steps of a caller                                                       *)

LEMMA PlacesStay ==
  ASSUME Places, UNCHANGED <<queue, pc, serving>>
  PROVE  Places' /\ \A j : Underway(j)' <=> Underway(j)
BY DEF Places, Unique, Occupied, Underway

LEMMA IssueKeeps == ASSUME IInv, NEW j \in Jobs, Issue(j) PROVE IInv'
<1> USE DEF IInv
<1>1. /\ call \in [Jobs -> {"none", "sending", "waiting", "done", "failed", "timeout", "busy", "open"}]
      /\ ttl \in [Jobs -> 0..Timeout] /\ effects \in [Jobs -> Nat]
      /\ reply \in [Jobs -> {None, "done", "failed", "timeout", "open"}]
  BY DEF TypeOK
<1>2. /\ call' = [call EXCEPT ![j] = "sending"] /\ ttl' = [ttl EXCEPT ![j] = Timeout]
      /\ reply' = [reply EXCEPT ![j] = None] /\ effects' = [effects EXCEPT ![j] = 0]
      /\ UNCHANGED <<wait, queue, pc, serving, tries, fails, cooldown>>
  BY DEF Issue, worker, breaker
<1>3. ~Underway(j) BY DEF Issue, Underway
<1>4. Places' /\ \A i : Underway(i)' <=> Underway(i) BY <1>2, PlacesStay
<1>5. TypeOK'
  <2>1. Timeout \in 0..Timeout BY WorkerAssumption
  <2> QED BY <1>1, <1>2, <2>1 DEF TypeOK
<1>6. InFlight' BY <1>1, <1>2, <1>3, <1>4 DEF InFlight
<1>7. Unsent' BY <1>1, <1>2 DEF Unsent
<1>8. Untouched'
  <2>1. \A i \in Range(queue) : effects'[i] = 0
    BY <1>1, <1>2, <1>3, QueuedAreJobs DEF Untouched, Underway
  <2>2. ASSUME NEW w \in Workers, pc[w] \in {"check", "gate"} PROVE effects'[serving[w]] = 0
    <3>1. serving[w] \in Jobs /\ serving[w] # j
      BY <2>2, <1>3 DEF Places, Occupied, TypeOK, Underway
    <3> QED BY <2>2, <3>1, <1>1, <1>2 DEF Untouched
  <2> QED BY <2>1, <2>2, <1>2 DEF Untouched
<1>9. Truthful' BY <1>1, <1>2, WorkerAssumption DEF Truthful
<1>10. Waits' BY <1>1, <1>2 DEF Waits
<1>11. AbandonedExpires'
  BY <1>1, <1>2, <1>3, QueuedAreJobs DEF AbandonedExpires, Underway
<1> QED BY <1>4, <1>5, <1>6, <1>7, <1>8, <1>9, <1>10, <1>11

LEMMA SendKeeps == ASSUME IInv, NEW j \in Jobs, Send(j) PROVE IInv'
<1> USE DEF IInv
<1>1. /\ call \in [Jobs -> {"none", "sending", "waiting", "done", "failed", "timeout", "busy", "open"}]
      /\ wait \in [Jobs -> 0..Timeout] /\ ttl \in [Jobs -> 0..Timeout]
      /\ queue \in Seq(Jobs) /\ Len(queue) \in Nat /\ Len(queue) <= Cap
  BY LenProperties DEF TypeOK
<1>2. UNCHANGED <<ttl, reply, effects, pc, serving, tries, fails, cooldown>> /\ call[j] = "sending"
  BY DEF Send, worker, breaker
<1>3. ~Underway(j) BY <1>2 DEF InFlight
<1>4. CASE /\ Len(queue) < Cap /\ queue' = Append(queue, j)
           /\ call' = [call EXCEPT ![j] = "waiting"] /\ wait' = [wait EXCEPT ![j] = Timeout]
  <2>1. Range(queue') = Range(queue) \cup {j} BY <1>1, <1>4, RangeAppend
  <2>2. /\ queue' \in Seq(Jobs) /\ Len(queue') = Len(queue) + 1
        /\ \A i \in 1..Len(queue) : queue'[i] = queue[i] /\ queue'[i] \in Range(queue)
        /\ queue'[Len(queue) + 1] = j
    <3>1. \A i \in 1..Len(queue) : queue[i] \in Range(queue) BY <1>1, LenProperties DEF Range
    <3> QED BY <1>1, <1>4, <3>1, AppendProperties
  <2>3. Places'
    <3>1. ASSUME NEW i \in 1..Len(queue'), NEW k \in 1..Len(queue'), queue'[i] = queue'[k]
          PROVE  i = k
      <4>1. \A n \in 1..Len(queue') : n \in 1..Len(queue) \/ n = Len(queue) + 1
        BY <1>1, <2>2
      <4>2. j \notin Range(queue) BY <1>3 DEF Underway
      <4> QED BY <3>1, <4>1, <4>2, <2>2 DEF Places, Unique
    <3>2. \A w \in Workers : serving[w] \notin Range(queue')
      BY <2>1, <1>3 DEF Places, Unique, Underway
    <3> QED BY <3>1, <3>2, <1>2 DEF Places, Unique, Occupied
  <2>4. TypeOK'
    <3>1. Timeout \in 0..Timeout /\ Len(queue') <= Cap BY WorkerAssumption, <1>1, <1>4, <2>2
    <3> QED BY <1>1, <1>2, <1>4, <2>2, <3>1 DEF TypeOK
  <2>5. reply[j] = None
    BY <1>2 DEF Unsent
  <2>6. InFlight' BY <1>1, <1>2, <1>4, <2>1, <2>5 DEF InFlight, Underway
  <2>7. Unsent' BY <1>1, <1>2, <1>4 DEF Unsent
  <2>8. Untouched' BY <1>2, <2>1 DEF Untouched, Unsent
  <2>9. Truthful' BY <1>2 DEF Truthful
  <2>10. Waits' BY <1>1, <1>2, <1>4 DEF Waits
  <2>11. AbandonedExpires'
    BY <1>1, <1>2, <1>3, <1>4, <2>1, QueuedAreJobs DEF AbandonedExpires, Underway
  <2> QED BY <2>3, <2>4, <2>6, <2>7, <2>8, <2>9, <2>10, <2>11
<1>5. CASE call' = [call EXCEPT ![j] = "busy"] /\ UNCHANGED <<queue, wait>>
  <2>1. Places' /\ \A i : Underway(i)' <=> Underway(i) BY <1>2, <1>5, PlacesStay
  <2>2. TypeOK' BY <1>1, <1>2, <1>5 DEF TypeOK
  <2>3. InFlight' /\ Unsent' /\ Waits'
    BY <1>1, <1>2, <1>3, <1>5, <2>1 DEF InFlight, Unsent, Waits
  <2>4. Untouched' /\ Truthful' BY <1>2, <1>5 DEF Untouched, Truthful
  <2>5. AbandonedExpires'
    BY <1>1, <1>2, <1>3, <1>5, QueuedAreJobs DEF AbandonedExpires, Underway
  <2> QED BY <2>1, <2>2, <2>3, <2>4, <2>5
<1> QED BY <1>4, <1>5 DEF Send

LEMMA ReturnKeeps == ASSUME IInv, NEW j \in Jobs, Receive(j) \/ GiveUp(j) PROVE IInv'
<1> USE DEF IInv
<1>1. /\ call \in [Jobs -> {"none", "sending", "waiting", "done", "failed", "timeout", "busy", "open"}]
      /\ wait \in [Jobs -> 0..Timeout] /\ ttl \in [Jobs -> 0..Timeout]
      /\ reply \in [Jobs -> {None, "done", "failed", "timeout", "open"}]
  BY DEF TypeOK
<1>2. UNCHANGED <<ttl, reply, effects, queue, pc, serving, tries, fails, cooldown>>
  BY DEF Receive, GiveUp, worker, breaker
<1>3. Places' /\ \A i : Underway(i)' <=> Underway(i) BY <1>2, PlacesStay
<1>4. Untouched' /\ Truthful' BY <1>2 DEF Untouched, Truthful
<1>5. CASE Receive(j)
  <2>1. /\ call' = [call EXCEPT ![j] = reply[j]] /\ wait' = [wait EXCEPT ![j] = 0]
        /\ reply[j] \in {"done", "failed", "timeout", "open"} /\ ~Underway(j)
    BY <1>1, <1>5 DEF Receive, InFlight
  <2>2. TypeOK'
    <3>1. 0 \in 0..Timeout BY WorkerAssumption
    <3> QED BY <1>1, <1>2, <2>1, <3>1 DEF TypeOK
  <2>3. InFlight' BY <1>1, <1>2, <1>3, <2>1 DEF InFlight
  <2>4. Unsent' BY <1>1, <1>2, <2>1 DEF Unsent
  <2>5. Waits' BY <1>1, <1>2, <2>1 DEF Waits
  <2>6. AbandonedExpires'
    BY <1>1, <1>2, <2>1, QueuedAreJobs DEF AbandonedExpires, Underway
  <2> QED BY <1>3, <1>4, <2>2, <2>3, <2>4, <2>5, <2>6
<1>6. CASE GiveUp(j)
  <2>1. /\ call[j] = "waiting" /\ wait[j] = 0 /\ UNCHANGED wait
        /\ call' = [call EXCEPT ![j] = "timeout"]
    BY <1>6 DEF GiveUp
  <2>2. ttl[j] = 0 BY <1>1, <2>1, WorkerAssumption DEF Waits
  <2>3. TypeOK' BY <1>1, <1>2, <2>1 DEF TypeOK
  <2>4. InFlight' BY <1>1, <1>2, <1>3, <2>1 DEF InFlight
  <2>5. Unsent' BY <1>1, <1>2, <2>1 DEF Unsent
  <2>6. Waits' BY <1>1, <1>2, <2>1 DEF Waits
  <2>7. AbandonedExpires'
    BY <1>1, <1>2, <2>1, <2>2, QueuedAreJobs DEF AbandonedExpires
  <2> QED BY <1>3, <1>4, <2>3, <2>4, <2>5, <2>6, <2>7
<1> QED BY <1>5, <1>6

LEMMA TickKeeps == ASSUME IInv, Tick PROVE IInv'
<1> USE DEF IInv
<1>1. /\ wait \in [Jobs -> 0..Timeout] /\ ttl \in [Jobs -> 0..Timeout] /\ cooldown \in 0..Cooldown
      /\ Timeout \in Nat /\ Cooldown \in Nat
  BY WorkerAssumption DEF TypeOK
<1>2. /\ cooldown' = Less(cooldown)
      /\ wait' = [j \in Jobs |-> Less(wait[j])] /\ ttl' = [j \in Jobs |-> Less(ttl[j])]
      /\ UNCHANGED <<call, reply, effects, queue, pc, serving, tries, fails>>
  BY DEF Tick, worker
<1>3. Places' /\ \A i : Underway(i)' <=> Underway(i) BY <1>2, PlacesStay
<1>4. \A m, n \in Nat : /\ \A k \in 0..n : Less(k) \in 0..n
                        /\ Less(0) = 0
                        /\ m <= n => Less(m) <= Less(n)
  BY DEF Less
<1>5. TypeOK'
  <2>1. \A j \in Jobs : Less(wait[j]) \in 0..Timeout /\ Less(ttl[j]) \in 0..Timeout
    BY <1>1, <1>4
  <2>2. Less(cooldown) \in 0..Cooldown BY <1>1, <1>4
  <2> QED BY <1>2, <2>1, <2>2 DEF TypeOK
<1>6. InFlight' /\ Unsent' /\ Untouched' /\ Truthful'
  BY <1>2, <1>3 DEF InFlight, Unsent, Untouched, Truthful
<1>7. Waits'
  <2>1. ASSUME NEW j \in Jobs, call[j] = "waiting" PROVE ttl'[j] <= wait'[j]
    <3>1. ttl[j] \in Nat /\ wait[j] \in Nat /\ ttl[j] <= wait[j] BY <1>1, <2>1 DEF Waits
    <3> QED BY <1>2, <1>4, <3>1
  <2> QED BY <1>2, <2>1 DEF Waits
<1>8. AbandonedExpires'
  BY <1>2, <1>4, QueuedAreJobs DEF AbandonedExpires
<1> QED BY <1>3, <1>5, <1>6, <1>7, <1>8

-----------------------------------------------------------------------------
(* Steps of a worker                                                       *)

LEMMA TakeKeeps == ASSUME IInv, NEW w \in Workers, Take(w) PROVE IInv'
<1> USE DEF IInv
<1> DEFINE h == Head(queue)
<1>1. /\ queue \in Seq(Jobs) /\ Len(queue) \in Nat /\ Len(queue) <= Cap /\ queue # <<>>
      /\ pc \in [Workers -> {"recv", "check", "gate", "attempt", "backoff", "exhausted"}]
      /\ serving \in [Workers -> Jobs \cup {None}]
  BY LenProperties DEF TypeOK, Take
<1>2. /\ pc[w] = "recv" /\ queue' = Tail(queue)
      /\ pc' = [pc EXCEPT ![w] = "check"] /\ serving' = [serving EXCEPT ![w] = h]
      /\ UNCHANGED <<call, wait, ttl, reply, effects, tries, fails, cooldown>>
  BY DEF Take, Goto, callers, breaker
<1>3. /\ h \in Range(queue) /\ Range(queue') \subseteq Range(queue) \ {h}
      /\ \A i, k \in 1..Len(queue') : queue'[i] = queue'[k] => i = k
  BY <1>1, <1>2, RangeTail DEF Places, Unique
<1>4. h \in Jobs /\ h # None BY <1>3, QueuedAreJobs, WorkerAssumption
<1>5. TypeOK'
  <2>1. queue' \in Seq(Jobs) /\ Len(queue') <= Cap
    BY <1>1, <1>2, HeadTailProperties, WorkerAssumption
  <2> HIDE DEF h
  <2> QED BY <1>1, <1>2, <1>4, <2>1 DEF TypeOK
<1> HIDE DEF h
<1>6. Places'
  <2>1. \A v \in Workers : serving'[v] \notin Range(queue')
    BY <1>1, <1>2, <1>3 DEF Places, Unique
  <2>2. \A u, v \in Workers : serving'[u] # None /\ serving'[u] = serving'[v] => u = v
    BY <1>1, <1>2, <1>3 DEF Places, Unique
  <2>3. Occupied' BY <1>1, <1>2, <1>4 DEF Places, Occupied
  <2> QED BY <1>3, <2>1, <2>2, <2>3 DEF Places, Unique
<1>7. \A j : Underway(j)' => Underway(j) BY <1>1, <1>2, <1>3 DEF Underway
<1>8. InFlight' /\ Unsent' /\ Truthful' /\ Waits'
  BY <1>2, <1>7 DEF InFlight, Unsent, Truthful, Waits
<1>9. Untouched' BY <1>1, <1>2, <1>3 DEF Untouched
<1>10. AbandonedExpires' BY <1>2, <1>3 DEF AbandonedExpires
<1> QED BY <1>5, <1>6, <1>8, <1>9, <1>10

Labels == {"recv", "check", "gate", "attempt", "backoff", "exhausted"}

\* The job of a busy worker is a job, and nowhere else.
LEMMA JobInHand ==
  ASSUME IInv, NEW w \in Workers, pc[w] # "recv"
  PROVE  /\ serving[w] \in Jobs /\ serving[w] # None /\ Underway(serving[w])
         /\ serving[w] \notin Range(queue)
         /\ \A v \in Workers : v # w => serving[v] # serving[w]
<1>1. serving[w] \in Jobs /\ serving[w] # None BY DEF IInv, TypeOK, Places, Occupied
<1> QED BY <1>1 DEF IInv, Places, Unique, Underway

\* What a worker's step keeps that ends its job: n says how often it was executed.
LEMMA AnsweredKeeps ==
  ASSUME IInv, NEW w \in Workers, pc[w] # "recv",
         NEW a \in {"done", "failed", "timeout", "open"}, Reply(w, a),
         NEW n \in {0, 1}, effects' = [effects EXCEPT ![serving[w]] = n],
         a = "done" => n = 1, a = "open" => n = 0,
         UNCHANGED <<call, wait, ttl, queue>>,
         fails' \in 0..Threshold, cooldown' \in 0..Cooldown
  PROVE  IInv'
<1> USE DEF IInv
<1> DEFINE j == serving[w]
<1>1. /\ pc \in [Workers -> Labels] /\ serving \in [Workers -> Jobs \cup {None}]
      /\ reply \in [Jobs -> {None, "done", "failed", "timeout", "open"}]
      /\ effects \in [Jobs -> Nat] /\ tries \in [Workers -> 0..Retries]
  BY DEF TypeOK, Labels
<1>2. /\ reply' = [reply EXCEPT ![j] = a] /\ effects' = [effects EXCEPT ![j] = n]
      /\ serving' = [serving EXCEPT ![w] = None] /\ pc' = [pc EXCEPT ![w] = "recv"]
      /\ tries' = [tries EXCEPT ![w] = 0]
  BY DEF Reply, Goto
<1>3. /\ j \in Jobs /\ j # None /\ Underway(j) /\ j \notin Range(queue)
      /\ \A v \in Workers : v # w => serving[v] # j
  BY JobInHand
<1> HIDE DEF j
<1>4. TypeOK'
  <2>1. 0 \in 0..Retries /\ n \in Nat BY WorkerAssumption
  <2>2. effects' \in [Jobs -> Nat] /\ tries' \in [Workers -> 0..Retries]
    BY <1>1, <1>2, <2>1
  <2>3. /\ reply' \in [Jobs -> {None, "done", "failed", "timeout", "open"}]
        /\ serving' \in [Workers -> Jobs \cup {None}] /\ pc' \in [Workers -> Labels]
    BY <1>1, <1>2 DEF Labels
  <2> QED BY <2>2, <2>3 DEF TypeOK, Labels
<1>5. Places'
  <2>1. None \notin Range(queue) BY QueuedAreJobs, WorkerAssumption
  <2> QED BY <1>1, <1>2, <2>1 DEF Places, Unique, Occupied, Labels
<1>6. \A i \in Jobs : Underway(i)' => Underway(i) /\ i # j
  BY <1>1, <1>2, <1>3, WorkerAssumption DEF Underway
<1>7. InFlight' BY <1>1, <1>2, <1>3, <1>6 DEF InFlight
<1>8. Unsent' BY <1>1, <1>2, <1>3 DEF Unsent, InFlight
<1>9. Untouched'
  <2>1. \A i \in Range(queue) : effects'[i] = 0
    BY <1>1, <1>2, <1>3, QueuedAreJobs DEF Untouched
  <2>2. ASSUME NEW v \in Workers, pc'[v] \in {"check", "gate"} PROVE effects'[serving'[v]] = 0
    <3>1. v # w /\ pc[v] = pc'[v] /\ serving'[v] = serving[v] BY <2>2, <1>1, <1>2
    <3>2. serving[v] \in Jobs /\ serving[v] # j BY <2>2, <3>1, <1>3, JobInHand
    <3> QED BY <2>2, <3>1, <3>2, <1>1, <1>2 DEF Untouched
  <2> QED BY <2>1, <2>2 DEF Untouched
<1>10. Truthful' BY <1>1, <1>2, <1>3 DEF Truthful
<1>11. Waits' /\ AbandonedExpires' BY DEF Waits, AbandonedExpires
<1> QED BY <1>4, <1>5, <1>7, <1>8, <1>9, <1>10, <1>11

\* What a worker's step keeps that goes on with its job.
LEMMA MovedKeeps ==
  ASSUME IInv, NEW w \in Workers, pc[w] # "recv",
         NEW l \in Labels \ {"recv"}, Goto(w, l),
         NEW n \in {0, 1}, effects' = [effects EXCEPT ![serving[w]] = n],
         l \in {"check", "gate"} => n = 0,
         tries' \in [Workers -> 0..Retries],
         UNCHANGED <<call, wait, ttl, queue, reply, serving, fails, cooldown>>
  PROVE  IInv'
<1> USE DEF IInv
<1> DEFINE j == serving[w]
<1>1. /\ pc \in [Workers -> Labels] /\ serving \in [Workers -> Jobs \cup {None}]
      /\ effects \in [Jobs -> Nat]
  BY DEF TypeOK, Labels
<1>2. effects' = [effects EXCEPT ![j] = n] /\ pc' = [pc EXCEPT ![w] = l] BY DEF Goto
<1>3. /\ j \in Jobs /\ j # None /\ Underway(j) /\ j \notin Range(queue)
      /\ \A v \in Workers : v # w => serving[v] # j
  BY JobInHand
<1> HIDE DEF j
<1>4. TypeOK'
  <2>1. n \in Nat OBVIOUS
  <2>2. effects' \in [Jobs -> Nat] BY <1>1, <1>2, <2>1
  <2>3. pc' \in [Workers -> Labels] BY <1>1, <1>2
  <2> QED BY <2>2, <2>3 DEF TypeOK, Labels
<1>5. Places' /\ \A i : Underway(i)' <=> Underway(i)
  BY <1>1, <1>2, <1>3 DEF Places, Unique, Occupied, Underway, j
<1>6. InFlight' BY <1>5 DEF InFlight
<1>7. Unsent' BY <1>1, <1>2, <1>3 DEF Unsent, InFlight
<1>8. Untouched'
  <2>1. \A i \in Range(queue) : effects'[i] = 0
    BY <1>1, <1>2, <1>3, QueuedAreJobs DEF Untouched
  <2>2. ASSUME NEW v \in Workers, pc'[v] \in {"check", "gate"} PROVE effects'[serving[v]] = 0
    <3>1. CASE v = w BY <3>1, <2>2, <1>1, <1>2, <1>3 DEF j
    <3>2. CASE v # w
      <4>1. pc[v] = pc'[v] BY <3>2, <1>1, <1>2
      <4>2. serving[v] \in Jobs /\ serving[v] # j BY <2>2, <3>2, <4>1, <1>3, JobInHand
      <4> QED BY <2>2, <4>1, <4>2, <1>1, <1>2 DEF Untouched
    <3> QED BY <3>1, <3>2
  <2> QED BY <2>1, <2>2 DEF Untouched
<1>9. Truthful'
  <2>1. reply[j] = None BY <1>3 DEF InFlight
  <2> QED BY <1>1, <1>2, <1>3, <2>1, WorkerAssumption DEF Truthful
<1>10. Waits' /\ AbandonedExpires' BY DEF Waits, AbandonedExpires
<1> QED BY <1>4, <1>5, <1>6, <1>7, <1>8, <1>9, <1>10

\* A step that does not change the record of executions, read as one that sets it.
LEMMA EffectsStand ==
  ASSUME IInv, NEW w \in Workers, pc[w] # "recv", UNCHANGED effects
  PROVE  /\ effects[serving[w]] \in {0, 1}
         /\ effects' = [effects EXCEPT ![serving[w]] = effects[serving[w]]]
<1>1. serving[w] \in Jobs BY JobInHand
<1>2. effects \in [Jobs -> Nat] BY DEF IInv, TypeOK
<1> QED BY <1>1, <1>2 DEF IInv, Truthful

LEMMA BreakerType ==
  ASSUME IInv
  PROVE  /\ RecordSuccess => fails' \in 0..Threshold /\ cooldown' \in 0..Cooldown
         /\ RecordFailure => fails' \in 0..Threshold /\ cooldown' \in 0..Cooldown
         /\ UNCHANGED breaker => fails' \in 0..Threshold /\ cooldown' \in 0..Cooldown
<1>1. fails \in 0..Threshold /\ cooldown \in 0..Cooldown BY DEF IInv, TypeOK
<1>2. Threshold \in Nat \ {0} /\ Cooldown \in Nat \ {0} BY WorkerAssumption
<1> QED BY <1>1, <1>2 DEF RecordSuccess, RecordFailure, breaker

LEMMA CheckKeeps == ASSUME IInv, NEW w \in Workers, Check(w) PROVE IInv'
<1>1. /\ pc[w] = "check" /\ UNCHANGED <<call, wait, ttl, effects, queue, fails, cooldown>>
      /\ UNCHANGED breaker
  BY DEF Check, callers, breaker
<1>2. fails' \in 0..Threshold /\ cooldown' \in 0..Cooldown BY <1>1, BreakerType
<1>3. effects[serving[w]] = 0 BY <1>1 DEF IInv, Untouched
<1>4. effects' = [effects EXCEPT ![serving[w]] = 0] BY <1>1, <1>3, EffectsStand
<1>5. CASE Reply(w, "timeout")
  BY <1>1, <1>2, <1>4, <1>5, AnsweredKeeps
<1>6. CASE Goto(w, "gate") /\ UNCHANGED <<reply, serving, tries>>
  <2>1. tries' \in [Workers -> 0..Retries] BY <1>6 DEF IInv, TypeOK
  <2>2. "gate" \in Labels \ {"recv"} BY DEF Labels
  <2> QED BY <1>1, <1>4, <1>6, <2>1, <2>2, MovedKeeps
<1> QED BY <1>5, <1>6 DEF Check

LEMMA GateKeeps == ASSUME IInv, NEW w \in Workers, Gate(w) PROVE IInv'
<1>1. /\ pc[w] = "gate" /\ UNCHANGED <<call, wait, ttl, effects, queue, fails, cooldown>>
      /\ UNCHANGED breaker
  BY DEF Gate, callers, breaker
<1>2. fails' \in 0..Threshold /\ cooldown' \in 0..Cooldown BY <1>1, BreakerType
<1>3. effects[serving[w]] = 0 BY <1>1 DEF IInv, Untouched
<1>4. effects' = [effects EXCEPT ![serving[w]] = 0] BY <1>1, <1>3, EffectsStand
<1>5. CASE Reply(w, "open") BY <1>1, <1>2, <1>4, <1>5, AnsweredKeeps
<1>6. CASE Reply(w, "failed") BY <1>1, <1>2, <1>4, <1>6, AnsweredKeeps
<1>7. CASE Goto(w, "attempt") /\ UNCHANGED <<reply, serving, tries>>
  <2>1. tries' \in [Workers -> 0..Retries] BY <1>7 DEF IInv, TypeOK
  <2>2. "attempt" \in Labels \ {"recv"} BY DEF Labels
  <2> QED BY <1>1, <1>4, <1>7, <2>1, <2>2, MovedKeeps
<1> QED BY <1>5, <1>6, <1>7 DEF Gate

\* The idempotency key: an execution that went before is not repeated.
LEMMA ProcessedOnce ==
  ASSUME IInv, NEW w \in Workers, pc[w] # "recv", NEW n \in Processed(effects[serving[w]])
  PROVE  n \in {0, 1} /\ (effects[serving[w]] = 1 => n = 1)
<1>1. serving[w] \in Jobs BY JobInHand
<1> QED BY <1>1 DEF IInv, Truthful, Processed

LEMMA AttemptKeeps == ASSUME IInv, NEW w \in Workers, Attempt(w) PROVE IInv'
<1>1. pc[w] = "attempt" /\ UNCHANGED <<call, wait, ttl, queue>> BY DEF Attempt, callers
<1>2. PICK n \in Processed(effects[serving[w]]) :
         /\ effects' = [effects EXCEPT ![serving[w]] = n]
         /\ \/ n > 0 /\ Reply(w, "done") /\ RecordSuccess
            \/ Reply(w, "failed") /\ RecordSuccess
            \/ /\ Goto(w, IF tries[w] < Retries THEN "backoff" ELSE "exhausted")
               /\ UNCHANGED <<reply, serving, tries, breaker>>
  BY DEF Attempt
<1>3. n \in {0, 1} BY <1>1, ProcessedOnce
<1>4. CASE n > 0 /\ Reply(w, "done") /\ RecordSuccess
  <2>1. n = 1 BY <1>3, <1>4
  <2>2. fails' \in 0..Threshold /\ cooldown' \in 0..Cooldown BY <1>4, BreakerType
  <2> QED BY <1>1, <1>2, <1>3, <1>4, <2>1, <2>2, AnsweredKeeps
<1>5. CASE Reply(w, "failed") /\ RecordSuccess
  <2>1. fails' \in 0..Threshold /\ cooldown' \in 0..Cooldown BY <1>5, BreakerType
  <2> QED BY <1>1, <1>2, <1>3, <1>5, <2>1, AnsweredKeeps
<1>6. CASE /\ Goto(w, IF tries[w] < Retries THEN "backoff" ELSE "exhausted")
           /\ UNCHANGED <<reply, serving, tries, breaker>>
  <2>1. PICK l \in {"backoff", "exhausted"} : Goto(w, l) BY <1>6
  <2>2. tries' \in [Workers -> 0..Retries] BY <1>6 DEF IInv, TypeOK
  <2>3. UNCHANGED <<reply, serving, fails, cooldown>> BY <1>6 DEF breaker
  <2>4. l \in Labels \ {"recv"} /\ l \notin {"check", "gate"} BY <2>1 DEF Labels
  <2> QED BY <1>1, <1>2, <1>3, <2>1, <2>2, <2>3, <2>4, MovedKeeps
<1> QED BY <1>2, <1>4, <1>5, <1>6

\* A worker backs off only while it has attempts left.
AttemptsLeft == \A w \in Workers : pc[w] = "backoff" => tries[w] < Retries

LEMMA BackoffKeeps == ASSUME IInv, AttemptsLeft, NEW w \in Workers, Backoff(w) PROVE IInv'
<1>1. /\ pc[w] = "backoff" /\ Goto(w, "attempt") /\ tries' = [tries EXCEPT ![w] = @ + 1]
      /\ UNCHANGED <<call, wait, ttl, reply, effects, queue, serving, fails, cooldown>>
  BY DEF Backoff, callers, breaker
<1>2. tries' \in [Workers -> 0..Retries]
  <2>1. tries \in [Workers -> 0..Retries] /\ Retries \in Nat /\ tries[w] < Retries
    BY <1>1, WorkerAssumption DEF IInv, TypeOK, AttemptsLeft
  <2>2. tries[w] + 1 \in 0..Retries BY <2>1
  <2> QED BY <1>1, <2>1, <2>2
<1>3. PICK n \in {0, 1} : effects' = [effects EXCEPT ![serving[w]] = n]
  BY <1>1, EffectsStand
<1>4. "attempt" \in Labels \ {"recv"} BY DEF Labels
<1> QED BY <1>1, <1>2, <1>3, <1>4, MovedKeeps

LEMMA ExhaustedKeeps == ASSUME IInv, NEW w \in Workers, Exhausted(w) PROVE IInv'
<1>1. /\ pc[w] = "exhausted" /\ RecordFailure /\ Reply(w, "failed")
      /\ UNCHANGED <<call, wait, ttl, effects, queue>>
  BY DEF Exhausted, callers
<1>2. PICK n \in {0, 1} : effects' = [effects EXCEPT ![serving[w]] = n]
  BY <1>1, EffectsStand
<1> QED BY <1>1, <1>2, BreakerType, AnsweredKeeps

LEMMA AttemptsLeftKeeps ==
  ASSUME TypeOK, AttemptsLeft, [Next]_vars PROVE AttemptsLeft'
<1> USE DEF AttemptsLeft
<1>1. /\ pc \in [Workers -> Labels] /\ tries \in [Workers -> 0..Retries] BY DEF TypeOK, Labels
<1>2. ASSUME NEW w \in Workers, Worker(w) PROVE AttemptsLeft'
  <2>1. \A v \in Workers : v # w => pc'[v] = pc[v] /\ tries'[v] = tries[v]
    BY <1>1, <1>2
       DEF Worker, Take, Check, Gate, Attempt, Backoff, Exhausted, Reply, Goto
  <2>2. pc'[w] = "backoff" => tries'[w] < Retries
    BY <1>1, <1>2
       DEF Worker, Take, Check, Gate, Attempt, Backoff, Exhausted, Reply, Goto
  <2> QED BY <2>1, <2>2
<1>3. CASE UNCHANGED worker BY <1>3 DEF worker
<1>4. ASSUME NEW j \in Jobs, Issue(j) \/ Caller(j) PROVE UNCHANGED worker
  BY <1>4 DEF Issue, Caller, Send, Receive, GiveUp
<1>5. Tick \/ UNCHANGED vars => UNCHANGED worker BY DEF Tick, vars
<1> QED BY <1>2, <1>3, <1>4, <1>5 DEF Next

LEMMA StepKeeps == IInv /\ AttemptsLeft /\ [Next]_vars => IInv' /\ AttemptsLeft'
<1> SUFFICES ASSUME IInv, AttemptsLeft, [Next]_vars PROVE IInv' /\ AttemptsLeft' OBVIOUS
<1>1. AttemptsLeft' BY AttemptsLeftKeeps DEF IInv
<1>2. ASSUME NEW j \in Jobs, Issue(j) \/ Caller(j) PROVE IInv'
  BY <1>2, IssueKeeps, SendKeeps, ReturnKeeps DEF Caller
<1>3. ASSUME NEW w \in Workers, Worker(w) PROVE IInv'
  BY <1>3, TakeKeeps, CheckKeeps, GateKeeps, AttemptKeeps, BackoffKeeps, ExhaustedKeeps
     DEF Worker
<1>4. ASSUME Tick PROVE IInv' BY <1>4, TickKeeps
<1>5. ASSUME UNCHANGED vars PROVE IInv'
  <2>1. UNCHANGED <<call, wait, ttl, reply, effects, queue, pc, serving, tries, fails, cooldown>>
    BY <1>5 DEF vars, callers, worker, breaker
  <2>2. Places' /\ \A i : Underway(i)' <=> Underway(i) BY <2>1, PlacesStay DEF IInv
  <2>3. TypeOK' BY <2>1 DEF IInv, TypeOK
  <2>4. InFlight' /\ Unsent' BY <2>1, <2>2 DEF IInv, InFlight, Unsent
  <2>5. Untouched' /\ Truthful' BY <2>1 DEF IInv, Untouched, Truthful
  <2>6. Waits' /\ AbandonedExpires' BY <2>1 DEF IInv, Waits, AbandonedExpires
  <2> QED BY <2>2, <2>3, <2>4, <2>5, <2>6 DEF IInv
<1> QED BY <1>1, <1>2, <1>3, <1>4, <1>5 DEF Next

LEMMA Always == Spec => [](IInv /\ AttemptsLeft)
<1>1. Init => IInv /\ AttemptsLeft BY InitInv DEF Init, AttemptsLeft
<1> QED BY <1>1, StepKeeps, PTL DEF Spec

-----------------------------------------------------------------------------
(* Theorems                                                                *)

\* Callers, jobs, workers and the breaker keep their shape, and the queue its bound.
THEOREM TypeCorrect == Spec => []TypeOK
<1>1. IInv => TypeOK BY DEF IInv
<1> QED BY <1>1, Always, PTL

\* run_job drops what nobody waits for: the deadline of an abandoned job has passed.
THEOREM AbandonedJobsExpire == Spec => []AbandonedExpires
<1>1. IInv => AbandonedExpires BY DEF IInv
<1> QED BY <1>1, Always, PTL

-----------------------------------------------------------------------------
(* Refinement                                                              *)

LEMMA CallInit == Init => Call!Init
BY DEF Init, Call!Init, Told, Pending

\* A job that Stripe may still execute belongs to a call that was not told anything
\* about its effect.
LEMMA AttemptExecutes ==
  ASSUME IInv, NEW w \in Workers, Attempt(w)
  PROVE  Call!Execute(serving[w]) \/ UNCHANGED Call!vars
<1> DEFINE j == serving[w]
<1>1. pc[w] = "attempt" /\ UNCHANGED call BY DEF Attempt, callers
<1>2. j \in Jobs /\ call[j] \in {"waiting", "timeout"}
  BY <1>1, JobInHand DEF IInv, InFlight
<1>3. PICK n \in Processed(effects[j]) : effects' = [effects EXCEPT ![j] = n]
  BY DEF Attempt
<1>4. n \in {0, 1} /\ (effects[j] = 1 => n = 1) /\ effects[j] \in {0, 1}
  BY <1>1, <1>2, ProcessedOnce DEF IInv, Truthful
<1>5. effects \in [Jobs -> Nat] BY DEF IInv, TypeOK
<1>6. UNCHANGED Told BY <1>1 DEF Told
<1> HIDE DEF j
<1>7. Told[j] \in {"pending", "timeout"} BY <1>2 DEF Told, Pending
<1>8. CASE n = effects[j] BY <1>3, <1>5, <1>6, <1>8 DEF Call!vars
<1>9. CASE n # effects[j]
  <2>1. effects[j] = 0 /\ n = 1 BY <1>4, <1>9
  <2> QED BY <1>3, <1>6, <1>7, <2>1 DEF Call!Execute, j
<1> QED BY <1>8, <1>9

LEMMA CallStep == IInv /\ [Next]_vars => [Call!Next]_(Call!vars)
<1> SUFFICES ASSUME IInv, [Next]_vars PROVE Call!Next \/ UNCHANGED Call!vars
  OBVIOUS
<1> USE DEF Call!vars
<1>1. /\ call \in [Jobs -> {"none", "sending", "waiting", "done", "failed", "timeout", "busy", "open"}]
      /\ effects \in [Jobs -> Nat]
      /\ reply \in [Jobs -> {None, "done", "failed", "timeout", "open"}]
  BY DEF IInv, TypeOK
<1>2. \A j \in Jobs : call[j] \in Pending => Told[j] = "pending"
  BY DEF Told
<1>3. ASSUME NEW j \in Jobs, Issue(j) PROVE Call!Issue(j)
  <2>1. call[j] \notin Pending /\ call' = [call EXCEPT ![j] = "sending"]
        /\ effects' = [effects EXCEPT ![j] = 0]
    BY <1>3 DEF Issue
  <2>2. Told[j] # "pending" BY <1>1, <2>1 DEF Told, Pending
  <2>3. Told' = [Told EXCEPT ![j] = "pending"] BY <1>1, <2>1 DEF Told, Pending
  <2> QED BY <2>1, <2>2, <2>3 DEF Call!Issue
\* What an answer changes on the abstract side.
<1>4. ASSUME NEW j \in Jobs, call[j] \in Pending,
             NEW a \in {"done", "failed", "timeout", "busy", "open"},
             call' = [call EXCEPT ![j] = a], UNCHANGED effects,
             a = "done" => effects[j] = 1, a \in {"busy", "open"} => effects[j] = 0
      PROVE  Call!Answer(j, a) /\ a \in Call!Answers
  <2>1. Told' = [Told EXCEPT ![j] = a] BY <1>1, <1>4 DEF Told, Pending
  <2> QED BY <1>2, <1>4, <2>1 DEF Call!Answer, Call!Answers, Call!Untried
<1>5. ASSUME NEW j \in Jobs, Send(j) PROVE Call!Next \/ UNCHANGED Call!vars
  <2>1. call[j] = "sending" /\ effects[j] = 0 /\ UNCHANGED effects
    BY <1>5 DEF Send, IInv, Unsent
  <2>2. CASE call' = [call EXCEPT ![j] = "waiting"]
    <3>1. UNCHANGED Told BY <1>1, <2>1, <2>2 DEF Told, Pending
    <3> QED BY <2>1, <3>1
  <2>3. CASE call' = [call EXCEPT ![j] = "busy"]
    <3>1. Call!Answer(j, "busy") /\ "busy" \in Call!Answers
      BY <1>4, <2>1, <2>3 DEF Pending
    <3> QED BY <3>1 DEF Call!Next
  <2> QED BY <1>5, <2>2, <2>3 DEF Send
<1>6. ASSUME NEW j \in Jobs, Receive(j) PROVE Call!Next
  <2>1. /\ call[j] = "waiting" /\ call' = [call EXCEPT ![j] = reply[j]] /\ UNCHANGED effects
        /\ reply[j] \in {"done", "failed", "timeout", "open"}
    BY <1>1, <1>6 DEF Receive
  <2>2. /\ reply[j] = "done" => effects[j] = 1
        /\ reply[j] \in {"busy", "open"} => effects[j] = 0
    BY <2>1 DEF IInv, Truthful
  <2>3. Call!Answer(j, reply[j]) /\ reply[j] \in Call!Answers
    BY <1>4, <2>1, <2>2 DEF Pending
  <2> QED BY <2>3 DEF Call!Next
<1>7. ASSUME NEW j \in Jobs, GiveUp(j) PROVE Call!Next
  <2>1. call[j] = "waiting" /\ call' = [call EXCEPT ![j] = "timeout"] /\ UNCHANGED effects
    BY <1>7 DEF GiveUp
  <2>2. Call!Answer(j, "timeout") /\ "timeout" \in Call!Answers BY <1>4, <2>1 DEF Pending
  <2> QED BY <2>2 DEF Call!Next
<1>8. ASSUME NEW w \in Workers, Attempt(w) PROVE Call!Next \/ UNCHANGED Call!vars
  <2>1. serving[w] \in Jobs BY <1>8, JobInHand DEF Attempt
  <2> QED BY <1>8, <2>1, AttemptExecutes DEF Call!Next
<1>9. ASSUME UNCHANGED <<call, effects>> PROVE UNCHANGED Call!vars
  BY <1>9 DEF Told
<1>10. ASSUME NEW w \in Workers, Worker(w), ~Attempt(w) PROVE UNCHANGED Call!vars
  <2>1. UNCHANGED <<call, effects>>
    BY <1>10 DEF Worker, Take, Check, Gate, Backoff, Exhausted, callers
  <2> QED BY <2>1, <1>9
<1>11. ASSUME Tick \/ UNCHANGED vars PROVE UNCHANGED Call!vars
  <2>1. UNCHANGED <<call, effects>> BY <1>11 DEF Tick, vars, callers
  <2> QED BY <2>1, <1>9
<1>12. ASSUME NEW j \in Jobs, Issue(j) PROVE Call!Next
  BY <1>3, <1>12 DEF Call!Next
<1>13. ASSUME NEW j \in Jobs, Issue(j) \/ Caller(j) PROVE Call!Next \/ UNCHANGED Call!vars
  BY <1>13, <1>5, <1>6, <1>7, <1>12 DEF Caller
<1>14. ASSUME NEW w \in Workers, Worker(w) PROVE Call!Next \/ UNCHANGED Call!vars
  BY <1>14, <1>8, <1>10
<1> QED BY <1>11, <1>13, <1>14 DEF Next

\* Retries, lost answers and timeouts leave each call executed at most once, and its
\* caller told nothing about it that is not so.
THEOREM WorkerImplementsCall == Spec => CallSpec
BY Always, CallInit, CallStep, PTL DEF Spec, CallSpec, Call!Spec
-----------------------------------------------------------------------------
(* Webhook                                                                 *)

Serving == \A h \in Handlers : stage[h] # "free" => event[h] \in Events

Done == \A h \in Handlers : stage[h] \in {"record", "accept"} => event[h] \in handled

WebhookInv == WebhookTypeOK /\ NoEventLost /\ Serving /\ Done
-----------------------------------------------------------------------------
LEMMA WebhookInvInit == WebhookInit => WebhookInv
BY WebhookAssumption
DEF WebhookInit, WebhookInv, WebhookTypeOK, NoEventLost, Serving, Done, Events, Stages

LEMMA EmitStep ==
  ASSUME WebhookInv, Emit
  PROVE  WebhookInv'
<1> USE WebhookAssumption
    DEF Emit, WebhookInv, WebhookTypeOK, Serving, Done, Events, Move, Fault, NoFault,
        stripeVars, dbVars, history
<1>1. WebhookTypeOK'
  BY DEF Stages
<1>2. NoEventLost'
  BY DEF NoEventLost
<1>3. Serving' /\ Done'
  OBVIOUS
<1> QED BY <1>1, <1>2, <1>3

LEMMA SetEmailStep ==
  ASSUME WebhookInv, SetEmail
  PROVE  WebhookInv'
<1> USE WebhookAssumption
    DEF SetEmail, WebhookInv, WebhookTypeOK, Serving, Done, Events, Move, Fault, NoFault,
        stripeVars, dbVars, history
<1>1. WebhookTypeOK'
  BY DEF Stages
<1>2. NoEventLost'
  BY DEF NoEventLost
<1>3. Serving' /\ Done'
  OBVIOUS
<1> QED BY <1>1, <1>2, <1>3

LEMMA SignupStep ==
  ASSUME WebhookInv, Signup
  PROVE  WebhookInv'
<1> USE WebhookAssumption
    DEF Signup, WebhookInv, WebhookTypeOK, Serving, Done, Events, Move, Fault, NoFault,
        stripeVars, dbVars, history
<1>1. WebhookTypeOK'
  BY DEF Stages
<1>2. NoEventLost'
  BY DEF NoEventLost
<1>3. Serving' /\ Done'
  OBVIOUS
<1> QED BY <1>1, <1>2, <1>3

LEMMA PruneStep ==
  ASSUME WebhookInv, Prune
  PROVE  WebhookInv'
<1> USE WebhookAssumption
    DEF Prune, WebhookInv, WebhookTypeOK, Serving, Done, Events, Move, Fault, NoFault,
        stripeVars, dbVars, history
<1>1. WebhookTypeOK'
  BY DEF Stages
<1>2. NoEventLost'
  BY DEF NoEventLost
<1>3. Serving' /\ Done'
  OBVIOUS
<1> QED BY <1>1, <1>2, <1>3

LEMMA CrashStep ==
  ASSUME WebhookInv, Crash
  PROVE  WebhookInv'
<1> USE WebhookAssumption
    DEF Crash, WebhookInv, WebhookTypeOK, Serving, Done, Events, Move, Fault, NoFault,
        stripeVars, dbVars, history
<1>1. WebhookTypeOK'
  BY DEF Stages
<1>2. NoEventLost'
  BY DEF NoEventLost
<1>3. Serving' /\ Done'
  OBVIOUS
<1> QED BY <1>1, <1>2, <1>3

LEMMA DeliverStep ==
  ASSUME WebhookInv, NEW h \in Handlers, NEW e \in Events, Deliver(h, e)
  PROVE  WebhookInv'
<1> USE WebhookAssumption
    DEF Deliver, WebhookInv, WebhookTypeOK, Serving, Done, Events, Move, Fault, NoFault,
        stripeVars, dbVars, history
<1>1. WebhookTypeOK'
  <2>1. stage' \in [Handlers -> Stages]
    BY DEF Stages
  <2>2. /\ event' \in [Handlers -> 0..LastEvent]
        /\ patch' \in [Handlers -> 0..LastEvent]
        /\ faults' \in 0..MaxFaults
    OBVIOUS
  <2>3. /\ current' \in 0..LastEvent /\ email' \in BOOLEAN /\ user' \in BOOLEAN
        /\ version' \in 0..LastEvent
    OBVIOUS
  <2>4. /\ acked' \subseteq Events /\ retired' \subseteq acked'
        /\ recorded' \subseteq Events
        /\ handled' \subseteq Events /\ applied' \subseteq handled'
    OBVIOUS
  <2> QED BY <2>1, <2>2, <2>3, <2>4
<1>2. NoEventLost'
  BY DEF NoEventLost
<1>3. Serving'
  OBVIOUS
<1>4. Done'
  BY DEF Stages
<1> QED BY <1>1, <1>2, <1>3, <1>4

LEMMA RetireStep ==
  ASSUME WebhookInv, NEW e \in Events, Retire(e)
  PROVE  WebhookInv'
<1> USE WebhookAssumption
    DEF Retire, WebhookInv, WebhookTypeOK, Serving, Done, Events, Move, Fault, NoFault,
        stripeVars, dbVars, history
<1>1. WebhookTypeOK'
  BY DEF Stages
<1>2. NoEventLost'
  BY DEF NoEventLost
<1>3. Serving' /\ Done'
  OBVIOUS
<1> QED BY <1>1, <1>2, <1>3

LEMMA LookupStep ==
  ASSUME WebhookInv, NEW h \in Handlers, Lookup(h)
  PROVE  WebhookInv'
<1> USE WebhookAssumption
    DEF Lookup, WebhookInv, WebhookTypeOK, Serving, Done, Events, Move, Fault, NoFault,
        stripeVars, dbVars, history
<1>1. WebhookTypeOK'
  <2>1. stage' \in [Handlers -> Stages]
    BY DEF Stages
  <2>2. /\ event' \in [Handlers -> 0..LastEvent]
        /\ patch' \in [Handlers -> 0..LastEvent]
        /\ faults' \in 0..MaxFaults
    OBVIOUS
  <2>3. /\ current' \in 0..LastEvent /\ email' \in BOOLEAN /\ user' \in BOOLEAN
        /\ version' \in 0..LastEvent
    OBVIOUS
  <2>4. /\ acked' \subseteq Events /\ retired' \subseteq acked'
        /\ recorded' \subseteq Events
        /\ handled' \subseteq Events /\ applied' \subseteq handled'
    OBVIOUS
  <2> QED BY <2>1, <2>2, <2>3, <2>4
<1>2. NoEventLost'
  BY DEF NoEventLost
<1>3. Serving'
  OBVIOUS
<1>4. Done'
  BY DEF NoEventLost, Stages
<1> QED BY <1>1, <1>2, <1>3, <1>4

LEMMA FetchStep ==
  ASSUME WebhookInv, NEW h \in Handlers, Fetch(h)
  PROVE  WebhookInv'
<1> USE WebhookAssumption
    DEF Fetch, WebhookInv, WebhookTypeOK, Serving, Done, Events, Move, Fault, NoFault,
        stripeVars, dbVars, history
<1>1. WebhookTypeOK'
  <2>1. stage' \in [Handlers -> Stages]
    BY DEF Stages
  <2>2. /\ event' \in [Handlers -> 0..LastEvent]
        /\ faults' \in 0..MaxFaults
    OBVIOUS
  <2>5. patch' \in [Handlers -> 0..LastEvent]
    <3>1. event[h] \in 0..LastEvent /\ current \in 0..LastEvent
      OBVIOUS
    <3>2. \/ patch' = patch
          \/ patch' = [patch EXCEPT ![h] = current]
          \/ patch' = [patch EXCEPT ![h] = event[h]]
      OBVIOUS
    <3> QED BY <3>1, <3>2
  <2>3. /\ current' \in 0..LastEvent /\ email' \in BOOLEAN /\ user' \in BOOLEAN
        /\ version' \in 0..LastEvent
    OBVIOUS
  <2>4. /\ acked' \subseteq Events /\ retired' \subseteq acked'
        /\ recorded' \subseteq Events
        /\ handled' \subseteq Events /\ applied' \subseteq handled'
    OBVIOUS
  <2> QED BY <2>1, <2>2, <2>3, <2>4, <2>5
<1>2. NoEventLost'
  BY DEF NoEventLost
<1>3. Serving'
  OBVIOUS
<1>4. Done'
  BY DEF Stages
<1> QED BY <1>1, <1>2, <1>3, <1>4

LEMMA ApplyStep ==
  ASSUME WebhookInv, NEW h \in Handlers, Apply(h)
  PROVE  WebhookInv'
<1> USE WebhookAssumption
    DEF Apply, WebhookInv, WebhookTypeOK, Serving, Done, Events, Move, Fault, NoFault,
        stripeVars, dbVars, history
<1>1. WebhookTypeOK'
  <2>1. stage' \in [Handlers -> Stages]
    BY DEF Stages
  <2>2. /\ event' \in [Handlers -> 0..LastEvent]
        /\ patch' \in [Handlers -> 0..LastEvent]
        /\ faults' \in 0..MaxFaults
    OBVIOUS
  <2>3. /\ current' \in 0..LastEvent /\ email' \in BOOLEAN /\ user' \in BOOLEAN
        /\ version' \in 0..LastEvent
    OBVIOUS
  <2>4. /\ acked' \subseteq Events /\ retired' \subseteq acked'
        /\ recorded' \subseteq Events
        /\ handled' \subseteq Events /\ applied' \subseteq handled'
    OBVIOUS
  <2> QED BY <2>1, <2>2, <2>3, <2>4
<1>2. NoEventLost'
  BY DEF NoEventLost
<1>3. Serving'
  OBVIOUS
<1>4. Done'
  BY DEF Stages
<1> QED BY <1>1, <1>2, <1>3, <1>4

LEMMA RecordStep ==
  ASSUME WebhookInv, NEW h \in Handlers, Record(h)
  PROVE  WebhookInv'
<1> USE WebhookAssumption
    DEF Record, WebhookInv, WebhookTypeOK, Serving, Done, Events, Move, Fault, NoFault,
        stripeVars, dbVars, history
<1>1. WebhookTypeOK'
  <2>1. stage' \in [Handlers -> Stages]
    BY DEF Stages
  <2>2. /\ event' \in [Handlers -> 0..LastEvent]
        /\ patch' \in [Handlers -> 0..LastEvent]
        /\ faults' \in 0..MaxFaults
    OBVIOUS
  <2>3. /\ current' \in 0..LastEvent /\ email' \in BOOLEAN /\ user' \in BOOLEAN
        /\ version' \in 0..LastEvent
    OBVIOUS
  <2>4. /\ acked' \subseteq Events /\ retired' \subseteq acked'
        /\ recorded' \subseteq Events
        /\ handled' \subseteq Events /\ applied' \subseteq handled'
    OBVIOUS
  <2> QED BY <2>1, <2>2, <2>3, <2>4
<1>2. NoEventLost'
  BY DEF NoEventLost
<1>3. Serving'
  OBVIOUS
<1>4. Done'
  BY DEF Stages
<1> QED BY <1>1, <1>2, <1>3, <1>4

LEMMA AnswerStep ==
  ASSUME WebhookInv, NEW h \in Handlers, Answer(h)
  PROVE  WebhookInv'
<1> USE WebhookAssumption
    DEF Answer, WebhookInv, WebhookTypeOK, Serving, Done, Events, Move, Fault, NoFault,
        stripeVars, dbVars, history
<1>1. WebhookTypeOK'
  <2>1. stage' \in [Handlers -> Stages]
    BY DEF Stages
  <2>2. /\ event' \in [Handlers -> 0..LastEvent]
        /\ patch' \in [Handlers -> 0..LastEvent]
        /\ faults' \in 0..MaxFaults
    OBVIOUS
  <2>3. /\ current' \in 0..LastEvent /\ email' \in BOOLEAN /\ user' \in BOOLEAN
        /\ version' \in 0..LastEvent
    OBVIOUS
  <2>4. /\ acked' \subseteq Events /\ retired' \subseteq acked'
        /\ recorded' \subseteq Events
        /\ handled' \subseteq Events /\ applied' \subseteq handled'
    OBVIOUS
  <2> QED BY <2>1, <2>2, <2>3, <2>4
<1>2. NoEventLost'
  BY DEF NoEventLost
<1>3. Serving'
  OBVIOUS
<1>4. Done'
  BY DEF Stages
<1> QED BY <1>1, <1>2, <1>3, <1>4

LEMMA StutterStep == WebhookInv /\ UNCHANGED webhookVars => WebhookInv'
BY DEF WebhookInv, WebhookTypeOK, NoEventLost, Serving, Done, webhookVars, stripeVars,
       dbVars, history

LEMMA NextInv == WebhookInv /\ [WebhookNext]_webhookVars => WebhookInv'
<1> SUFFICES ASSUME WebhookInv, [WebhookNext]_webhookVars PROVE WebhookInv'
  OBVIOUS
<1>1. CASE Emit \/ SetEmail \/ Signup \/ Prune \/ Crash
  BY <1>1, EmitStep, SetEmailStep, SignupStep, PruneStep, CrashStep
<1>2. ASSUME NEW h \in Handlers, NEW e \in Events, Deliver(h, e) PROVE WebhookInv'
  BY <1>2, DeliverStep
<1>3. ASSUME NEW e \in Events, Retire(e) PROVE WebhookInv'
  BY <1>3, RetireStep
<1>4. ASSUME NEW h \in Handlers, Step(h) PROVE WebhookInv'
  BY <1>4, LookupStep, FetchStep, ApplyStep, RecordStep, AnswerStep DEF Step
<1>5. CASE UNCHANGED webhookVars
  BY <1>5, StutterStep
<1> QED BY <1>1, <1>2, <1>3, <1>4, <1>5 DEF WebhookNext

LEMMA WebhookAlways == WebhookSpec => []WebhookInv
BY WebhookInvInit, NextInv, PTL DEF WebhookSpec
-----------------------------------------------------------------------------
\* The state keeps its shape; the row shows only what an event announced.
THEOREM WebhookTypeCorrect == WebhookSpec => []WebhookTypeOK
BY WebhookAlways, PTL DEF WebhookInv

\* Whatever fails and however deliveries interleave, Stripe stops retrying
\* only what process_webhook went through, and the table lists nothing else.
THEOREM NothingLost == WebhookSpec => []NoEventLost
BY WebhookAlways, PTL DEF WebhookInv
=============================================================================
