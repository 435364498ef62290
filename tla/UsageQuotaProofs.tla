-------------------------- MODULE UsageQuotaProofs --------------------------
(***************************************************************************)
(* Proofs about UsageQuota, for any number of workers, any limit and any   *)
(* window that is at least three requests long.                            *)
(*                                                                         *)
(* The counter stays within the limit because the limit is in the UPDATE.  *)
(* For the overrun, call a racer a request that is about to reset a window *)
(* although the stored one is live.  A racer looked the row up before the  *)
(* stored window was written, so that window is young while there is one   *)
(* (Young); a request that looks up a live window therefore never becomes  *)
(* a racer against its successor (Settled): the window it saw would have   *)
(* to run out within the time of one request.  So the number of racers     *)
(* only falls during a window, and each is worth one quota (Budget).       *)
(***************************************************************************)
EXTENDS UsageQuota, FiniteSetTheorems, TLAPS

Live == now <= resetAt

Racers == {r \in Requests : \/ pc[r] = "reset"
                            \/ pc[r] = "judge" /\ seen[r] < now}

Timely == \A r \in Requests :
    /\ pc[r] # "free" => began[r] <= now /\ now <= began[r] + MaxSpan
    /\ pc[r] = "reset" => /\ newReset[r] >= began[r] + Window
                          /\ newReset[r] <= now + Window
    /\ pc[r] \in {"reset", "consume"} /\ tracking[r] => limit >= 1

Young == Live => \A r \in Racers : resetAt >= began[r] + Window - MaxSpan

Settled == \A r \in Requests :
    /\ pc[r] = "judge" /\ now <= seen[r] /\ seen[r] # resetAt
    => seen[r] >= began[r] + Window - 2 * MaxSpan

\* Units granted in this window that its counter no longer shows, and what the
\* counter, the racers and all workers are worth.
Erased == period - count
Worth(k) == Quota * k
All == Worth(Cardinality(Requests))

Budget == /\ Erased + Quota <= All
          /\ Live => Erased + Quota + Worth(Cardinality(Racers)) <= All

Inv == TypeOK /\ CountWithinLimit /\ Timely
IInv == Inv /\ Young /\ Settled /\ Budget
-----------------------------------------------------------------------------
(* Arithmetic of the quota                                                 *)

LEMMA QuotaType == limit \in Int => Quota \in Nat
BY DEF Quota

LEMMA AddSubtract == \A a, b \in Int : (a + b) - b = a
OBVIOUS

\* One racer less is worth one quota; fewer racers are worth no more.
LEMMA WorthFacts ==
  ASSUME Quota \in Nat, NEW m \in Nat, NEW n \in Nat
  PROVE  /\ Worth(n) \in Nat
         /\ m <= n => Worth(m) <= Worth(n)
         /\ Worth(n + 1) = Worth(n) + Quota
<1> DEFINE q == Quota
<1>1. q \in Nat
  OBVIOUS
<1> HIDE DEF q
<1>2. /\ q * n \in Nat
      /\ m <= n => q * m <= q * n
      /\ q * (n + 1) = q * n + q
  BY <1>1
<1>3. QED
  BY <1>2 DEF Worth, q

LEMMA RacersFinite ==
  /\ IsFiniteSet(Racers) /\ Cardinality(Racers) \in Nat
  /\ IsFiniteSet(Racers') /\ Cardinality(Racers') \in Nat
<1>1. Racers \subseteq Requests /\ Racers' \subseteq Requests
  BY DEF Racers
<1>2. QED
  BY <1>1, QuotaAssumption, FS_Subset, FS_CardinalityType

-----------------------------------------------------------------------------
(* The first part: types, the limit and how long a request takes           *)

LEMMA InvInit == Init => Inv
BY QuotaAssumption DEF Init, Inv, TypeOK, CountWithinLimit, Quota, Timely, Labels

LEMMA InvStep == Inv /\ [Next]_vars => Inv'
<1> SUFFICES ASSUME Inv, [Next]_vars PROVE Inv'
  OBVIOUS
<1> USE QuotaAssumption DEF Inv, TypeOK, CountWithinLimit, Quota, Timely, Labels,
        Goto, Answer, row, local, Expired
<1>1. ASSUME NEW r \in Requests, Lookup(r) PROVE Inv'
  BY <1>1 DEF Lookup
<1>2. ASSUME NEW r \in Requests, Judge(r) PROVE Inv'
  <2>1. /\ limit' = limit /\ now' = now /\ count' = count /\ resetAt' = resetAt
        /\ period' = period /\ subscribed' = subscribed
    BY <1>2 DEF Judge
  <2>2. CASE Answer(r)
    BY <2>1, <2>2
  <2>3. CASE ~(tracking[r] /\ limit < 1) /\ newReset' = [newReset EXCEPT ![r] = now + Window]
             /\ Goto(r, "reset") /\ UNCHANGED <<tracking, seen, began>>
    <3>1. TypeOK'
      BY <2>1, <2>3
    <3>2. Timely'
      BY <1>2, <2>1, <2>3 DEF Judge
    <3>3. QED
      BY <2>1, <3>1, <3>2
  <2>4. CASE ~(tracking[r] /\ limit < 1) /\ Goto(r, "consume") /\ UNCHANGED local
    <3>1. TypeOK'
      BY <2>1, <2>4
    <3>2. Timely'
      BY <1>2, <2>1, <2>4 DEF Judge
    <3>3. QED
      BY <2>1, <3>1, <3>2
  <2>5. QED
    BY <1>2, <2>2, <2>3, <2>4 DEF Judge
<1>3. ASSUME NEW r \in Requests, Reset(r) PROVE Inv'
  <2>1. CASE UNCHANGED <<count, resetAt, period>>
    BY <1>3, <2>1 DEF Reset
  <2>2. CASE /\ count' = IF tracking[r] THEN 1 ELSE 0
             /\ resetAt' = newReset[r]
             /\ period' = (IF Expired(now, resetAt) THEN 0 ELSE period) + count'
    <3>1. count' \in Nat /\ period' \in Nat /\ count' <= Quota'
      BY <1>3, <2>2 DEF Reset
    <3>2. QED
      BY <1>3, <2>2, <3>1 DEF Reset
  <2>3. QED
    BY <1>3, <2>1, <2>2 DEF Reset
<1>4. ASSUME NEW r \in Requests, Consume(r) PROVE Inv'
  BY <1>4 DEF Consume
<1>5. CASE Subscription
  BY <1>5 DEF Subscription
<1>6. CASE Tick
  BY <1>6 DEF Tick
<1>7. CASE UNCHANGED vars
  BY <1>7 DEF vars
<1>8. QED
  BY <1>1, <1>2, <1>3, <1>4, <1>5, <1>6, <1>7 DEF Next

LEMMA InvAlways == Spec => []Inv
BY InvInit, InvStep, PTL DEF Spec

\* Type correctness.
THEOREM TypeCorrect == Spec => []TypeOK
<1>1. Inv => TypeOK
  BY DEF Inv
<1>2. QED
  BY InvAlways, <1>1, PTL

\* The stored counter never passes FREE_USAGE_LIMIT, however many requests of
\* the user run at once: consume_usage checks and counts in one statement.
THEOREM LimitEnforced == Spec => []CountWithinLimit
<1>1. Inv => CountWithinLimit
  BY DEF Inv
<1>2. QED
  BY InvAlways, <1>1, PTL

-----------------------------------------------------------------------------
(* The overrun                                                             *)

\* A step that adds no racer to a live window and erases nothing.
LEMMA BudgetKept ==
  ASSUME IInv, Inv', Live' => Live /\ Racers' \subseteq Racers,
         limit' = limit, Erased' = Erased
  PROVE  Budget'
<1>1. Live' => Cardinality(Racers') <= Cardinality(Racers)
  BY RacersFinite, FS_Subset
<1>2. Quota' = Quota /\ Quota \in Nat /\ All' = All
  <2>1. limit \in Int
    BY QuotaAssumption DEF IInv, Inv, TypeOK
  <2>2. QED
    BY <2>1, QuotaType DEF Quota, All, Worth
<1>3. Live' => Worth(Cardinality(Racers')) <= Worth(Cardinality(Racers))
  BY <1>1, <1>2, RacersFinite, WorthFacts
<1>4. Worth(Cardinality(Racers))' = Worth(Cardinality(Racers'))
  BY <1>2 DEF Worth
<1> DEFINE a == Worth(Cardinality(Racers))
           b == Worth(Cardinality(Racers'))
<1>5. a \in Nat /\ b \in Nat
  BY <1>2, RacersFinite, WorthFacts
<1>6. Erased \in Int /\ All \in Nat
  <2>1. Erased \in Int
    BY DEF Erased, IInv, Inv, TypeOK
  <2>2. Cardinality(Requests) \in Nat
    BY QuotaAssumption, FS_CardinalityType
  <2>3. QED
    BY <1>2, <2>1, <2>2, WorthFacts DEF All
<1> DEFINE x == Erased + Quota
<1>7. x \in Int /\ x' = x
  BY <1>2, <1>6
<1>8. x <= All /\ (Live => x + a <= All)
  BY DEF IInv, Budget
<1>9. Live' => x + b <= All
  <2>1. SUFFICES ASSUME Live' PROVE x + b <= All
    OBVIOUS
  <2>2. b <= a /\ x + a <= All
    BY <1>3, <1>8, <2>1
  <2> HIDE DEF x, a, b
  <2>3. QED
    BY <1>5, <1>6, <1>7, <2>2
<1>10. QED
  BY <1>2, <1>4, <1>7, <1>8, <1>9 DEF Budget

\* A reset uses up one racer, or opens a new window against all other workers.
LEMMA BudgetReset ==
  ASSUME IInv, Inv', NEW r \in Requests, Reset(r), resetAt' = newReset[r],
         period' = (IF Expired(now, resetAt) THEN 0 ELSE period) + count'
  PROVE  Budget'
<1> DEFINE m == Cardinality(Requests)
           k == Cardinality(Racers')
<1>1. /\ limit' = limit
      /\ Erased' = IF Live THEN period ELSE 0
      /\ r \in Racers /\ Racers' \subseteq Racers \ {r}
  <2>1. /\ limit' = limit /\ now' = now /\ seen' = [seen EXCEPT ![r] = -1]
        /\ pc' = [pc EXCEPT ![r] = "free"] /\ pc[r] = "reset"
    BY DEF Reset, Answer, Goto
  <2>2. count' \in Nat
    BY DEF Inv, TypeOK
  <2>3. Erased' = IF Live THEN period ELSE 0
    <3>1. now \in Int /\ resetAt \in Int /\ period \in Nat
      BY QuotaAssumption DEF IInv, Inv, TypeOK
    <3>2. Expired(now, resetAt) <=> ~Live
      BY <3>1 DEF Expired, Live
    <3>3. period' = (IF Live THEN period ELSE 0) + count'
      BY <2>2, <3>2
    <3>4. CASE Live
      <4>1. count' \in Int /\ period \in Int /\ period' = period + count'
        BY <2>2, <3>1, <3>3, <3>4
      <4>2. period' - count' = period
        BY <4>1, AddSubtract
      <4>3. QED
        BY <3>4, <4>2 DEF Erased
    <3>5. CASE ~Live
      <4>1. 0 \in Int /\ count' \in Int /\ period' = 0 + count'
        BY <2>2, <3>1, <3>3, <3>5
      <4>2. period' - count' = 0
        BY <4>1, AddSubtract
      <4>3. QED
        BY <3>5, <4>2 DEF Erased
    <3>6. QED
      BY <3>4, <3>5
  <2>4. r \in Racers /\ Racers' \subseteq Racers \ {r}
    BY <2>1 DEF Racers, IInv, Inv, TypeOK
  <2>5. QED
    BY <2>1, <2>3, <2>4
<1>2. Quota' = Quota /\ Quota \in Nat /\ All' = All
  <2>1. limit \in Int
    BY QuotaAssumption DEF IInv, Inv, TypeOK
  <2>2. QED
    BY <1>1, <2>1, QuotaType DEF Quota, All, Worth
<1>3. m \in Nat /\ k \in Nat /\ k + 1 \in Nat /\ k + 1 <= m
  <2>1. Racers' \subseteq Requests \ {r}
    BY DEF Racers, Reset, Answer, Goto, IInv, Inv, TypeOK
  <2>2. IsFiniteSet(Requests \ {r}) /\ Cardinality(Requests \ {r}) = m - 1
    BY QuotaAssumption, FS_RemoveElement
  <2>3. m \in Nat /\ k \in Nat
    BY QuotaAssumption, FS_CardinalityType, RacersFinite
  <2>4. k <= m - 1
    BY <2>1, <2>2, FS_Subset
  <2>5. QED
    BY <2>3, <2>4
<1>4. /\ Worth(k) \in Nat /\ All \in Nat
      /\ Worth(k) + Quota <= All
  <2>1. Worth(k) \in Nat /\ Worth(k + 1) = Worth(k) + Quota
    BY <1>2, <1>3, WorthFacts
  <2>2. Worth(k + 1) <= Worth(m) /\ Worth(m) \in Nat
    BY <1>2, <1>3, WorthFacts
  <2>3. QED
    BY <2>1, <2>2 DEF All
<1>5. CASE Live
  <2> DEFINE n == Cardinality(Racers)
  <2>1. n \in Nat /\ k + 1 <= n
    <3>1. Cardinality(Racers \ {r}) = n - 1 /\ IsFiniteSet(Racers \ {r})
      BY <1>1, RacersFinite, FS_RemoveElement
    <3>2. k <= n - 1
      BY <1>1, <3>1, FS_Subset
    <3>3. QED
      BY <1>3, <3>2, RacersFinite
  <2>2. Worth(k) + Quota <= Worth(n) /\ Worth(n) \in Nat
    <3>1. Worth(k + 1) = Worth(k) + Quota
      BY <1>2, <1>3, WorthFacts
    <3>2. Worth(k + 1) <= Worth(n) /\ Worth(n) \in Nat
      BY <1>2, <1>3, <2>1, WorthFacts
    <3>3. QED
      BY <3>1, <3>2
  <2>3. period - count + Quota + Worth(n) <= All
    BY <1>5 DEF IInv, Budget, Erased
  <2>4. count <= Quota /\ count \in Nat /\ period \in Nat
    BY DEF IInv, Inv, CountWithinLimit, TypeOK
  <2>5. period + Quota + Worth(k) <= All /\ period + Quota <= All
    <3> DEFINE wk == Worth(k)
               wn == Worth(n)
    <3>1. wk \in Nat /\ wn \in Nat /\ wk + Quota <= wn
          /\ period - count + Quota + wn <= All
      BY <1>4, <2>2, <2>3
    <3> HIDE DEF wk, wn
    <3>2. period + Quota + wk <= All /\ period + Quota <= All
      BY <1>2, <1>4, <2>4, <3>1
    <3>3. QED
      BY <3>2 DEF wk
  <2>6. Erased' = period
    BY <1>1, <1>5
  <2>7. QED
    BY <1>2, <2>5, <2>6 DEF Budget, Worth
<1>6. CASE ~Live
  <2>1. Erased' = 0 
    BY <1>1, <1>6
  <2>2. Quota <= All /\ Quota + Worth(k) <= All
    BY <1>2, <1>4
  <2>3. QED
    BY <1>2, <2>1, <2>2 DEF Budget, Worth
<1>7. QED
  BY <1>5, <1>6

\* Against the window a request saw live there is no racer left when it runs
\* out: the step of the clock adds none.
LEMMA NoNewRacer ==
  ASSUME IInv, Tick, Live'
  PROVE  Live /\ Racers' = Racers
<1> USE QuotaAssumption DEF IInv, Inv, TypeOK, Live
<1>1. Live /\ now' = now + 1 /\ resetAt' = resetAt /\ pc' = pc /\ seen' = seen
  BY DEF Tick, row, local
<1>2. ASSUME NEW r \in Requests, pc[r] = "judge", seen[r] < now + 1 PROVE seen[r] < now
  <2>1. SUFFICES ASSUME seen[r] = now PROVE FALSE
    BY <1>2
  <2>2. seen[r] >= began[r] + Window - 2 * MaxSpan
    BY <1>1, <1>2, <2>1 DEF Settled
  <2>3. now - began[r] < MaxSpan
    BY <1>2 DEF Tick
  <2>4. QED
    BY <2>1, <2>2, <2>3
<1>3. QED
  BY <1>1, <1>2 DEF Racers

LEMMA YoungStep == IInv /\ Inv' /\ [Next]_vars => Young'
<1> SUFFICES ASSUME IInv, Inv', [Next]_vars, Live', NEW k \in Racers'
             PROVE  resetAt' >= began'[k] + Window - MaxSpan
  BY DEF Young
<1> USE QuotaAssumption DEF IInv, Inv, TypeOK, Live, Racers, Goto, Answer, row, local
<1>1. ASSUME NEW r \in Requests, Lookup(r)
      PROVE  resetAt' >= began'[k] + Window - MaxSpan
  BY <1>1 DEF Lookup, Young
<1>2. ASSUME NEW r \in Requests, Judge(r)
      PROVE  resetAt' >= began'[k] + Window - MaxSpan
  <2>1. k \in Racers /\ began'[k] = began[k]
    BY <1>2 DEF Judge, Expired
  <2>2. QED
    BY <1>2, <2>1 DEF Judge, Young
<1>3. ASSUME NEW r \in Requests, Reset(r)
      PROVE  resetAt' >= began'[k] + Window - MaxSpan
  <2>1. k \in Racers /\ k # r /\ began'[k] = began[k] /\ now' = now
    BY <1>3 DEF Reset
  <2>2. CASE resetAt' = resetAt
    BY <2>1, <2>2 DEF Young
  <2>3. CASE resetAt' = newReset[r]
    <3>1. newReset[r] >= began[r] + Window /\ now <= began[r] + MaxSpan /\ began[k] <= now
      BY <1>3, <2>1 DEF Timely, Reset
    <3>2. QED
      BY <2>1, <2>3, <3>1
  <2>4. QED
    BY <1>3, <2>2, <2>3 DEF Reset
<1>4. ASSUME NEW r \in Requests, Consume(r)
      PROVE  resetAt' >= began'[k] + Window - MaxSpan
  BY <1>4 DEF Consume, Young
<1>5. CASE Subscription \/ UNCHANGED vars
  BY <1>5 DEF Subscription, vars, Young
<1>6. CASE Tick
  <2>1. k \in Racers /\ Live
    BY <1>6, NoNewRacer
  <2>2. QED
    BY <1>6, <2>1 DEF Tick, Young
<1>7. QED
  BY <1>1, <1>2, <1>3, <1>4, <1>5, <1>6 DEF Next

LEMMA SettledStep == IInv /\ Inv' /\ [Next]_vars => Settled'
<1> SUFFICES ASSUME IInv, Inv', [Next]_vars, NEW k \in Requests,
                    pc'[k] = "judge", now' <= seen'[k], seen'[k] # resetAt'
             PROVE  seen'[k] >= began'[k] + Window - 2 * MaxSpan
  BY DEF Settled
<1> USE QuotaAssumption DEF IInv, Inv, TypeOK, Goto, Answer, row, local
<1>1. ASSUME NEW r \in Requests, Lookup(r)
      PROVE  seen'[k] >= began'[k] + Window - 2 * MaxSpan
  BY <1>1 DEF Lookup, Settled
<1>2. ASSUME NEW r \in Requests, Judge(r)
      PROVE  seen'[k] >= began'[k] + Window - 2 * MaxSpan
  <2>1. k # r
    BY <1>2 DEF Judge
  <2>2. QED
    BY <1>2, <2>1 DEF Judge, Settled
<1>3. ASSUME NEW r \in Requests, Reset(r)
      PROVE  seen'[k] >= began'[k] + Window - 2 * MaxSpan
  <2>1. k # r /\ pc[k] = "judge" /\ seen'[k] = seen[k] /\ began'[k] = began[k] /\ now' = now
    BY <1>3 DEF Reset
  <2>2. CASE seen[k] # resetAt
    BY <2>1, <2>2 DEF Settled
  <2>3. CASE seen[k] = resetAt
    \* The window k saw is live and r is about to reset it: it is young.
    <3>1. Live /\ r \in Racers
      BY <1>3, <2>1, <2>3 DEF Live, Racers, Reset
    <3>2. resetAt >= began[r] + Window - MaxSpan
      BY <3>1 DEF Young
    <3>3. now <= began[r] + MaxSpan /\ began[k] <= now
      BY <1>3, <2>1 DEF Timely, Reset
    <3>4. QED
      BY <2>1, <2>3, <3>2, <3>3
  <2>4. QED
    BY <2>2, <2>3
<1>4. ASSUME NEW r \in Requests, Consume(r)
      PROVE  seen'[k] >= began'[k] + Window - 2 * MaxSpan
  BY <1>4 DEF Consume, Settled
<1>5. CASE Subscription \/ UNCHANGED vars
  BY <1>5 DEF Subscription, vars, Settled
<1>6. CASE Tick
  BY <1>6 DEF Tick, Settled
<1>7. QED
  BY <1>1, <1>2, <1>3, <1>4, <1>5, <1>6 DEF Next

LEMMA BudgetStep == IInv /\ Inv' /\ [Next]_vars => Budget'
<1> SUFFICES ASSUME IInv, Inv', [Next]_vars PROVE Budget'
  OBVIOUS
<1> USE QuotaAssumption DEF IInv, Inv, TypeOK, Live, Racers, Erased, Goto, Answer,
        row, local
<1>1. ASSUME NEW r \in Requests, Lookup(r) PROVE Budget'
  <2>1. /\ Live' => Live /\ Racers' \subseteq Racers
        /\ limit' = limit /\ Erased' = Erased
    BY <1>1 DEF Lookup
  <2>2. QED
    BY <2>1, BudgetKept
<1>2. ASSUME NEW r \in Requests, Judge(r) PROVE Budget'
  <2>1. /\ Live' => Live /\ Racers' \subseteq Racers
        /\ limit' = limit /\ Erased' = Erased
    BY <1>2 DEF Judge, Expired
  <2>2. QED
    BY <2>1, BudgetKept
<1>3. ASSUME NEW r \in Requests, Reset(r) PROVE Budget'
  <2>1. CASE /\ resetAt' = newReset[r]
             /\ period' = (IF Expired(now, resetAt) THEN 0 ELSE period) + count'
    BY <1>3, <2>1, BudgetReset
  <2>2. CASE UNCHANGED <<count, resetAt, period>>
    <3>1. /\ Live' => Live /\ Racers' \subseteq Racers
          /\ limit' = limit /\ Erased' = Erased
      BY <1>3, <2>2 DEF Reset
    <3>2. QED
      BY <3>1, BudgetKept
  <2>3. QED
    BY <1>3, <2>1, <2>2 DEF Reset
<1>4. ASSUME NEW r \in Requests, Consume(r) PROVE Budget'
  <2>1. /\ Live' => Live /\ Racers' \subseteq Racers
        /\ limit' = limit /\ Erased' = Erased
    BY <1>4 DEF Consume
  <2>2. QED
    BY <2>1, BudgetKept
<1>5. CASE Subscription \/ UNCHANGED vars
  <2>1. /\ Live' => Live /\ Racers' \subseteq Racers
        /\ limit' = limit /\ Erased' = Erased
    BY <1>5 DEF Subscription, vars
  <2>2. QED
    BY <2>1, BudgetKept
<1>6. CASE Tick
  <2>1. limit' = limit /\ Erased' = Erased
    BY <1>6 DEF Tick
  <2>2. QED
    BY <1>6, <2>1, NoNewRacer, BudgetKept
<1>7. QED
  BY <1>1, <1>2, <1>3, <1>4, <1>5, <1>6 DEF Next

LEMMA IInvInit == Init => IInv
<1> SUFFICES ASSUME Init PROVE IInv
  OBVIOUS
<1>1. Inv
  BY InvInit
<1>2. Young /\ Settled /\ ~Live
  BY DEF Init, Young, Settled, Live
<1>3. Erased = 0
  BY DEF Init, Erased
<1>4. Quota <= All
  <2> DEFINE m == Cardinality(Requests)
  <2>1. m \in Nat \ {0} /\ m - 1 \in Nat
    BY QuotaAssumption, FS_CardinalityType, FS_EmptySet
  <2>2. Quota \in Nat
    BY <1>1, QuotaType, QuotaAssumption DEF Inv, TypeOK
  <2>3. Worth((m - 1) + 1) = Worth(m - 1) + Quota /\ Worth(m - 1) \in Nat
    BY <2>1, <2>2, WorthFacts
  <2>4. (m - 1) + 1 = m
    BY <2>1
  <2>5. QED
    BY <2>2, <2>3, <2>4 DEF All
<1>5. QED
  <2>1. Quota \in Nat
    BY <1>1, QuotaType, QuotaAssumption DEF Inv, TypeOK
  <2>2. QED
    BY <1>1, <1>2, <1>3, <1>4, <2>1 DEF IInv, Budget

\* In one window a user is granted at most one quota per worker, even though
\* requests that saw the old window run out may restart the new one.
THEOREM OverrunIsBounded == Spec => []OverrunBounded
<1>1. IInv /\ [Next]_vars => IInv'
  BY InvStep, YoungStep, SettledStep, BudgetStep DEF IInv
<1>2. IInv => OverrunBounded
  <2> SUFFICES ASSUME IInv PROVE OverrunBounded
    OBVIOUS
  <2>1. period - count + Quota <= All /\ count <= Quota
    BY DEF IInv, Budget, Erased, Inv, CountWithinLimit
  <2>2. period \in Nat /\ count \in Nat /\ Quota \in Nat
    BY QuotaType, QuotaAssumption DEF IInv, Inv, TypeOK
  <2>3. Cardinality(Requests) \in Nat
    BY QuotaAssumption, FS_CardinalityType
  <2>4. All \in Nat
    BY <2>2, <2>3, WorthFacts DEF All
  <2>5. period <= All
    BY <2>1, <2>2, <2>4
  <2>6. QED
    BY <2>5 DEF OverrunBounded, All, Worth
<1>3. QED
  BY IInvInit, <1>1, <1>2, PTL DEF Spec
=============================================================================
