----------------------------- MODULE SignInProofs -----------------------------
(***************************************************************************)
(* Proofs about SignIn, for any number of workers, accounts and addresses  *)
(* and any capacities, limits and windows.                                 *)
(*                                                                         *)
(* A worker about to welcome a user holds the password of the account      *)
(* (Verified): no step changes the password of an account that exists.     *)
(* An unlocked record ranks by its last failure, which is never in the     *)
(* future (Sane), so it goes before a lock that still counts.              *)
(*                                                                         *)
(* A record accounts for every recent wrong guess at its key but those     *)
(* that wait to be counted (Recorded); when it lapses, all it has counted  *)
(* is too old to matter (RunOut).  What the limiter admitted within a      *)
(* window is still in its store, or the store has been pruned since and    *)
(* only who already holds a time can add to that window (Metered).         *)
(***************************************************************************)
EXTENDS SignIn, SequenceTheorems, FiniteSetTheorems, WellFoundedInduction, TLAPS
-----------------------------------------------------------------------------
(* Sequences: what Retain keeps and Count counts                           *)

\* Induction, for a set: a number outside it would have a least one.
LEMMA Induction ==
  ASSUME NEW S, 0 \in S, \A n \in Nat : n \in S => n + 1 \in S
  PROVE  Nat \subseteq S
<1>1. ASSUME Nat \ S # {} PROVE FALSE
  <2>1. PICK x \in Nat \ S : \A y \in Nat \ S : ~(<<y, x>> \in OpToRel(<, Nat))
    <3>1. Nat \ S \subseteq Nat
      OBVIOUS
    <3> QED BY <1>1, <3>1, NatLessThanWellFounded, WFMin, Zenon
  <2>2. x - 1 \in Nat \ S
    OBVIOUS
  <2>3. <<x - 1, x>> \in OpToRel(<, Nat)
    BY <2>2 DEF OpToRel
  <2> QED BY <2>1, <2>2, <2>3
<1> QED BY <1>1

LEMMA KeptDef ==
  ASSUME NEW S, NEW s \in Seq(S), NEW gone
  PROVE  Kept(s, gone) = [i \in 0..Len(s) |->
                            IF i = 0 THEN <<>>
                            ELSE IF s[i] \in gone THEN Kept(s, gone)[i - 1]
                            ELSE Append(Kept(s, gone)[i - 1], s[i])]
<1> DEFINE Good(n, f) == f = [i \in 0..n |-> IF i = 0 THEN <<>>
                                             ELSE IF s[i] \in gone THEN f[i - 1]
                                             ELSE Append(f[i - 1], s[i])]
           G == {n \in Nat : \E f : Good(n, f)}
<1>1. 0 \in G
  <2>1. Good(0, [i \in 0..0 |-> <<>>])
    OBVIOUS
  <2> QED BY <2>1
<1>2. ASSUME NEW n \in Nat, n \in G PROVE n + 1 \in G
  <2>1. PICK f : Good(n, f)
    BY <1>2
  <2> DEFINE g == [i \in 0..(n + 1) |-> IF i = n + 1
                                        THEN IF s[i] \in gone THEN f[n] ELSE Append(f[n], s[i])
                                        ELSE f[i]]
  <2>2. \A i \in 0..n : g[i] = f[i]
    OBVIOUS
  <2>3. Good(n + 1, g)
    <3>1. ASSUME NEW i \in 0..(n + 1)
          PROVE  g[i] = IF i = 0 THEN <<>> ELSE IF s[i] \in gone THEN g[i - 1]
                        ELSE Append(g[i - 1], s[i])
      <4>1. CASE i = n + 1
        <5>1. i # 0 /\ i - 1 = n /\ g[n] = f[n]
          BY <4>1, <2>2
        <5> QED BY <5>1, <4>1
      <4>2. CASE i # n + 1
        <5>1. i \in 0..n /\ (i # 0 => i - 1 \in 0..n)
          BY <4>2
        <5>2. f[i] = IF i = 0 THEN <<>> ELSE IF s[i] \in gone THEN f[i - 1]
                     ELSE Append(f[i - 1], s[i])
          BY <5>1, <2>1
        <5> QED BY <5>1, <5>2, <2>2
      <4> QED BY <4>1, <4>2
    <3> HIDE DEF g
    <3>2. g = [i \in 0..(n + 1) |-> g[i]]
      BY DEF g
    <3>3. [i \in 0..(n + 1) |-> g[i]]
            = [i \in 0..(n + 1) |-> IF i = 0 THEN <<>> ELSE IF s[i] \in gone THEN g[i - 1]
                                    ELSE Append(g[i - 1], s[i])]
      BY <3>1
    <3> QED BY <3>2, <3>3
  <2> HIDE DEF g, Good
  <2> QED BY <2>3
<1>3. Len(s) \in G
  <2> HIDE DEF G
  <2>1. Len(s) \in Nat
    BY LenProperties
  <2> QED BY <1>1, <1>2, <2>1, Induction
<1>4. \E f : Good(Len(s), f)
  BY <1>3
<1>5. Kept(s, gone) = CHOOSE f : Good(Len(s), f)
  BY DEF Kept
<1> HIDE DEF Good
<1>6. Good(Len(s), Kept(s, gone))
  BY <1>4, <1>5
<1> QED BY <1>6 DEF Good

\* One more element kept, or none.
LEMMA KeptSteps ==
  ASSUME NEW S, NEW s \in Seq(S), NEW gone
  PROVE  /\ Kept(s, gone)[0] = <<>>
         /\ \A i \in 1..Len(s) :
               Kept(s, gone)[i] = IF s[i] \in gone THEN Kept(s, gone)[i - 1]
                                  ELSE Append(Kept(s, gone)[i - 1], s[i])
<1>1. Len(s) \in Nat
  BY LenProperties
<1> DEFINE K == Kept(s, gone)
<1>2. K = [i \in 0..Len(s) |-> IF i = 0 THEN <<>> ELSE IF s[i] \in gone THEN K[i - 1]
                               ELSE Append(K[i - 1], s[i])]
  BY KeptDef
<1> HIDE DEF K
<1>3. \A i \in 0..Len(s) : K[i] = IF i = 0 THEN <<>> ELSE IF s[i] \in gone THEN K[i - 1]
                                  ELSE Append(K[i - 1], s[i])
  BY <1>2
<1> QED BY <1>1, <1>3 DEF K

LEMMA CountFinite ==
  ASSUME NEW S, NEW s \in Seq(S), NEW Y
  PROVE  /\ IsFiniteSet({i \in DOMAIN s : s[i] \in Y})
         /\ Count(s, Y) \in Nat /\ Count(s, Y) <= Len(s)
<1>1. DOMAIN s = 1..Len(s) /\ Len(s) \in Nat
  BY LenProperties
<1>2. IsFiniteSet(1..Len(s)) /\ Cardinality(1..Len(s)) = Len(s)
  BY <1>1, FS_Interval
<1>3. {i \in DOMAIN s : s[i] \in Y} \subseteq 1..Len(s)
  BY <1>1
<1> QED BY <1>2, <1>3, FS_Subset, FS_CardinalityType DEF Count

LEMMA CountEmpty == ASSUME NEW Y PROVE Count(<<>>, Y) = 0
<1>1. {i \in DOMAIN <<>> : <<>>[i] \in Y} = {}
  OBVIOUS
<1> QED BY <1>1, FS_EmptySet DEF Count

LEMMA CountAppend ==
  ASSUME NEW S, NEW s \in Seq(S), NEW e \in S, NEW Y
  PROVE  Count(Append(s, e), Y) = IF e \in Y THEN Count(s, Y) + 1 ELSE Count(s, Y)
<1> DEFINE I == {i \in DOMAIN s : s[i] \in Y}
           J == {i \in DOMAIN Append(s, e) : Append(s, e)[i] \in Y}
<1>1. /\ DOMAIN s = 1..Len(s) /\ Len(s) \in Nat
      /\ DOMAIN Append(s, e) = 1..(Len(s) + 1)
      /\ \A i \in 1..Len(s) : Append(s, e)[i] = s[i]
      /\ Append(s, e)[Len(s) + 1] = e
  BY LenProperties, AppendProperties
<1>2. IsFiniteSet(I)
  BY CountFinite
<1>3. CASE e \in Y
  <2>1. J = I \cup {Len(s) + 1} /\ Len(s) + 1 \notin I
    BY <1>1, <1>3
  <2>2. Cardinality(I \cup {Len(s) + 1}) = Cardinality(I) + 1
    BY <1>2, <2>1, FS_AddElement
  <2> QED BY <1>3, <2>1, <2>2 DEF Count
<1>4. CASE e \notin Y
  <2>1. J = I
    BY <1>1, <1>4
  <2> QED BY <1>4, <2>1 DEF Count
<1> QED BY <1>3, <1>4

\* Everything kept was there, as often, and nothing else is.
LEMMA RetainCounts ==
  ASSUME NEW S, NEW s \in Seq(S), NEW gone, NEW Y
  PROVE  /\ Retain(s, gone) \in Seq(S)
         /\ Count(Retain(s, gone), Y) = Count(s, Y \ gone)
<1> DEFINE K == Kept(s, gone)
           C(i) == Cardinality({j \in 1..i : s[j] \in Y \ gone})
           G == {i \in Nat : i <= Len(s) => K[i] \in Seq(S) /\ Count(K[i], Y) = C(i)}
<1>1. DOMAIN s = 1..Len(s) /\ Len(s) \in Nat
  BY LenProperties
<1>2. 0 \in G
  <2>1. {j \in 1..0 : s[j] \in Y \ gone} = {}
    OBVIOUS
  <2>2. C(0) = 0
    BY <2>1, FS_EmptySet
  <2>3. K[0] = <<>>
    BY KeptSteps
  <2>4. Count(K[0], Y) = C(0)
    BY <2>2, <2>3, CountEmpty
  <2>5. K[0] \in Seq(S)
    BY <2>3, EmptySeq
  <2> HIDE DEF K, C
  <2> QED BY <2>4, <2>5
<1>3. ASSUME NEW n \in Nat, n \in G PROVE n + 1 \in G
  <2>1. SUFFICES ASSUME n + 1 <= Len(s)
                 PROVE  K[n + 1] \in Seq(S) /\ Count(K[n + 1], Y) = C(n + 1)
    OBVIOUS
  <2>2. n + 1 \in 1..Len(s) /\ s[n + 1] \in S
    BY <1>1, <2>1, ElementOfSeq
  <2>3. K[n] \in Seq(S) /\ Count(K[n], Y) = C(n)
    BY <1>1, <1>3, <2>1
  <2>4. K[n + 1] = IF s[n + 1] \in gone THEN K[n] ELSE Append(K[n], s[n + 1])
    BY <2>2, KeptSteps
  <2>5. K[n + 1] \in Seq(S)
    BY <2>2, <2>3, <2>4, AppendProperties
  <2>6. Count(K[n + 1], Y) = IF s[n + 1] \in Y \ gone THEN C(n) + 1 ELSE C(n)
    BY <2>2, <2>3, <2>4, CountAppend
  <2>7. C(n + 1) = IF s[n + 1] \in Y \ gone THEN C(n) + 1 ELSE C(n)
    <3> DEFINE P(i) == {j \in 1..i : s[j] \in Y \ gone}
    <3>1. P(n + 1) = IF s[n + 1] \in Y \ gone THEN P(n) \cup {n + 1} ELSE P(n)
      OBVIOUS
    <3>2. n + 1 \notin P(n) /\ P(n) \subseteq 1..n
      OBVIOUS
    <3>3. IsFiniteSet(P(n))
      <4>1. IsFiniteSet(1..n)
        BY FS_Interval
      <4> QED BY <3>2, <4>1, FS_Subset
    <3> HIDE DEF P
    <3>4. Cardinality(P(n) \cup {n + 1}) = Cardinality(P(n)) + 1
      BY <3>2, <3>3, FS_AddElement
    <3> QED BY <3>1, <3>4 DEF P
  <2> QED BY <2>5, <2>6, <2>7
<1>4. Len(s) \in G
  <2> HIDE DEF G
  <2> QED BY <1>1, <1>2, <1>3, Induction
<1>5. C(Len(s)) = Count(s, Y \ gone)
  BY <1>1 DEF Count
<1> QED BY <1>1, <1>4, <1>5 DEF Retain

LEMMA CountMonotone ==
  ASSUME NEW S, NEW s \in Seq(S), NEW Y, NEW Z, Y \cap S \subseteq Z
  PROVE  Count(s, Y) <= Count(s, Z)
<1>1. {i \in DOMAIN s : s[i] \in Y} \subseteq {i \in DOMAIN s : s[i] \in Z}
  BY ElementOfSeq, LenProperties
<1>2. IsFiniteSet({i \in DOMAIN s : s[i] \in Z})
  BY CountFinite
<1> QED BY <1>1, <1>2, FS_Subset DEF Count

LEMMA CountAll ==
  ASSUME NEW S, NEW s \in Seq(S), NEW Y, S \subseteq Y
  PROVE  Count(s, Y) = Len(s)
<1>1. {i \in DOMAIN s : s[i] \in Y} = 1..Len(s) /\ Len(s) \in Nat
  BY ElementOfSeq, LenProperties
<1>2. \A n \in Nat : Cardinality(1..n) = n
  BY FS_Interval
<1>3. Cardinality(1..Len(s)) = Len(s)
  BY <1>1, <1>2
<1> QED BY <1>1, <1>3 DEF Count

LEMMA CountNone ==
  ASSUME NEW S, NEW s \in Seq(S), NEW Y, Y \cap S = {}
  PROVE  Count(s, Y) = 0
<1>1. {i \in DOMAIN s : s[i] \in Y} = {}
  BY ElementOfSeq, LenProperties
<1> QED BY <1>1, FS_EmptySet DEF Count

\* What no element is outside of.
LEMMA SeqWithout ==
  ASSUME NEW S, NEW s \in Seq(S), NEW T, Count(s, S \ T) = 0
  PROVE  s \in Seq(T)
<1>1. {i \in DOMAIN s : s[i] \in S \ T} = {}
  <2>1. IsFiniteSet({i \in DOMAIN s : s[i] \in S \ T})
    BY CountFinite
  <2> QED BY <2>1, FS_EmptySet DEF Count
<1>2. \A i \in 1..Len(s) : s[i] \in T
  BY <1>1, ElementOfSeq, LenProperties
<1>3. s \in [1..Len(s) -> T] /\ Len(s) \in Nat
  BY <1>2, LenProperties
<1> QED BY <1>3, SeqDef

-----------------------------------------------------------------------------
(* The inductive invariant of the stores and the accounts                  *)

\* The lockout store holds records of keys, none failed in the future, and no
\* more of them than it has room for.
Sane == /\ DOMAIN lockout \subseteq Keys
        /\ \A k \in DOMAIN lockout : lockout[k] \in LoginAttempt /\ lockout[k].last <= now
        /\ Cardinality(DOMAIN lockout) <= LockCap

\* The workers: a time read is never in the future, a busy one has a request.
Busy == /\ req \in [Workers -> Requests \cup {Nothing}]
        /\ pc \in [Workers -> Stages]
        /\ \A w \in Workers : pc[w] # "idle" => req[w] \in Requests
        /\ clock \in [Workers -> Nat] /\ \A w \in Workers : clock[w] <= now
        /\ now \in Nat

\* Whoever is about to rehash has a password that the first hash of the account,
\* one of an earlier scheme, cannot tell from its own.
Verified == \A w \in Workers :
               pc[w] = "rehash" => /\ original[req[w].email] # Nothing
                                   /\ original[req[w].email].kind # "scrypt"
                                   /\ Same(original[req[w].email].kind,
                                           original[req[w].email].pass, req[w].pass)

Owned == /\ auth \in [Emails -> Hashes \cup {Nothing}]
         /\ original \in [Emails -> Hashes \cup {Nothing}]
         /\ PasswordKept

IInv == Sane /\ Busy /\ Verified /\ Owned
-----------------------------------------------------------------------------
(* The lockout store                                                       *)

LEMMA Bounds == LockCap \in Nat /\ LockCap >= 1 /\ IsFiniteSet(Keys)
                /\ Nothing \notin Hashes /\ Nothing \notin Requests
BY SignInAssumption

\* What may remain of the store is a part of it.
LEMMA Remaining ==
  ASSUME NEW map, NEW rank, NEW cap, NEW D \in Survivors(map, rank, cap)
  PROVE  /\ D \subseteq DOMAIN map
         /\ Cardinality(D) = IF Cardinality(DOMAIN map) <= cap
                             THEN Cardinality(DOMAIN map) ELSE cap
BY DEF Survivors

LEMMA Roomy ==
  ASSUME Sane, NEW k \in Keys, NEW D \in MakeRoom(k)
  PROVE  /\ D \subseteq DOMAIN lockout
         /\ IsFiniteSet(D \cup {k})
         /\ Cardinality(D \cup {k}) <= LockCap
<1>1. D \subseteq DOMAIN lockout
  BY Remaining DEF MakeRoom
<1>2. IsFiniteSet(DOMAIN lockout) /\ IsFiniteSet(D) /\ IsFiniteSet(D \cup {k})
  BY <1>1, Bounds, FS_Subset, FS_AddElement DEF Sane
<1>3. Cardinality(DOMAIN lockout) \in Nat /\ Cardinality(D) \in Nat
  BY <1>2, FS_CardinalityType
<1>4. Cardinality(D \cup {k}) = IF k \in D THEN Cardinality(D) ELSE Cardinality(D) + 1
  BY <1>2, FS_AddElement
<1>5. CASE k \notin DOMAIN lockout /\ Cardinality(DOMAIN lockout) >= LockCap
  <2>1. D \in Survivors(lockout, LockRank, LockCap - 1)
    BY <1>5 DEF MakeRoom
  <2>2. Cardinality(D) = LockCap - 1
    BY <2>1, <1>3, <1>5, Bounds, Remaining
  <2> QED BY <2>2, <1>1, <1>2, <1>4, Bounds
<1>6. CASE ~(k \notin DOMAIN lockout /\ Cardinality(DOMAIN lockout) >= LockCap)
  <2>1. D = DOMAIN lockout
    BY <1>6 DEF MakeRoom
  <2>2. Cardinality(DOMAIN lockout) <= LockCap
    BY DEF Sane
  <2> QED BY <2>1, <2>2, <1>1, <1>2, <1>3, <1>4, <1>6, Bounds
<1> QED BY <1>1, <1>2, <1>5, <1>6

\* Dropping records keeps the store sane.
LEMMA Dropped ==
  ASSUME Sane, NEW D \in SUBSET DOMAIN lockout, lockout' = Keep(lockout, D),
         now' = now
  PROVE  Sane'
<1>1. DOMAIN lockout' = D /\ \A k \in D : lockout'[k] = lockout[k]
  BY DEF Keep
<1>2. IsFiniteSet(DOMAIN lockout)
  BY Bounds, FS_Subset DEF Sane
<1>3. Cardinality(D) <= Cardinality(DOMAIN lockout)
      /\ Cardinality(D) \in Nat /\ Cardinality(DOMAIN lockout) \in Nat
  BY <1>2, FS_Subset, FS_CardinalityType
<1> QED BY <1>1, <1>3, Bounds DEF Sane

\* So does counting a failure at a time that has passed.
LEMMA Failed ==
  ASSUME Sane, NEW k \in Keys, NEW D \in MakeRoom(k), NEW t \in Nat, t <= now,
         NEW old, old = IF k \in D THEN lockout[k] ELSE FirstFailure(t),
         lockout' = Put(Keep(lockout, D), k, Counted(old, t)), now' = now
  PROVE  Sane'
<1>1. /\ D \subseteq DOMAIN lockout
      /\ Cardinality(D \cup {k}) <= LockCap
  BY Roomy
<1>2. old \in LoginAttempt
  BY <1>1 DEF Sane, FirstFailure, LoginAttempt, NotLocked
<1>3. Counted(old, t) \in LoginAttempt /\ Counted(old, t).last = t
  BY <1>2, SignInAssumption DEF Counted, LoginAttempt, NotLocked
<1>4. DOMAIN lockout' = D \cup {k}
  BY <1>1 DEF Put, Keep
<1>5. \A x \in D \cup {k} : lockout'[x] = IF x = k THEN Counted(old, t) ELSE lockout[x]
  BY <1>1 DEF Put, Keep
<1> QED BY <1>1, <1>3, <1>4, <1>5 DEF Sane

\* A lock that still counts is not dropped while an unlocked record remains.
LEMMA LocksLast ==
  ASSUME Sane, now \in Nat, NEW map, NEW cap,
         DOMAIN map \subseteq DOMAIN lockout,
         NEW D \in Survivors(map, LockRank, cap),
         NEW k \in DOMAIN map \ D, lockout[k].until > now,
         NEW x \in D
  PROVE  lockout[x].until # NotLocked
<1>1. D \subseteq DOMAIN lockout /\ k \in DOMAIN lockout
  BY Remaining
<1>2. LockRank[k] <= LockRank[x]
  BY DEF Survivors
<1>3. lockout[k] \in LoginAttempt /\ lockout[x] \in LoginAttempt /\ lockout[x].last <= now
  BY <1>1 DEF Sane
<1>4. LockRank[k] = lockout[k].until
  BY <1>1, <1>3 DEF LockRank, NotLocked, LoginAttempt
<1>5. ASSUME lockout[x].until = NotLocked PROVE FALSE
  <2>1. LockRank[x] = lockout[x].last
    BY <1>1, <1>5 DEF LockRank
  <2> QED BY <2>1, <1>2, <1>3, <1>4 DEF LoginAttempt
<1> QED BY <1>5
-----------------------------------------------------------------------------
(* The workers and the accounts                                            *)

\* An answered worker is idle; the others stand where they stood.
LEMMA Answered ==
  ASSUME Busy, NEW w \in Workers, Answer(w), now' = now
  PROVE  /\ Busy' /\ pc'[w] = "idle"
         /\ \A v \in Workers : pc'[v] = "rehash" => pc[v] = "rehash" /\ req'[v] = req[v]
<1>1. /\ req' \in [Workers -> Requests \cup {Nothing}]
      /\ pc' \in [Workers -> Stages]
      /\ clock' \in [Workers -> Nat]
  BY DEF Answer, NoClock, Busy, Stages
<1>2. \A v \in Workers : /\ pc'[v] # "idle" => pc'[v] = pc[v] /\ req'[v] = req[v]
                         /\ clock'[v] = clock[v] \/ clock'[v] = 0
  BY DEF Answer, NoClock, Busy
<1>3. pc'[w] = "idle"
  BY DEF Answer, Busy
<1> QED BY <1>1, <1>2, <1>3 DEF Busy

\* A worker that moves on keeps its request.
LEMMA Moved ==
  ASSUME Busy, NEW w \in Workers, pc[w] # "idle", NEW l \in Stages, Goto(w, l),
         UNCHANGED clock \/ NoClock(w) \/ ReadClock(w), now' = now
  PROVE  /\ Busy' /\ pc'[w] = l /\ req' = req
         /\ \A v \in Workers \ {w} : pc'[v] = pc[v]
<1>1. /\ req' = req /\ pc' \in [Workers -> Stages] /\ clock' \in [Workers -> Nat]
  BY DEF Goto, NoClock, ReadClock, Busy
<1>2. \A v \in Workers : clock'[v] \in {clock[v], 0, now}
  BY DEF NoClock, ReadClock, Busy
<1>3. pc'[w] = l /\ \A v \in Workers \ {w} : pc'[v] = pc[v]
  BY DEF Goto, Busy
<1> QED BY <1>1, <1>2, <1>3 DEF Busy

\* Nobody new is about to rehash, and the accounts stay: nothing to show.
LEMMA NobodyNew ==
  ASSUME Verified, Owned, UNCHANGED <<auth, original>>,
         \A v \in Workers : pc'[v] = "rehash" => pc[v] = "rehash" /\ req'[v] = req[v]
  PROVE  Verified' /\ Owned'
BY DEF Verified, Owned, Same, PasswordKept

LEMMA SaneStays ==
  ASSUME Sane, UNCHANGED <<lockout, now>>
  PROVE  Sane'
BY DEF Sane

LEMMA InitInv == Init => IInv
<1> SUFFICES ASSUME Init PROVE IInv
  OBVIOUS
<1>1. Sane
  <2>1. DOMAIN lockout = {}
    BY DEF Init
  <2> QED BY <2>1, FS_EmptySet, Bounds DEF Sane
<1>2. Busy
  BY DEF Init, Busy, Stages
<1>3. Verified
  BY DEF Init, Verified
<1>4. auth \in [Emails -> Hashes \cup {Nothing}]
  BY DEF Init
<1>5. original \in [Emails -> Hashes \cup {Nothing}] /\ PasswordKept
  BY <1>4 DEF Init, PasswordKept
<1> QED BY <1>1, <1>2, <1>3, <1>4, <1>5 DEF IInv, Owned
-----------------------------------------------------------------------------
(* The actions                                                             *)

LEMMA ArriveKeeps ==
  ASSUME IInv, NEW w \in Workers, NEW r \in Requests, Arrive(w, r)
  PROVE  IInv'
<1>1. Sane'
  BY SaneStays DEF Arrive, stores, IInv
<1>2. /\ req' \in [Workers -> Requests \cup {Nothing}]
      /\ pc' \in [Workers -> Stages]
      /\ clock' \in [Workers -> Nat] /\ now' = now
  BY DEF Arrive, ReadClock, IInv, Busy, Stages
<1>3. \A v \in Workers : IF v = w THEN pc'[v] = "limit" /\ req'[v] = r /\ clock'[v] = now
                         ELSE pc'[v] = pc[v] /\ req'[v] = req[v] /\ clock'[v] = clock[v]
  BY DEF Arrive, ReadClock, IInv, Busy
<1>4. Busy'
  BY <1>2, <1>3 DEF IInv, Busy
<1>5. Verified' /\ Owned'
  BY <1>3, NobodyNew DEF Arrive, histories, IInv
<1> QED BY <1>1, <1>4, <1>5 DEF IInv

LEMMA LimitKeeps ==
  ASSUME IInv, NEW w \in Workers, EnforceAuthRateLimit(w)
  PROVE  IInv'
<1>1. Sane' /\ now' = now /\ UNCHANGED <<auth, original>>
  BY SaneStays DEF EnforceAuthRateLimit, bounds, IInv
<1>2. pc[w] = "limit" /\ (Answer(w) \/ (Goto(w, "body") /\ NoClock(w)))
  BY DEF EnforceAuthRateLimit
<1>3. Busy' /\ \A v \in Workers : pc'[v] = "rehash" => pc[v] = "rehash" /\ req'[v] = req[v]
  <2>1. CASE Answer(w)
    BY <2>1, <1>1, Answered DEF IInv
  <2>2. CASE Goto(w, "body") /\ NoClock(w)
    BY <2>2, <1>1, <1>2, Moved DEF IInv, Stages
  <2> QED BY <1>2, <2>1, <2>2
<1> QED BY <1>1, <1>3, NobodyNew DEF IInv

LEMMA BadBodyKeeps ==
  ASSUME IInv, NEW w \in Workers, BadBody(w)
  PROVE  IInv'
BY SaneStays, Answered, NobodyNew DEF BadBody, stores, bounds, histories, IInv

LEMMA IsLockedKeeps ==
  ASSUME IInv, NEW w \in Workers, IsLocked(w)
  PROVE  IInv'
<1>1. now' = now /\ UNCHANGED <<auth, original>> /\ pc[w] = "body"
  BY DEF IsLocked, bounds, histories
<1>2. Answer(w) \/ (Goto(w, "verify") /\ UNCHANGED clock)
  BY DEF IsLocked
<1>3. lockout' = lockout \/ lockout' = Forget(lockout, Key(w))
  BY DEF IsLocked
<1>4. Sane'
  BY <1>1, <1>3, SaneStays, Dropped DEF Forget, IInv
<1>5. Busy' /\ \A v \in Workers : pc'[v] = "rehash" => pc[v] = "rehash" /\ req'[v] = req[v]
  <2>1. CASE Answer(w)
    BY <2>1, <1>1, Answered DEF IInv
  <2>2. CASE Goto(w, "verify") /\ UNCHANGED clock
    BY <2>2, <1>1, Moved DEF IInv, Stages
  <2> QED BY <1>2, <2>1, <2>2
<1> QED BY <1>1, <1>4, <1>5, NobodyNew DEF IInv

\* A worker comes to rehash only with a password that opens the account, whose hash
\* is then still the first one.
LEMMA VerifyKeeps ==
  ASSUME IInv, NEW w \in Workers, VerifyPassword(w)
  PROVE  IInv'
<1>1. now' = now /\ UNCHANGED <<auth, original, lockout>> /\ pc[w] = "verify"
  BY DEF VerifyPassword, bounds, stores
<1>2. Sane'
  BY <1>1, SaneStays DEF IInv
<1>3. CASE Answer(w)
  BY <1>1, <1>2, <1>3, Answered, NobodyNew DEF IInv
<1>4. CASE Goto(w, "failed") /\ ReadClock(w)
  BY <1>1, <1>2, <1>4, Moved, NobodyNew DEF IInv, Stages
<1>5. CASE Goto(w, "user") /\ UNCHANGED clock
  BY <1>1, <1>2, <1>5, Moved, NobodyNew DEF IInv, Stages
<1>6. CASE /\ Opens(auth[req[w].email], req[w].pass) /\ auth[req[w].email].kind # "scrypt"
           /\ Goto(w, "rehash") /\ UNCHANGED clock
  <2>1. /\ Busy' /\ pc'[w] = "rehash" /\ req' = req
        /\ \A v \in Workers \ {w} : pc'[v] = pc[v]
    BY <1>1, <1>6, Moved DEF IInv, Stages
  <2>2. req[w].email \in Emails
    BY <1>1 DEF IInv, Busy, Requests
  <2>3. original[req[w].email] = auth[req[w].email]
    BY <1>6, <2>2 DEF IInv, Owned, PasswordKept
  <2>4. Verified'
    BY <1>1, <1>6, <2>1, <2>3 DEF IInv, Verified, Opens, Same
  <2>5. Owned'
    BY <1>1 DEF IInv, Owned, PasswordKept, Same
  <2> QED BY <1>2, <2>1, <2>4, <2>5 DEF IInv
<1> QED BY <1>3, <1>4, <1>5, <1>6 DEF VerifyPassword, NeedsRehash

LEMMA FailureKeeps ==
  ASSUME IInv, NEW w \in Workers, RecordFailure(w)
  PROVE  IInv'
<1>1. now' = now /\ UNCHANGED <<auth, original>> /\ Answer(w) /\ pc[w] = "failed"
  BY DEF RecordFailure, bounds
<1>2. Key(w) \in Keys /\ clock[w] \in Nat /\ clock[w] <= now
  BY <1>1 DEF Key, Keys, IInv, Busy, Requests
<1>3. PICK D \in MakeRoom(Key(w)) :
        lockout' = Put(Keep(lockout, D), Key(w),
                       Counted(IF Key(w) \in D THEN lockout[Key(w)] ELSE FirstFailure(clock[w]),
                               clock[w]))
  BY DEF RecordFailure
<1>4. Sane'
  BY <1>1, <1>2, <1>3, Failed DEF IInv
<1> QED BY <1>1, <1>4, Answered, NobodyNew DEF IInv

LEMMA NewHash ==
  ASSUME NEW p \in Passwords
  PROVE  /\ HashPassword(p) \in Hashes /\ HashPassword(p) # Nothing
         /\ HashPassword(p).pass = p /\ HashPassword(p).kind = "scrypt"
<1>1. HashPassword(p) \in Hashes
  BY SignInAssumption DEF HashPassword, Hashes
<1> QED BY <1>1, Bounds DEF HashPassword

\* A rehash stores a password the first hash of the account cannot tell from its own.
LEMMA RehashKeeps ==
  ASSUME IInv, NEW w \in Workers, Rehash(w)
  PROVE  IInv'
<1>1. UNCHANGED <<now, original, lockout, clock>> /\ pc[w] = "rehash" /\ Goto(w, "user")
  BY DEF Rehash, bounds, histories, stores
<1>2. Sane'
  BY <1>1, SaneStays DEF IInv
<1>3. Busy' /\ \A v \in Workers : pc'[v] = "rehash" => pc[v] = "rehash" /\ req'[v] = req[v]
  BY <1>1, Moved DEF IInv, Stages
<1>4. CASE auth' = auth
  BY <1>1, <1>2, <1>3, <1>4, NobodyNew DEF IInv
<1>5. CASE auth' = [auth EXCEPT ![req[w].email] = HashPassword(req[w].pass)]
  <2>1. req[w].email \in Emails /\ req[w].pass \in Passwords
    BY <1>1 DEF IInv, Busy, Requests
  <2>2. PICK h \in Hashes : /\ h = HashPassword(req[w].pass) /\ h # Nothing
                            /\ h.pass = req[w].pass /\ h.kind = "scrypt"
    BY <2>1, NewHash
  <2>3. /\ auth' \in [Emails -> Hashes \cup {Nothing}]
        /\ \A e \in Emails : auth'[e] = IF e = req[w].email THEN h ELSE auth[e]
    BY <1>5, <2>2 DEF IInv, Owned
  <2>4. Verified'
    BY <1>1, <1>3 DEF IInv, Verified, Same
  <2>5. PasswordKept'
    BY <1>1, <2>2, <2>3 DEF IInv, Owned, Verified, PasswordKept, Same
  <2>6. Owned'
    BY <1>1, <2>3, <2>5 DEF IInv, Owned
  <2> QED BY <1>2, <1>3, <2>4, <2>6 DEF IInv
<1> QED BY <1>4, <1>5 DEF Rehash

LEMMA WelcomeKeeps ==
  ASSUME IInv, NEW w \in Workers, Welcome(w)
  PROVE  IInv'
<1>1. now' = now /\ UNCHANGED <<auth, original>> /\ Answer(w) /\ pc[w] = "user"
  BY DEF Welcome, bounds
<1>2. lockout' = lockout \/ lockout' = Forget(lockout, Key(w))
  BY DEF Welcome
<1>3. Sane'
  BY <1>1, <1>2, SaneStays, Dropped DEF Forget, IInv
<1> QED BY <1>1, <1>3, Answered, NobodyNew DEF IInv

\* A sign-up writes only where there is no account.
LEMMA CreateKeeps ==
  ASSUME IInv, NEW w \in Workers, CreateAccount(w)
  PROVE  IInv'
<1>1. now' = now /\ UNCHANGED lockout /\ Answer(w) /\ pc[w] = "body"
  BY DEF CreateAccount, bounds, stores
<1>2. Sane'
  BY <1>1, SaneStays DEF IInv
<1>3. Busy' /\ \A v \in Workers : pc'[v] = "rehash" => pc[v] = "rehash" /\ req'[v] = req[v]
  BY <1>1, Answered DEF IInv
<1>4. CASE UNCHANGED <<auth, original>>
  BY <1>2, <1>3, <1>4, NobodyNew DEF IInv
<1>5. CASE /\ auth[req[w].email] = Nothing
           /\ auth' = [auth EXCEPT ![req[w].email] = HashPassword(req[w].pass)]
           /\ original' = [original EXCEPT ![req[w].email] = HashPassword(req[w].pass)]
  <2>1. req[w].email \in Emails /\ req[w].pass \in Passwords
    BY <1>1 DEF IInv, Busy, Requests
  <2>2. PICK h \in Hashes : h = HashPassword(req[w].pass) /\ h # Nothing
    BY <2>1, NewHash
  <2>3. /\ auth' \in [Emails -> Hashes \cup {Nothing}]
        /\ original' \in [Emails -> Hashes \cup {Nothing}]
        /\ \A e \in Emails : /\ auth'[e] = IF e = req[w].email THEN h ELSE auth[e]
                             /\ original'[e] = IF e = req[w].email THEN h ELSE original[e]
    BY <1>5, <2>2 DEF IInv, Owned
  <2>4. original[req[w].email] = Nothing
    BY <1>5, <2>1 DEF IInv, Owned, PasswordKept
  <2>5. Verified'
    <3>1. ASSUME NEW v \in Workers, pc'[v] = "rehash"
          PROVE  req'[v] = req[v] /\ pc[v] = "rehash" /\ req[v].email \in Emails
      BY <1>3, <3>1 DEF IInv, Busy, Requests
    <3> QED BY <2>3, <2>4, <3>1 DEF IInv, Verified, Same
  <2>6. PasswordKept'
    BY <2>2, <2>3 DEF IInv, Owned, PasswordKept, Same
  <2> QED BY <1>2, <1>3, <2>3, <2>5, <2>6 DEF IInv, Owned
<1> QED BY <1>4, <1>5 DEF CreateAccount

LEMMA CleanupKeeps ==
  ASSUME IInv, Cleanup
  PROVE  IInv'
<1>1. UNCHANGED <<auth, original, now, req, pc, clock>>
  BY DEF Cleanup, bounds, workers
<1>2. PICK D, active : /\ active \subseteq DOMAIN lockout
                       /\ D \in Survivors(Keep(lockout, active), LockRank, LockCap)
                       /\ lockout' = Keep(lockout, D)
  BY DEF Cleanup
<1>3. D \subseteq DOMAIN lockout
  BY <1>2, Remaining DEF Keep
<1>4. Sane'
  BY <1>1, <1>2, <1>3, Dropped DEF IInv
<1>5. Busy'
  BY <1>1 DEF IInv, Busy
<1> QED BY <1>1, <1>4, <1>5, NobodyNew DEF IInv

LEMMA TickKeeps ==
  ASSUME IInv, Tick
  PROVE  IInv'
<1>1. /\ UNCHANGED <<lockout, auth, original, req, pc, clock>>
      /\ now \in Nat /\ now' = now + 1
  BY DEF Tick, stores, workers, IInv, Busy
<1>2. Sane'
  BY <1>1 DEF IInv, Sane, LoginAttempt
<1>3. Busy'
  BY <1>1 DEF IInv, Busy
<1> QED BY <1>1, <1>2, <1>3, NobodyNew DEF IInv

LEMMA Inductive == IInv /\ [Next]_vars => IInv'
<1> SUFFICES ASSUME IInv, [Next]_vars PROVE IInv'
  OBVIOUS
<1>1. ASSUME NEW w \in Workers, Handler(w) PROVE IInv'
  BY <1>1, ArriveKeeps, LimitKeeps, BadBodyKeeps, IsLockedKeeps, VerifyKeeps,
     FailureKeeps, RehashKeeps, WelcomeKeeps, CreateKeeps DEF Handler
<1>2. CASE Cleanup
  BY <1>2, CleanupKeeps
<1>3. CASE Tick
  BY <1>3, TickKeeps
<1>4. CASE UNCHANGED vars
  <2>1. UNCHANGED <<lockout, auth, original, req, pc, clock, now>>
    BY <1>4 DEF vars, stores, workers, bounds, histories
  <2>2. Sane' /\ Busy'
    BY <2>1 DEF IInv, Sane, Busy
  <2> QED BY <2>1, <2>2, NobodyNew DEF IInv
<1> QED BY <1>1, <1>2, <1>3, <1>4 DEF Next
-----------------------------------------------------------------------------
(* Theorems                                                                *)

\* Whatever the workers, cleanups and the clock do, the stores, requests and
\* accounts are in a state of the inductive invariant.
THEOREM Invariance == Spec => []IInv
BY InitInv, Inductive, PTL DEF Spec

\* However sign-ups, sign-ins and rehashes of the same e-mail interleave, the hash an
\* account started with gives way only to one of a password it could not tell from
\* its own, and only if it is of an earlier scheme.
THEOREM PasswordsKept == Spec => []PasswordKept
<1>1. IInv => PasswordKept
  BY DEF IInv, Owned
<1> QED BY <1>1, Invariance, PTL

\* The lockout store never holds more records than its capacity, the one being
\* inserted included.
THEOREM LockoutBounded == Spec => [](Cardinality(DOMAIN lockout) <= LockCap)
<1>1. IInv => Cardinality(DOMAIN lockout) <= LockCap
  BY DEF IInv, Sane
<1> QED BY <1>1, Invariance, PTL

\* No step drops a lock that still counts while it leaves an unlocked record,
\* but the success of a sign-in with that very key.
THEOREM LocksOutlive == Spec => LocksOutliveJunk
<1> DEFINE A == \A k \in Keys : Live(k) /\ Evicted(k) =>
                   \/ \E w \in Workers : pc[w] = "user" /\ Key(w) = k
                   \/ \A x \in DOMAIN lockout \cap DOMAIN lockout' : lockout[x].until # NotLocked
<1>1. IInv /\ [Next]_vars => [A]_vars
  <2> SUFFICES ASSUME IInv, Next, NEW k \in Keys, Live(k), Evicted(k),
                      NEW x \in DOMAIN lockout \cap DOMAIN lockout',
                      lockout[x].until = NotLocked
               PROVE  \E w \in Workers : pc[w] = "user" /\ Key(w) = k
    BY Zenon DEF A
  <2>1. Sane /\ now \in Nat /\ k \in DOMAIN lockout /\ lockout[k].until > now
    BY DEF IInv, Busy, Live
  <2>2. lockout' # lockout
    BY DEF Evicted
  <2>3. ASSUME NEW w \in Workers, IsLocked(w) PROVE FALSE
    <3>1. /\ lockout' = Forget(lockout, Key(w))
          /\ Key(w) \in DOMAIN lockout => now >= lockout[Key(w)].until
      BY <2>2, <2>3 DEF IsLocked
    <3>2. DOMAIN lockout' = DOMAIN lockout \ {Key(w)}
      BY <3>1 DEF Forget, Keep
    <3>3. k = Key(w)
      BY <3>2, <2>1 DEF Evicted
    <3>4. lockout[k].until \in Nat
      BY <2>1 DEF Sane, LoginAttempt
    <3> QED BY <3>1, <3>3, <3>4, <2>1
  <2>4. ASSUME NEW w \in Workers, Welcome(w)
        PROVE  pc[w] = "user" /\ Key(w) = k
    <3>1. pc[w] = "user" /\ lockout' = Forget(lockout, Key(w))
      BY <2>2, <2>4 DEF Welcome
    <3>2. DOMAIN lockout' = DOMAIN lockout \ {Key(w)}
      BY <3>1 DEF Forget, Keep
    <3> QED BY <3>1, <3>2, <2>1 DEF Evicted
  <2>5. ASSUME NEW w \in Workers, RecordFailure(w) PROVE FALSE
    <3>1. PICK D \in MakeRoom(Key(w)) : DOMAIN lockout' = D \cup {Key(w)}
      <4>1. PICK D \in MakeRoom(Key(w)) :
              lockout' = Put(Keep(lockout, D), Key(w),
                             Counted(IF Key(w) \in D THEN lockout[Key(w)]
                                     ELSE FirstFailure(clock[w]), clock[w]))
        BY <2>5 DEF RecordFailure
      <4>2. D \subseteq DOMAIN lockout
        BY Remaining DEF MakeRoom
      <4> QED BY <4>1, <4>2 DEF Put, Keep
    <3>2. k \notin D /\ k # Key(w)
      BY <3>1 DEF Evicted
    <3>3. Key(w) \notin DOMAIN lockout /\ D \in Survivors(lockout, LockRank, LockCap - 1)
      BY <3>2, <2>1 DEF MakeRoom
    <3>4. x \in D
      BY <3>1, <3>3
    <3> QED BY <3>2, <3>3, <3>4, <2>1, LocksLast
  <2>6. ASSUME Cleanup PROVE FALSE
    <3> DEFINE active == {i \in DOMAIN lockout :
                            IF lockout[i].until # NotLocked THEN now < lockout[i].until
                            ELSE now <= lockout[i].last + Window}
    <3>1. PICK D \in Survivors(Keep(lockout, active), LockRank, LockCap) :
            lockout' = Keep(lockout, D)
      BY <2>6 DEF Cleanup
    <3>2. DOMAIN Keep(lockout, active) = active
      BY DEF Keep
    <3>3. lockout[k].until \in Nat
      BY <2>1 DEF Sane, LoginAttempt
    <3>4. k \in active
      BY <2>1, <3>3 DEF NotLocked
    <3> HIDE DEF active
    <3>5. D \subseteq active
      BY <3>1, <3>2, Remaining
    <3>6. DOMAIN lockout' = DOMAIN lockout \cap D
      BY <3>1 DEF Keep
    <3>7. active \subseteq DOMAIN lockout
      BY DEF active
    <3>8. k \in active \ D /\ x \in D
      BY <3>4, <3>6, <2>1 DEF Evicted
    <3> QED BY <3>1, <3>2, <3>7, <3>8, <2>1, LocksLast
  <2>7. ASSUME NEW w \in Workers, Handler(w)
        PROVE  IsLocked(w) \/ RecordFailure(w) \/ Welcome(w)
    BY <2>2, <2>7 DEF Handler, Arrive, EnforceAuthRateLimit, BadBody, VerifyPassword,
                      Rehash, CreateAccount, stores
  <2>8. ~Tick
    BY <2>2 DEF Tick, stores
  <2> QED BY <2>3, <2>4, <2>5, <2>6, <2>7, <2>8 DEF Next
<1> QED BY <1>1, Invariance, PTL DEF Spec, LocksOutliveJunk
-----------------------------------------------------------------------------
(* Wrong guesses                                                           *)

\* The workers whose wrong guess at an account is not counted yet, and those who have
\* passed the check for a lock and may still guess.
Failing(k) == {w \in Workers : pc[w] = "failed" /\ Key(w) = k}
Guessing(k) == {w \in Workers : pc[w] = "verify" /\ Key(w) = k}

Above(y) == {n \in Nat : n > y}
Recent == {n \in 0..now : n > now - Span}

\* With a record: the guesses made since it was last written are not counted yet; before
\* it locks it has counted the others; when it locks, who is past the check may go on.
Recorded(k) ==
    /\ Count(tries[k], Above(lockout[k].last + Skew)) <= Cardinality(Failing(k))
    /\ lockout[k].attempts >= Threshold =>
          /\ lockout[k].until = lockout[k].last + Duration
          /\ Len(tries[k]) + Cardinality(Guessing(k)) < Threshold + Cardinality(Workers)
    /\ lockout[k].attempts < Threshold =>
          /\ lockout[k].until = NotLocked
          /\ Len(tries[k]) <= lockout[k].attempts + Cardinality(Failing(k))

Unrecorded(k) == Len(tries[k]) <= Cardinality(Failing(k))

Tracked(k) == IF k \in DOMAIN lockout THEN Recorded(k) ELSE Unrecorded(k)

Timely == \A w \in Workers : pc[w] \in {"limit", "failed"} => now <= clock[w] + Skew

GuessInv == /\ tries \in [Keys -> Seq(Recent)]
            /\ Timely
            /\ \A k \in Keys : Tracked(k)

LEMMA Numbers ==
  /\ Threshold \in Nat /\ Threshold >= 1 /\ Duration \in Nat /\ Window \in Nat
  /\ Skew \in Nat /\ Span \in Nat /\ Span >= 1 /\ Window <= Duration
  /\ Window = Span + Skew
  /\ RateLimit \in Nat /\ RateLimit >= 1 /\ RateWindow \in Nat /\ RateWindow >= 1
  /\ RateCap \in Nat /\ RateCap >= 1
BY SignInAssumption DEF Span

\* A worker is in one place at a time.
LEMMA Heads ==
  ASSUME NEW k
  PROVE  /\ IsFiniteSet(Failing(k)) /\ IsFiniteSet(Guessing(k))
         /\ Cardinality(Failing(k)) \in Nat /\ Cardinality(Guessing(k)) \in Nat
         /\ Cardinality(Workers) \in Nat
         /\ Cardinality(Failing(k)) + Cardinality(Guessing(k)) <= Cardinality(Workers)
<1>1. IsFiniteSet(Workers)
  BY SignInAssumption
<1>2. Failing(k) \subseteq Workers /\ Guessing(k) \subseteq Workers
      /\ Failing(k) \cap Guessing(k) = {} /\ Failing(k) \cup Guessing(k) \subseteq Workers
  BY DEF Failing, Guessing
<1>3. IsFiniteSet(Failing(k)) /\ IsFiniteSet(Guessing(k))
  BY <1>1, <1>2, FS_Subset
<1>4. Cardinality(Failing(k)) \in Nat /\ Cardinality(Guessing(k)) \in Nat
      /\ Cardinality(Workers) \in Nat
  BY <1>1, <1>3, FS_CardinalityType
<1>5. Cardinality(Failing(k) \cup Guessing(k))
        = Cardinality(Failing(k)) + Cardinality(Guessing(k)) - Cardinality({})
  BY <1>2, <1>3, FS_Union
<1>6. Cardinality(Failing(k) \cup Guessing(k)) <= Cardinality(Workers)
  BY <1>1, <1>2, FS_Subset
<1> QED BY <1>3, <1>4, <1>5, <1>6, FS_EmptySet

\* The guesses of a key are a sequence of recent times.
LEMMA Tries ==
  ASSUME GuessInv, now \in Nat, NEW k \in Keys, NEW Y
  PROVE  /\ tries[k] \in Seq(Recent) /\ tries[k] \in Seq(Nat)
         /\ Len(tries[k]) \in Nat /\ Count(tries[k], Y) \in Nat
         /\ Count(tries[k], Y) <= Len(tries[k])
<1>1. tries[k] \in Seq(Recent) /\ Recent \subseteq Nat
  BY DEF GuessInv, Recent
<1> QED BY <1>1, SeqMonotonic, LenProperties, CountFinite

\* What nobody has changed stays tracked; who is past the check may leave.
LEMMA TrackedStays ==
  ASSUME NEW k \in Keys, Tracked(k), tries'[k] = tries[k],
         k \in DOMAIN lockout' <=> k \in DOMAIN lockout,
         k \in DOMAIN lockout => lockout'[k] = lockout[k],
         Failing(k)' = Failing(k), Guessing(k)' \subseteq Guessing(k),
         Len(tries[k]) \in Nat
  PROVE  Tracked(k)'
<1>1. Cardinality(Guessing(k)') <= Cardinality(Guessing(k))
      /\ Cardinality(Guessing(k)') \in Nat /\ Cardinality(Guessing(k)) \in Nat
      /\ Cardinality(Workers) \in Nat
  BY Heads, FS_Subset, FS_CardinalityType
<1>2. CASE k \in DOMAIN lockout
  <2>1. Recorded(k)
    BY <1>2 DEF Tracked
  <2>2. Len(tries[k]) + Cardinality(Guessing(k)) < Threshold + Cardinality(Workers)
        => Len(tries[k]) + Cardinality(Guessing(k)') < Threshold + Cardinality(Workers)
    BY <1>1, Numbers
  <2> QED BY <1>2, <2>1, <2>2 DEF Tracked, Recorded
<1>3. CASE k \notin DOMAIN lockout
  BY <1>3 DEF Tracked, Unrecorded
<1> QED BY <1>2, <1>3

\* A record that has run its time has counted nothing that is still recent.
LEMMA RunOut ==
  ASSUME GuessInv, Sane, now \in Nat, NEW k \in Keys, k \in DOMAIN lockout,
         now >= lockout[k].last + Window
  PROVE  Len(tries[k]) <= Cardinality(Failing(k))
<1>1. lockout[k].last \in Nat
  BY DEF Sane, LoginAttempt
<1>2. Recent \subseteq Above(lockout[k].last + Skew)
  BY <1>1, Numbers DEF Recent, Above
<1>3. Count(tries[k], Above(lockout[k].last + Skew)) = Len(tries[k])
  BY <1>2, Tries, CountAll
<1> QED BY <1>3 DEF GuessInv, Tracked, Recorded

\* Forgiven: no record and no guess.
LEMMA Forgiven ==
  ASSUME NEW k \in Keys, tries'[k] = <<>>, k \notin DOMAIN lockout'
  PROVE  Tracked(k)'
<1>1. Failing(k)' \subseteq Workers
  BY DEF Failing
<1>2. Cardinality(Failing(k)') \in Nat
  BY <1>1, SignInAssumption, FS_Subset, FS_CardinalityType
<1>3. Len(tries'[k]) = 0
  OBVIOUS
<1> QED BY <1>2, <1>3 DEF Tracked, Unrecorded

\* One worker answers, or moves on.
LEMMA AnsweredAlone ==
  ASSUME Busy, NEW w \in Workers, Answer(w)
  PROVE  /\ pc'[w] = "idle"
         /\ \A v \in Workers \ {w} : pc'[v] = pc[v] /\ req'[v] = req[v] /\ clock'[v] = clock[v]
BY DEF Answer, NoClock, Busy

LEMMA MovedAlone ==
  ASSUME Busy, NEW w \in Workers, NEW l \in Stages, Goto(w, l),
         UNCHANGED clock \/ NoClock(w) \/ ReadClock(w)
  PROVE  /\ pc'[w] = l /\ req' = req
         /\ \A v \in Workers \ {w} : pc'[v] = pc[v] /\ clock'[v] = clock[v]
BY DEF Goto, NoClock, ReadClock, Busy

\* A step of one worker that neither begins nor ends a guess.
LEMMA HeadsStay ==
  ASSUME NEW w \in Workers,
         \A v \in Workers \ {w} : pc'[v] = pc[v] /\ req'[v] = req[v],
         pc[w] # "failed", pc'[w] # "failed", NEW k
  PROVE  /\ Failing(k)' = Failing(k)
         /\ pc'[w] # "verify" => Guessing(k)' \subseteq Guessing(k)
         /\ Key(w)' # k => Guessing(k)' \subseteq Guessing(k)
BY DEF Failing, Guessing, Key

LEMMA TimelyStays ==
  ASSUME Timely, now' = now, now \in Nat, NEW w \in Workers,
         \A v \in Workers \ {w} : pc'[v] = pc[v] /\ clock'[v] = clock[v],
         pc'[w] \in {"limit", "failed"} => clock'[w] = now
  PROVE  Timely'
BY Numbers DEF Timely

\* The history of a key is left as it is, or emptied.
LEMMA Emptied ==
  ASSUME GuessInv, now' = now, NEW gone,
         tries' = [k \in Keys |-> IF k \in gone THEN <<>> ELSE tries[k]]
  PROVE  tries' \in [Keys -> Seq(Recent')]
<1>1. Recent' = Recent
  BY DEF Recent
<1>2. <<>> \in Seq(Recent)
  OBVIOUS
<1> QED BY <1>1, <1>2, Zenon DEF GuessInv

LEMMA NothingGuessed ==
  ASSUME IInv, GuessInv, UNCHANGED <<now, lockout, tries>>, NEW w \in Workers,
         \A v \in Workers \ {w} : pc'[v] = pc[v] /\ req'[v] = req[v] /\ clock'[v] = clock[v],
         pc[w] # "failed", pc'[w] \notin {"failed", "verify"},
         pc'[w] = "limit" => clock'[w] = now
  PROVE  GuessInv'
<1>1. now \in Nat
  BY DEF IInv, Busy
<1>2. Timely'
  BY <1>1, TimelyStays DEF GuessInv
<1>3. tries' \in [Keys -> Seq(Recent')]
  BY DEF GuessInv, Recent
<1>4. ASSUME NEW k \in Keys PROVE Tracked(k)'
  BY <1>1, HeadsStay, TrackedStays, Tries DEF GuessInv
<1> QED BY <1>2, <1>3, <1>4 DEF GuessInv

LEMMA IsLockedGuess ==
  ASSUME IInv, GuessInv, NEW w \in Workers, IsLocked(w)
  PROVE  GuessInv'
<1>1. pc[w] = "body" /\ UNCHANGED <<now, tries>> /\ now \in Nat /\ Busy /\ Sane
  BY DEF IsLocked, bounds, histories, IInv, Busy
<1>0. PICK k \in Keys : k = Key(w)
  BY <1>1 DEF Key, Keys, Busy, Requests
<1> DEFINE until == IF k \in DOMAIN lockout THEN lockout[k].until ELSE NotLocked
<1>2. CASE Answer(w) /\ UNCHANGED lockout
  BY <1>1, <1>2, AnsweredAlone, NothingGuessed
<1>3. CASE /\ Goto(w, "verify") /\ UNCHANGED clock
           /\ \/ lockout' = Forget(lockout, k) /\ until # NotLocked /\ now >= until
              \/ UNCHANGED lockout /\ until = NotLocked
  <2>1. /\ pc'[w] = "verify" /\ req' = req
        /\ \A v \in Workers \ {w} : pc'[v] = pc[v] /\ clock'[v] = clock[v]
    BY <1>1, <1>3, MovedAlone DEF Stages
  <2>2. Timely'
    BY <1>1, <2>1, TimelyStays DEF GuessInv
  <2>3. tries' \in [Keys -> Seq(Recent')]
    BY <1>1 DEF GuessInv, Recent
  <2>4. \A i \in Keys : Failing(i)' = Failing(i)
    BY <1>1, <2>1, HeadsStay
  <2>5. \A i \in Keys \ {k} : Guessing(i)' \subseteq Guessing(i)
    BY <1>0, <2>1 DEF Guessing, Key
  <2>6. DOMAIN lockout' \subseteq DOMAIN lockout
        /\ \A i \in DOMAIN lockout \ {k} : i \in DOMAIN lockout' /\ lockout'[i] = lockout[i]
    BY <1>3 DEF Forget, Keep
  <2>7. ASSUME NEW i \in Keys \ {k} PROVE Tracked(i)'
    <3>1. Len(tries[i]) \in Nat
      BY <1>1, Tries
    <3> QED BY <1>1, <2>4, <2>5, <2>6, <3>1, TrackedStays DEF GuessInv
  <2>9. k \in DOMAIN lockout =>
          /\ lockout[k].last \in Nat /\ lockout[k].attempts \in Nat /\ Recorded(k)
    BY <1>1 DEF Sane, LoginAttempt, GuessInv, Tracked
  <2>10. CASE k \in DOMAIN lockout /\ until # NotLocked /\ lockout' = Forget(lockout, k)
    <3>a. lockout' # lockout
      BY <2>10 DEF Forget, Keep
    <3>b. now >= lockout[k].until
      BY <1>3, <2>10, <3>a
    <3>1. now >= lockout[k].last + Window
      BY <1>1, <2>9, <2>10, <3>b, Numbers DEF Recorded
    <3>2. Len(tries[k]) <= Cardinality(Failing(k))
      BY <1>1, <2>10, <3>1, RunOut
    <3>3. k \notin DOMAIN lockout'
      BY <2>10 DEF Forget, Keep
    <3>4. Unrecorded(k)'
      BY <1>1, <2>4, <3>2 DEF Unrecorded
    <3>5. Tracked(k)'
      BY <3>3, <3>4 DEF Tracked
    <3> QED BY <2>2, <2>3, <2>7, <3>5 DEF GuessInv
  <2>11. CASE k \in DOMAIN lockout /\ until = NotLocked /\ UNCHANGED lockout
    <3>1. lockout[k].attempts < Threshold
      BY <2>9, <2>11, Numbers DEF Recorded, NotLocked
    <3>2. Recorded(k)'
      BY <1>1, <2>4, <2>9, <2>11, <3>1, Numbers DEF Recorded
    <3>3. Tracked(k)'
      BY <2>11, <3>2 DEF Tracked
    <3> QED BY <2>2, <2>3, <2>7, <3>3 DEF GuessInv
  <2>12. CASE k \notin DOMAIN lockout /\ UNCHANGED lockout
    <3>1. Unrecorded(k)'
      BY <1>1, <2>4, <2>12 DEF GuessInv, Tracked, Unrecorded
    <3>2. Tracked(k)'
      BY <2>12, <3>1 DEF Tracked
    <3> QED BY <2>2, <2>3, <2>7, <3>2 DEF GuessInv
  <2> QED BY <1>3, <2>10, <2>11, <2>12
<1> QED BY <1>0, <1>2, <1>3 DEF IsLocked

\* A wrong guess is no longer under way: it waits to be counted.
LEMMA VerifyGuess ==
  ASSUME IInv, GuessInv, NEW w \in Workers, VerifyPassword(w)
  PROVE  GuessInv'
<1>1. pc[w] = "verify" /\ UNCHANGED <<now, lockout>> /\ now \in Nat /\ Busy /\ Sane
  BY DEF VerifyPassword, bounds, stores, IInv, Busy
<1>2. CASE Answer(w) /\ UNCHANGED tries
  BY <1>1, <1>2, AnsweredAlone, NothingGuessed
<1>3. CASE Goto(w, IF NeedsRehash(auth[req[w].email]) THEN "rehash" ELSE "user")
           /\ UNCHANGED <<clock, tries>>
  BY <1>1, <1>3, MovedAlone, NothingGuessed DEF Stages
<1>4. CASE /\ Goto(w, "failed") /\ ReadClock(w)
           /\ tries' = [tries EXCEPT ![Key(w)] = Append(@, now)]
  <2>0. PICK k \in Keys : k = Key(w)
    BY <1>1 DEF Key, Keys, Busy, Requests
  <2>1. /\ pc'[w] = "failed" /\ req' = req
        /\ \A v \in Workers \ {w} : pc'[v] = pc[v] /\ clock'[v] = clock[v]
    BY <1>1, <1>4, MovedAlone DEF Stages
  <2>2. clock'[w] = now
    BY <1>1, <1>4 DEF ReadClock, Busy
  <2>3. Timely'
    BY <1>1, <2>1, <2>2, TimelyStays DEF GuessInv
  <2>4. now \in Recent /\ Recent' = Recent /\ Recent \subseteq Nat
    BY <1>1, Numbers DEF Recent
  <2>5. tries[k] \in Seq(Recent) /\ \A i \in Keys : tries'[i] =
          IF i = k THEN Append(tries[k], now) ELSE tries[i]
    BY <1>4, <2>0 DEF GuessInv
  <2>6. Append(tries[k], now) \in Seq(Recent)
    BY <2>4, <2>5, AppendProperties
  <2>7. tries' \in [Keys -> Seq(Recent')]
    BY <1>4, <2>0, <2>4, <2>6 DEF GuessInv
  <2>8. ASSUME NEW i \in Keys \ {k} PROVE Tracked(i)'
    <3>1. Failing(i)' = Failing(i) /\ Guessing(i)' \subseteq Guessing(i)
      BY <2>0, <2>1 DEF Failing, Guessing, Key
    <3>2. Len(tries[i]) \in Nat
      BY <1>1, Tries
    <3> QED BY <1>1, <2>5, <3>1, <3>2, TrackedStays DEF GuessInv
  <2>9. Failing(k)' = Failing(k) \cup {w} /\ w \notin Failing(k)
        /\ Guessing(k)' = Guessing(k) \ {w} /\ w \in Guessing(k)
    BY <1>1, <2>0, <2>1 DEF Failing, Guessing, Key
  <2>10. IsFiniteSet(Failing(k)) /\ IsFiniteSet(Guessing(k))
         /\ Cardinality(Failing(k)) \in Nat /\ Cardinality(Guessing(k)) \in Nat
         /\ Cardinality(Workers) \in Nat
    BY Heads
  <2>11. Cardinality(Failing(k)') = Cardinality(Failing(k)) + 1
    BY <2>9, <2>10, FS_AddElement
  <2>12. Cardinality(Guessing(k)') = Cardinality(Guessing(k)) - 1
    BY <2>9, <2>10, FS_RemoveElement
  <2>13. Len(tries[k]) \in Nat /\ Len(tries'[k]) = Len(tries[k]) + 1
    <3>1. tries'[k] = Append(tries[k], now)
      BY <2>5
    <3> QED BY <2>4, <2>5, <3>1, AppendProperties, LenProperties
  <2>14. CASE k \in DOMAIN lockout
    <3>1. Recorded(k)
      BY <2>14 DEF GuessInv, Tracked
    <3> DEFINE Y == Above(lockout[k].last + Skew)
    <3>2. Count(tries[k], Y) \in Nat
      BY <1>1, Tries
    <3>3. Count(tries'[k], Y) <= Count(tries[k], Y) + 1 /\ Count(tries'[k], Y) \in Nat
      <4> HIDE DEF Y
      <4> QED BY <2>4, <2>5, <3>2, CountAppend
    <3>4. lockout[k].attempts \in Nat
      BY <1>1, <2>14 DEF Sane, LoginAttempt
    <3>5. Count(tries'[k], Y) <= Cardinality(Failing(k)')
      BY <2>10, <2>11, <3>1, <3>2, <3>3 DEF Recorded
    <3>6. lockout[k].attempts >= Threshold =>
            Len(tries'[k]) + Cardinality(Guessing(k)') < Threshold + Cardinality(Workers)
      BY <2>10, <2>12, <2>13, <3>1, Numbers DEF Recorded
    <3>7. lockout[k].attempts < Threshold =>
            Len(tries'[k]) <= lockout[k].attempts + Cardinality(Failing(k)')
      BY <2>10, <2>11, <2>13, <3>1, <3>4, Numbers DEF Recorded
    <3>8. Recorded(k)'
      BY <1>1, <3>1, <3>5, <3>6, <3>7 DEF Recorded
    <3>9. Tracked(k)'
      BY <1>1, <2>14, <3>8 DEF Tracked
    <3> QED BY <2>3, <2>7, <2>8, <3>9 DEF GuessInv
  <2>15. CASE k \notin DOMAIN lockout
    <3>1. Unrecorded(k)'
      BY <2>10, <2>11, <2>13, <2>15 DEF GuessInv, Tracked, Unrecorded
    <3>2. Tracked(k)'
      BY <1>1, <2>15, <3>1 DEF Tracked
    <3> QED BY <2>3, <2>7, <2>8, <3>2 DEF GuessInv
  <2> QED BY <2>14, <2>15
<1> QED BY <1>2, <1>3, <1>4 DEF VerifyPassword

\* A record that lapses, or is forgotten, leaves only what is not counted yet.
LEMMA Lapsed ==
  ASSUME NEW k \in Keys, Len(tries[k]) <= Cardinality(Failing(k)),
         tries'[k] = tries[k], Failing(k)' = Failing(k), k \notin DOMAIN lockout'
  PROVE  Tracked(k)'
BY DEF Tracked, Unrecorded

\* A lock that has ended has run its time.
LEMMA LockEnded ==
  ASSUME GuessInv, Sane, now \in Nat, NEW k \in Keys, k \in DOMAIN lockout,
         lockout[k].until # NotLocked, now >= lockout[k].until
  PROVE  now >= lockout[k].last + Window
<1>1. /\ Recorded(k) /\ lockout[k].last \in Nat /\ lockout[k].attempts \in Nat
  BY DEF GuessInv, Tracked, Sane, LoginAttempt
<1> QED BY <1>1, Numbers DEF Recorded

\* A failure is counted when everything its key has guessed is counted or waits.
LEMMA RecordGuess ==
  ASSUME IInv, GuessInv, NEW w \in Workers, RecordFailure(w)
  PROVE  GuessInv'
<1>1. pc[w] = "failed" /\ now' = now /\ now \in Nat /\ Busy /\ Sane /\ Answer(w)
  BY DEF RecordFailure, bounds, IInv, Busy
<1>2. PICK k \in Keys : k = Key(w)
  BY <1>1 DEF Key, Keys, Busy, Requests
<1>3. PICK t \in Nat : t = clock[w]
  BY <1>1 DEF Busy
<1> DEFINE Old(D) == IF k \in D THEN lockout[k] ELSE FirstFailure(t)
<1>4. PICK D \in MakeRoom(k) :
        /\ lockout' = Put(Keep(lockout, D), k, Counted(Old(D), t))
        /\ tries' = [x \in Keys |-> IF x \in DOMAIN lockout \ D THEN <<>> ELSE tries[x]]
  BY <1>2, <1>3 DEF RecordFailure
<1>5. D \subseteq DOMAIN lockout /\ (k \in DOMAIN lockout => D = DOMAIN lockout)
  BY Remaining DEF MakeRoom
<1>6. DOMAIN lockout' = D \cup {k} /\ lockout'[k] = Counted(Old(D), t)
      /\ \A i \in D \ {k} : lockout'[i] = lockout[i]
  BY <1>4, <1>5 DEF Put, Keep
<1>7. /\ pc'[w] = "idle"
      /\ \A v \in Workers \ {w} : pc'[v] = pc[v] /\ req'[v] = req[v] /\ clock'[v] = clock[v]
  BY <1>1, AnsweredAlone
<1>8. Timely'
  BY <1>1, <1>7, TimelyStays DEF GuessInv
<1>9. tries' \in [Keys -> Seq(Recent')]
  BY <1>1, <1>4, Emptied
<1>10. ASSUME NEW i \in Keys \ {k} PROVE Tracked(i)'
  <2>1. CASE i \in DOMAIN lockout \ D
    <3>1. tries'[i] = <<>> /\ i \notin DOMAIN lockout'
      BY <1>4, <1>6, <2>1
    <3> QED BY <3>1, Forgiven
  <2>2. CASE i \notin DOMAIN lockout \ D
    <3>1. tries'[i] = tries[i] /\ Len(tries[i]) \in Nat
      BY <1>1, <1>4, <2>2, Tries
    <3>2. Failing(i)' = Failing(i) /\ Guessing(i)' \subseteq Guessing(i)
      BY <1>1, <1>2, <1>7 DEF Failing, Guessing, Key
    <3> QED BY <1>5, <1>6, <2>2, <3>1, <3>2, TrackedStays DEF GuessInv
  <2> QED BY <2>1, <2>2
<1>11. tries'[k] = tries[k] /\ Len(tries[k]) \in Nat
  BY <1>1, <1>4, <1>5, Tries
<1>12. Failing(k)' = Failing(k) \ {w} /\ w \in Failing(k) /\ Guessing(k)' = Guessing(k)
  BY <1>1, <1>2, <1>7 DEF Failing, Guessing, Key
<1>13. /\ IsFiniteSet(Failing(k)) /\ Cardinality(Failing(k)) \in Nat
       /\ Cardinality(Guessing(k)) \in Nat /\ Cardinality(Workers) \in Nat
       /\ Cardinality(Failing(k)) + Cardinality(Guessing(k)) <= Cardinality(Workers)
  BY Heads
<1>14. Cardinality(Failing(k)') = Cardinality(Failing(k)) - 1
  BY <1>12, <1>13, FS_RemoveElement
<1>15. Count(tries'[k], Above(t + Skew)) = 0
  <2>1. now <= t + Skew
    BY <1>1, <1>3 DEF GuessInv, Timely
  <2>2. Above(t + Skew) \cap Recent = {}
    BY <1>1, <2>1, Numbers DEF Above, Recent
  <2> QED BY <1>1, <1>11, <2>2, Tries, CountNone
<1> DEFINE r == Old(D)
<1>16. r.attempts \in Nat /\ r.last \in Nat /\ r.until \in Nat
  <2>1. CASE k \in D
    BY <1>1, <1>5, <2>1 DEF Sane, LoginAttempt
  <2>2. CASE k \notin D
    BY <2>2 DEF FirstFailure, NotLocked
  <2> QED BY <2>1, <2>2
\* What the record said before this failure, and what is true when it was too old.
<1>17. /\ r.attempts >= Threshold =>
            Len(tries[k]) + Cardinality(Guessing(k)) < Threshold + Cardinality(Workers)
       /\ r.attempts < Threshold =>
            /\ r.until = NotLocked
            /\ Len(tries[k]) <= r.attempts + Cardinality(Failing(k))
       /\ t > r.last + Window => Len(tries[k]) <= Cardinality(Failing(k))
  <2>1. CASE k \in D
    <3>1. Recorded(k) /\ k \in DOMAIN lockout /\ r = lockout[k]
      BY <1>5, <2>1 DEF GuessInv, Tracked
    <3>2. t > r.last + Window => now >= lockout[k].last + Window
      BY <1>1, <1>3, <1>16, <3>1, Numbers DEF Busy
    <3> QED BY <1>1, <3>1, <3>2, RunOut DEF Recorded
  <2>2. CASE k \notin D
    <3>1. Unrecorded(k) /\ r = FirstFailure(t)
      BY <1>5, <2>2 DEF GuessInv, Tracked
    <3> QED BY <1>13, <3>1, Numbers DEF Unrecorded, FirstFailure
  <2> QED BY <2>1, <2>2
<1> HIDE DEF r
<1>18. /\ lockout'[k].last = t
       /\ \/ /\ lockout'[k].attempts = r.attempts + 1 /\ t <= r.last + Window
             /\ lockout'[k].until = IF r.attempts + 1 >= Threshold THEN t + Duration
                                    ELSE r.until
          \/ /\ lockout'[k].attempts = 1 /\ t > r.last + Window
             /\ lockout'[k].until = IF 1 >= Threshold THEN t + Duration ELSE NotLocked
  <2>1. lockout'[k] = Counted(r, t)
    BY <1>6 DEF r
  <2> QED BY <1>16, <2>1, Numbers DEF Counted
<1>19. Recorded(k)'
  <2>a. Cardinality(Guessing(k)') = Cardinality(Guessing(k)) /\ Len(tries'[k]) = Len(tries[k])
    BY <1>11, <1>12
  <2>1. Count(tries'[k], Above(lockout'[k].last + Skew)) <= Cardinality(Failing(k)')
    <3>1. Cardinality(Failing(k)') >= 0
      <4>1. Failing(k) # {} /\ Failing(k)' \subseteq Failing(k)
        BY <1>12
      <4> QED BY <1>13, <4>1, FS_Subset, FS_CardinalityType
    <3> QED BY <1>13, <1>14, <1>15, <1>18, <3>1
  <2>2. /\ lockout'[k].attempts >= Threshold =>
             /\ lockout'[k].until = lockout'[k].last + Duration
             /\ Len(tries'[k]) + Cardinality(Guessing(k)') < Threshold + Cardinality(Workers)
        /\ lockout'[k].attempts < Threshold =>
             /\ lockout'[k].until = NotLocked
             /\ Len(tries'[k]) <= lockout'[k].attempts + Cardinality(Failing(k)')
    <3>1. Threshold \in Nat /\ Threshold >= 1
      BY Numbers
    <3>2. CASE /\ lockout'[k].attempts = r.attempts + 1 /\ t <= r.last + Window
               /\ lockout'[k].until = IF r.attempts + 1 >= Threshold THEN t + Duration
                                      ELSE r.until
      BY <1>11, <1>13, <1>14, <1>16, <1>17, <1>18, <2>a, <3>1, <3>2
    <3>3. CASE /\ lockout'[k].attempts = 1 /\ t > r.last + Window
               /\ lockout'[k].until = IF 1 >= Threshold THEN t + Duration ELSE NotLocked
      BY <1>11, <1>13, <1>14, <1>16, <1>17, <1>18, <2>a, <3>1, <3>3
    <3> QED BY <1>18, <3>2, <3>3
  <2> QED BY <2>1, <2>2 DEF Recorded, NotLocked
<1>20. Tracked(k)'
  BY <1>6, <1>19 DEF Tracked
<1> QED BY <1>8, <1>9, <1>10, <1>20 DEF GuessInv

LEMMA WelcomeGuess ==
  ASSUME IInv, GuessInv, NEW w \in Workers, Welcome(w)
  PROVE  GuessInv'
<1>1. pc[w] = "user" /\ now' = now /\ now \in Nat /\ Busy /\ Sane /\ Answer(w)
  BY DEF Welcome, bounds, IInv, Busy
<1>2. /\ pc'[w] = "idle"
      /\ \A v \in Workers \ {w} : pc'[v] = pc[v] /\ req'[v] = req[v] /\ clock'[v] = clock[v]
  BY <1>1, AnsweredAlone
<1>3. CASE UNCHANGED <<lockout, tries>>
  BY <1>1, <1>2, <1>3, NothingGuessed
<1>4. CASE /\ lockout' = Forget(lockout, Key(w))
           /\ tries' = [tries EXCEPT ![Key(w)] = <<>>]
  <2>1. PICK k \in Keys : k = Key(w)
    BY <1>1 DEF Key, Keys, Busy, Requests
  <2>2. k \notin DOMAIN lockout'
        /\ \A i \in Keys \ {k} : /\ i \in DOMAIN lockout' <=> i \in DOMAIN lockout
                                 /\ i \in DOMAIN lockout => lockout'[i] = lockout[i]
    BY <1>4, <2>1 DEF Forget, Keep
  <2>3. tries' = [i \in Keys |-> IF i \in {k} THEN <<>> ELSE tries[i]]
    BY <1>4, <2>1 DEF GuessInv
  <2>4. tries' \in [Keys -> Seq(Recent')]
    BY <1>1, <2>3, Emptied
  <2>5. Timely'
    BY <1>1, <1>2, TimelyStays DEF GuessInv
  <2>6. Tracked(k)'
    BY <2>2, <2>3, Forgiven
  <2>7. ASSUME NEW i \in Keys \ {k} PROVE Tracked(i)'
    <3>1. Failing(i)' = Failing(i) /\ Guessing(i)' \subseteq Guessing(i)
      BY <1>1, <1>2, HeadsStay
    <3>2. tries'[i] = tries[i] /\ Len(tries[i]) \in Nat
      BY <1>1, <2>3, Tries
    <3> QED BY <2>2, <3>1, <3>2, TrackedStays DEF GuessInv
  <2> QED BY <2>4, <2>5, <2>6, <2>7 DEF GuessInv
<1> QED BY <1>3, <1>4 DEF Welcome

LEMMA CleanupGuess ==
  ASSUME IInv, GuessInv, Cleanup
  PROVE  GuessInv'
<1>1. UNCHANGED <<now, req, pc, clock>> /\ now \in Nat /\ Busy /\ Sane
  BY DEF Cleanup, bounds, workers, IInv, Busy
<1> DEFINE active == {k \in DOMAIN lockout :
                        IF lockout[k].until # NotLocked THEN now < lockout[k].until
                        ELSE now <= lockout[k].last + Window}
<1>2. PICK D \in Survivors(Keep(lockout, active), LockRank, LockCap) :
        /\ lockout' = Keep(lockout, D)
        /\ tries' = [k \in Keys |-> IF k \in active \ D THEN <<>> ELSE tries[k]]
  BY DEF Cleanup
<1>3. ASSUME NEW k \in DOMAIN lockout, k \in Keys, k \notin active
      PROVE  now >= lockout[k].last + Window
  <2>1. lockout[k].last \in Nat /\ lockout[k].until \in Nat
    BY <1>1, <1>3 DEF Sane, LoginAttempt
  <2>2. CASE lockout[k].until # NotLocked
    BY <1>1, <1>3, <2>1, <2>2, LockEnded
  <2>3. CASE lockout[k].until = NotLocked
    BY <1>1, <1>3, <2>1, <2>3, Numbers
  <2> QED BY <2>2, <2>3
<1>4. active \subseteq DOMAIN lockout
  OBVIOUS
<1> HIDE DEF active
<1>5. D \subseteq active
  <2>1. DOMAIN Keep(lockout, active) = active
    BY <1>4 DEF Keep
  <2> QED BY <1>2, <2>1, Remaining
<1>6. DOMAIN lockout' = D /\ \A k \in D : lockout'[k] = lockout[k]
  BY <1>2, <1>4, <1>5 DEF Keep
<1>7. Timely'
  BY <1>1 DEF GuessInv, Timely
<1>8. tries' \in [Keys -> Seq(Recent')]
  BY <1>1, <1>2, Emptied
<1>9. ASSUME NEW k \in Keys PROVE Tracked(k)'
  <2>1. Failing(k)' = Failing(k) /\ Guessing(k)' = Guessing(k)
    BY <1>1 DEF Failing, Guessing, Key
  <2>2. CASE k \in active \ D
    BY <1>2, <1>6, <2>2, Forgiven
  <2>3. CASE k \in DOMAIN lockout \ active
    <3>1. tries'[k] = tries[k] /\ k \notin DOMAIN lockout'
      BY <1>2, <1>5, <1>6, <2>3
    <3>2. Len(tries[k]) <= Cardinality(Failing(k))
      BY <1>1, <1>3, <2>3, RunOut
    <3> QED BY <2>1, <3>1, <3>2, Lapsed
  <2>4. CASE k \in D \/ k \notin DOMAIN lockout
    <3>1. tries'[k] = tries[k] /\ Len(tries[k]) \in Nat
      BY <1>1, <1>2, <1>4, <2>4, Tries
    <3> QED BY <1>4, <1>5, <1>6, <2>1, <2>4, <3>1, TrackedStays DEF GuessInv
  <2> QED BY <1>4, <2>2, <2>3, <2>4
<1> QED BY <1>7, <1>8, <1>9 DEF GuessInv

\* Time passes: what leaves the span leaves the history.
LEMMA TickGuess ==
  ASSUME IInv, GuessInv, Tick
  PROVE  GuessInv'
<1>1. UNCHANGED <<lockout, req, pc, clock>> /\ now \in Nat /\ now' = now + 1 /\ Busy /\ Sane
  BY DEF Tick, stores, workers, IInv, Busy
<1> DEFINE gone == 0..(now' - Span)
<1>2. tries' = [k \in Keys |-> Retain(tries[k], gone)]
  BY DEF Tick
<1>3. Recent \ gone \subseteq Recent'
  BY <1>1, Numbers DEF Recent
<1> HIDE DEF gone
<1>4. ASSUME NEW k \in Keys
      PROVE  /\ tries'[k] \in Seq(Recent) /\ tries'[k] \in Seq(Recent')
             /\ \A Y : Count(tries'[k], Y) <= Count(tries[k], Y)
             /\ Len(tries'[k]) <= Len(tries[k]) /\ Len(tries'[k]) \in Nat
             /\ Len(tries[k]) \in Nat
  <2>1. tries[k] \in Seq(Recent) /\ Len(tries[k]) \in Nat
    BY <1>1, Tries
  <2>2. tries'[k] = Retain(tries[k], gone) /\ tries'[k] \in Seq(Recent)
    BY <1>2, <2>1, RetainCounts
  <2>a. ASSUME NEW Y PROVE Count(tries'[k], Y) = Count(tries[k], Y \ gone)
    BY <2>1, <2>2, RetainCounts
  <2>3. ASSUME NEW Y PROVE Count(tries'[k], Y) <= Count(tries[k], Y)
    BY <2>1, <2>a, CountMonotone
  <2>4. Count(tries'[k], Recent \ Recent') = 0
    <3>1. Count(tries[k], (Recent \ Recent') \ gone) = 0
      BY <1>3, <2>1, CountNone
    <3> QED BY <2>a, <3>1
  <2>5. tries'[k] \in Seq(Recent')
    BY <2>2, <2>4, SeqWithout
  <2>6. Count(tries'[k], Recent) = Len(tries'[k]) /\ Len(tries'[k]) \in Nat
    BY <2>2, CountAll, LenProperties
  <2>7. Count(tries[k], Recent) = Len(tries[k])
    BY <2>1, CountAll
  <2> QED BY <2>1, <2>2, <2>3, <2>5, <2>6, <2>7
<1>5. tries' \in [Keys -> Seq(Recent')]
  BY <1>2, <1>4
<1>6. Timely'
  BY <1>1, Numbers DEF Tick, Timely, Busy
<1>7. ASSUME NEW k \in Keys PROVE Tracked(k)'
  <2>1. Failing(k)' = Failing(k) /\ Guessing(k)' = Guessing(k)
    BY <1>1 DEF Failing, Guessing, Key
  <2>2. Cardinality(Failing(k)) \in Nat /\ Cardinality(Guessing(k)) \in Nat
        /\ Cardinality(Workers) \in Nat
    BY Heads
  <2>3. Tracked(k) /\ (k \in DOMAIN lockout => lockout[k].attempts \in Nat)
    BY <1>1 DEF GuessInv, Sane, LoginAttempt
  <2>4. CASE k \in DOMAIN lockout
    <3> DEFINE Y == Above(lockout[k].last + Skew)
    <3>1. Recorded(k)
      BY <2>3, <2>4 DEF Tracked
    <3>2. Count(tries[k], Y) \in Nat /\ Count(tries'[k], Y) \in Nat
      BY <1>1, <1>4, Tries, CountFinite
    <3>a. Count(tries'[k], Y) <= Count(tries[k], Y)
      <4> HIDE DEF Y
      <4> QED BY <1>4
    <3>3. Count(tries'[k], Y) <= Cardinality(Failing(k))
      BY <2>2, <3>1, <3>2, <3>a DEF Recorded
    <3>4. Len(tries'[k]) <= Len(tries[k]) /\ Len(tries'[k]) \in Nat /\ Len(tries[k]) \in Nat
      BY <1>4
    <3>5. lockout[k].attempts >= Threshold =>
            /\ lockout[k].until = lockout[k].last + Duration
            /\ Len(tries'[k]) + Cardinality(Guessing(k)) < Threshold + Cardinality(Workers)
      BY <2>2, <3>1, <3>4, Numbers DEF Recorded
    <3>6. lockout[k].attempts < Threshold =>
            /\ lockout[k].until = NotLocked
            /\ Len(tries'[k]) <= lockout[k].attempts + Cardinality(Failing(k))
      BY <2>2, <2>3, <2>4, <3>1, <3>4 DEF Recorded
    <3>7. Recorded(k)'
      BY <1>1, <2>1, <3>3, <3>5, <3>6 DEF Recorded
    <3> QED BY <1>1, <2>4, <3>7 DEF Tracked
  <2>5. CASE k \notin DOMAIN lockout
    BY <1>1, <1>4, <2>1, <2>2, <2>3, <2>5 DEF Tracked, Unrecorded
  <2> QED BY <2>4, <2>5
<1> QED BY <1>5, <1>6, <1>7 DEF GuessInv
-----------------------------------------------------------------------------
(* The rate limit                                                          *)

Win(ip) == IF ip \in DOMAIN windows THEN windows[ip] ELSE <<>>

\* The workers that will bring an address a time no later than x.
Bringing(ip, x) == {w \in Workers : pc[w] = "limit" /\ req[w].ip = ip /\ clock[w] <= x}

\* Of what was admitted up to x, the store still has whatever is less than a window old.
Covered(adm, win, x) ==
    \A y \in Int : y >= x - RateWindow => Count(adm, (y + 1)..x) <= Count(win, Above(y))

\* A window that ends at x: everything counted is still there, or the store has been
\* pruned since and only workers that already hold their time can add to it.
Spent(ip, x) ==
    /\ x < now
    /\ Count(admitted[ip], (x - RateWindow + 1)..x) + Cardinality(Bringing(ip, x))
         <= RateLimit + Cardinality(Workers)

Metered(ip, x) == Covered(admitted[ip], Win(ip), x) \/ Spent(ip, x)

Rated == /\ DOMAIN windows \subseteq Ips /\ IsFiniteSet(DOMAIN windows)
         /\ \A ip \in DOMAIN windows : windows[ip] \in Seq(Nat) /\ Len(windows[ip]) <= RateLimit
         /\ Cardinality(DOMAIN windows) <= RateCap

RateInv == /\ Rated
           /\ admitted \in [Ips -> Seq(0..now)]
           /\ \A ip \in Ips : \A x \in 0..now : Metered(ip, x)

LEMMA InWindowCounts ==
  ASSUME NEW win \in Seq(Nat), NEW t, NEW Y
  PROVE  /\ InWindow(win, t) \in Seq(Nat)
         /\ Count(InWindow(win, t), Y) = Count(win, Y \ (0..(t - RateWindow)))
<1> DEFINE gone == 0..(t - RateWindow)
<1>1. InWindow(win, t) = Retain(win, gone)
  BY DEF InWindow
<1> HIDE DEF gone
<1>2. /\ Retain(win, gone) \in Seq(Nat)
      /\ Count(Retain(win, gone), Y) = Count(win, Y \ gone)
  BY RetainCounts
<1> QED BY <1>1, <1>2 DEF gone

LEMMA PruneCovers ==
  ASSUME NEW adm \in Seq(Nat), NEW win \in Seq(Nat), NEW t \in Nat, NEW x \in Nat, x >= t,
         Covered(adm, win, x)
  PROVE  Covered(adm, InWindow(win, t), x)
<1> SUFFICES ASSUME NEW y \in Int, y >= x - RateWindow
             PROVE  Count(adm, (y + 1)..x) <= Count(InWindow(win, t), Above(y))
  BY DEF Covered
<1> DEFINE Y == Above(y)
<1>1. Count(InWindow(win, t), Y) = Count(win, Y \ (0..(t - RateWindow)))
  <2> HIDE DEF Y
  <2> QED BY InWindowCounts
<1>2. Above(y) \ (0..(t - RateWindow)) = Above(y)
  BY Numbers DEF Above
<1> QED BY <1>1, <1>2 DEF Covered

LEMMA NoteCounts ==
  ASSUME NEW adm \in Seq(Nat), NEW t \in Nat, NEW Y
  PROVE  /\ Count(adm, Y) \in Nat
         /\ Count(Append(adm, t), Y) = IF t \in Y THEN Count(adm, Y) + 1 ELSE Count(adm, Y)
BY CountFinite, CountAppend

LEMMA AppendCovers ==
  ASSUME NEW adm \in Seq(Nat), NEW win \in Seq(Nat), NEW t \in Nat, NEW x \in Nat,
         Covered(adm, win, x)
  PROVE  Covered(Append(adm, t), Append(win, t), x)
<1> SUFFICES ASSUME NEW y \in Int, y >= x - RateWindow
             PROVE  Count(Append(adm, t), (y + 1)..x) <= Count(Append(win, t), Above(y))
  BY DEF Covered
<1>1. Count(adm, (y + 1)..x) <= Count(win, Above(y))
      /\ Count(adm, (y + 1)..x) \in Nat /\ Count(win, Above(y)) \in Nat
  BY CountFinite DEF Covered
<1>2. Count(Append(adm, t), (y + 1)..x) = IF t \in (y + 1)..x THEN Count(adm, (y + 1)..x) + 1
                                         ELSE Count(adm, (y + 1)..x)
  BY CountAppend
<1>3. Count(Append(win, t), Above(y)) = IF t \in Above(y) THEN Count(win, Above(y)) + 1
                                       ELSE Count(win, Above(y))
  BY CountAppend
<1>4. t \in (y + 1)..x => t \in Above(y)
  BY DEF Above
<1> QED BY <1>1, <1>2, <1>3, <1>4

\* What the store still has is no more than it lets through.
LEMMA CoverBounds ==
  ASSUME NEW adm \in Seq(Nat), NEW win \in Seq(Nat), NEW x \in Nat,
         Covered(adm, win, x), Len(win) <= RateLimit
  PROVE  Count(adm, (x - RateWindow + 1)..x) <= RateLimit
<1> DEFINE y == x - RateWindow
<1>1. y \in Int /\ y >= x - RateWindow
  BY Numbers
<1>2. Count(adm, (y + 1)..x) <= Count(win, Above(y))
  BY <1>1 DEF Covered
<1> HIDE DEF y
<1>3. /\ Count(adm, (y + 1)..x) \in Nat /\ Count(win, Above(y)) \in Nat
      /\ Count(win, Above(y)) <= Len(win) /\ Len(win) \in Nat
  BY CountFinite, LenProperties
<1>4. Count(adm, (y + 1)..x) <= RateLimit
  BY <1>2, <1>3, Numbers
<1> QED BY <1>4 DEF y

\* An address that is not known has had nothing admitted that counts.
LEMMA NothingCovers ==
  ASSUME NEW win \in Seq(Nat), NEW x \in Nat
  PROVE  Covered(<<>>, win, x)
<1> SUFFICES ASSUME NEW y \in Int, y >= x - RateWindow
             PROVE  Count(<<>>, (y + 1)..x) <= Count(win, Above(y))
  BY DEF Covered
<1>1. Count(<<>>, (y + 1)..x) = 0
  BY CountEmpty
<1>2. Count(win, Above(y)) \in Nat
  BY CountFinite
<1> QED BY <1>1, <1>2

LEMMA Admitted ==
  ASSUME RateInv, now \in Nat, NEW ip \in Ips
  PROVE  /\ admitted[ip] \in Seq(0..now) /\ admitted[ip] \in Seq(Nat)
         /\ Win(ip) \in Seq(Nat) /\ Len(Win(ip)) <= RateLimit
<1>1. admitted[ip] \in Seq(0..now) /\ 0..now \subseteq Nat
  BY DEF RateInv
<1>2. <<>> \in Seq(Nat) /\ Len(<<>>) <= RateLimit
  BY Numbers
<1> QED BY <1>1, <1>2, SeqMonotonic DEF RateInv, Rated, Win

LEMMA Bringers ==
  ASSUME NEW ip, NEW x
  PROVE  /\ IsFiniteSet(Bringing(ip, x)) /\ Cardinality(Bringing(ip, x)) \in Nat
         /\ Cardinality(Bringing(ip, x)) <= Cardinality(Workers)
         /\ Cardinality(Workers) \in Nat
<1>1. Bringing(ip, x) \subseteq Workers
  BY DEF Bringing
<1> QED BY <1>1, SignInAssumption, FS_Subset, FS_CardinalityType

LEMMA BringersNext ==
  ASSUME NEW ip, NEW x
  PROVE  /\ IsFiniteSet(Bringing(ip, x)') /\ Cardinality(Bringing(ip, x)') \in Nat
         /\ Cardinality(Bringing(ip, x)') <= Cardinality(Workers)
<1>1. Bringing(ip, x)' \subseteq Workers
  BY DEF Bringing
<1> QED BY <1>1, SignInAssumption, FS_Subset, FS_CardinalityType

\* A window that ends before a pruning is spent; a later one is still covered.
LEMMA Pruned ==
  ASSUME RateInv, now \in Nat, now' = now, NEW ip \in Ips, NEW x \in 0..now,
         NEW t \in 0..now, Win(ip)' = InWindow(Win(ip), t),
         admitted'[ip] = admitted[ip], Bringing(ip, x)' \subseteq Bringing(ip, x)
  PROVE  Metered(ip, x)'
<1>1. /\ admitted[ip] \in Seq(Nat) /\ Win(ip) \in Seq(Nat) /\ Len(Win(ip)) <= RateLimit
      /\ Metered(ip, x)
  BY Admitted DEF RateInv
<1>2. /\ Cardinality(Bringing(ip, x)') <= Cardinality(Bringing(ip, x))
      /\ Cardinality(Bringing(ip, x)') \in Nat /\ Cardinality(Bringing(ip, x)) \in Nat
      /\ Cardinality(Bringing(ip, x)) <= Cardinality(Workers) /\ Cardinality(Workers) \in Nat
  BY Bringers, BringersNext, FS_Subset
<1> DEFINE c == Count(admitted[ip], (x - RateWindow + 1)..x)
<1>3. c \in Nat /\ Count(admitted'[ip], (x - RateWindow + 1)..x) = c
  BY <1>1, CountFinite
<1>4. CASE Spent(ip, x)
  <2>1. Spent(ip, x)'
    BY <1>2, <1>3, <1>4, Numbers DEF Spent
  <2> QED BY <2>1 DEF Metered
<1>5. CASE Covered(admitted[ip], Win(ip), x) /\ x >= t
  <2>1. Covered(admitted[ip], InWindow(Win(ip), t), x)
    BY <1>1, <1>5, PruneCovers
  <2>2. Covered(admitted'[ip], Win(ip)', x)
    BY <2>1
  <2> QED BY <2>2 DEF Metered
<1>6. CASE Covered(admitted[ip], Win(ip), x) /\ x < t
  <2>1. c <= RateLimit
    BY <1>1, <1>6, CoverBounds
  <2>2. x < now'
    BY <1>6
  <2>3. Count(admitted'[ip], (x - RateWindow + 1)..x) + Cardinality(Bringing(ip, x)')
          <= RateLimit + Cardinality(Workers)
    BY <1>2, <1>3, <2>1, Numbers
  <2>4. Spent(ip, x)'
    BY <2>2, <2>3 DEF Spent
  <2> QED BY <2>4 DEF Metered
<1> QED BY <1>1, <1>4, <1>5, <1>6 DEF Metered

\* So is one that a request was admitted to, by a worker that is then done.
LEMMA Entered ==
  ASSUME RateInv, now \in Nat, now' = now, NEW ip \in Ips, NEW x \in 0..now,
         NEW w \in Workers, NEW t \in 0..now, w \in Bringing(ip, t), clock[w] = t,
         Win(ip)' = Append(InWindow(Win(ip), t), t),
         admitted'[ip] = Append(admitted[ip], t),
         Bringing(ip, x)' = Bringing(ip, x) \ {w}
  PROVE  Metered(ip, x)'
<1>1. /\ admitted[ip] \in Seq(Nat) /\ Win(ip) \in Seq(Nat) /\ Len(Win(ip)) <= RateLimit
      /\ Metered(ip, x)
  BY Admitted DEF RateInv
<1> DEFINE b == Cardinality(Bringing(ip, x))
           n == Cardinality(Bringing(ip, x)')
           c == Count(admitted[ip], (x - RateWindow + 1)..x)
           d == Count(admitted'[ip], (x - RateWindow + 1)..x)
<1>2. b \in Nat /\ n \in Nat /\ b <= Cardinality(Workers) /\ Cardinality(Workers) \in Nat
  BY Bringers, BringersNext
<1>3. t <= x => w \in Bringing(ip, x)
  BY DEF Bringing
<1>4. n = IF w \in Bringing(ip, x) THEN b - 1 ELSE b
  BY Bringers, FS_RemoveElement
<1>5. c \in Nat /\ d = IF t \in (x - RateWindow + 1)..x THEN c + 1 ELSE c
  <2>1. t \in Nat /\ admitted'[ip] = Append(admitted[ip], t)
    BY <1>1
  <2>2. \A Y : /\ Count(admitted[ip], Y) \in Nat
               /\ Count(Append(admitted[ip], t), Y) = IF t \in Y THEN Count(admitted[ip], Y) + 1
                                                      ELSE Count(admitted[ip], Y)
    BY <1>1, <2>1, NoteCounts
  <2> QED BY <2>1, <2>2
<1>6. CASE Spent(ip, x)
  <2>1. c + b <= RateLimit + Cardinality(Workers) /\ x < now
    BY <1>6 DEF Spent
  <2>2. t \in (x - RateWindow + 1)..x => t <= x
    BY Numbers
  <2> HIDE DEF b, n, c, d
  <2>3. d + n <= RateLimit + Cardinality(Workers)
    BY <1>2, <1>3, <1>4, <1>5, <2>1, <2>2, Numbers
  <2> USE DEF b, n, c, d
  <2>4. Spent(ip, x)'
    BY <2>1, <2>3 DEF Spent
  <2> QED BY <2>4 DEF Metered
<1>7. CASE Covered(admitted[ip], Win(ip), x) /\ x >= t
  <2>1. Covered(admitted[ip], InWindow(Win(ip), t), x)
    BY <1>1, <1>7, PruneCovers
  <2>2. InWindow(Win(ip), t) \in Seq(Nat)
    BY <1>1, RetainCounts DEF InWindow
  <2>3. Covered(Append(admitted[ip], t), Append(InWindow(Win(ip), t), t), x)
    BY <1>1, <2>1, <2>2, AppendCovers
  <2>4. Covered(admitted'[ip], Win(ip)', x)
    BY <2>3
  <2> QED BY <2>4 DEF Metered
<1>8. CASE Covered(admitted[ip], Win(ip), x) /\ x < t
  <2>1. c <= RateLimit
    BY <1>1, <1>8, CoverBounds
  <2>2. t \notin (x - RateWindow + 1)..x
    BY <1>8, Numbers
  <2> HIDE DEF b, n, c, d
  <2>3. d + n <= RateLimit + Cardinality(Workers)
    BY <1>2, <1>4, <1>5, <2>1, <2>2, Numbers
  <2> USE DEF b, n, c, d
  <2>4. Spent(ip, x)'
    BY <1>8, <2>3 DEF Spent
  <2> QED BY <2>4 DEF Metered
<1> QED BY <1>1, <1>6, <1>7, <1>8 DEF Metered

LEMMA MeterStays ==
  ASSUME RateInv, now \in Nat, now' = now, NEW ip \in Ips, NEW x \in 0..now, Metered(ip, x),
         Win(ip)' = Win(ip), admitted'[ip] = admitted[ip],
         x < now => Bringing(ip, x)' \subseteq Bringing(ip, x)
  PROVE  Metered(ip, x)'
<1>1. CASE Covered(admitted[ip], Win(ip), x)
  <2>1. Covered(admitted'[ip], Win(ip)', x)
    BY <1>1
  <2> QED BY <2>1 DEF Metered
<1>2. CASE Spent(ip, x)
  <2>1. x < now /\ Bringing(ip, x)' \subseteq Bringing(ip, x)
    BY <1>2 DEF Spent
  <2>2. /\ Cardinality(Bringing(ip, x)') <= Cardinality(Bringing(ip, x))
        /\ Cardinality(Bringing(ip, x)') \in Nat /\ Cardinality(Bringing(ip, x)) \in Nat
        /\ Cardinality(Workers) \in Nat
    BY <2>1, Bringers, BringersNext, FS_Subset
  <2> DEFINE c == Count(admitted[ip], (x - RateWindow + 1)..x)
  <2>3. c \in Nat
    BY Admitted, CountFinite
  <2>4. c + Cardinality(Bringing(ip, x)) <= RateLimit + Cardinality(Workers)
    BY <1>2 DEF Spent
  <2>5. c + Cardinality(Bringing(ip, x)') <= RateLimit + Cardinality(Workers)
    BY <2>2, <2>3, <2>4, Numbers
  <2>6. Spent(ip, x)'
    BY <2>1, <2>5 DEF Spent
  <2> QED BY <2>6 DEF Metered
<1> QED BY <1>1, <1>2 DEF Metered

\* Nothing is admitted and nothing is pruned.
LEMMA Unmetered ==
  ASSUME RateInv, now \in Nat, UNCHANGED <<now, windows, admitted>>,
         \A ip \in Ips : \A x \in 0..now : x < now => Bringing(ip, x)' \subseteq Bringing(ip, x)
  PROVE  RateInv'
<1>1. Rated' /\ admitted' \in [Ips -> Seq(0..now')]
  BY DEF RateInv, Rated
<1>2. ASSUME NEW ip \in Ips, NEW x \in 0..now PROVE Metered(ip, x)'
  <2>1. Metered(ip, x) /\ Win(ip)' = Win(ip)
    BY DEF RateInv, Win
  <2> QED BY <2>1, MeterStays
<1> QED BY <1>1, <1>2 DEF RateInv

\* A worker that is not, or no longer, before the limiter brings nothing.
LEMMA NothingBrought ==
  ASSUME RateInv, now \in Nat, UNCHANGED <<now, windows, admitted>>, NEW w \in Workers,
         \A v \in Workers \ {w} : pc'[v] = pc[v] /\ req'[v] = req[v] /\ clock'[v] = clock[v],
         pc'[w] = "limit" => clock'[w] = now
  PROVE  RateInv'
<1>1. ASSUME NEW ip \in Ips, NEW x \in 0..now, x < now
      PROVE  Bringing(ip, x)' \subseteq Bringing(ip, x)
  BY <1>1 DEF Bringing
<1> QED BY <1>1, Unmetered

LEMMA RatePruned ==
  ASSUME NEW win \in Seq(Nat), Len(win) <= RateLimit, NEW t
  PROVE  InWindow(win, t) \in Seq(Nat) /\ Len(InWindow(win, t)) <= RateLimit
         /\ Len(InWindow(win, t)) \in Nat
<1>1. InWindow(win, t) \in Seq(Nat)
      /\ Count(InWindow(win, t), Nat) = Count(win, Nat \ (0..(t - RateWindow)))
  BY InWindowCounts
<1>2. Count(InWindow(win, t), Nat) = Len(InWindow(win, t))
  BY <1>1, CountAll
<1>3. /\ Count(win, Nat \ (0..(t - RateWindow))) <= Len(win)
      /\ Count(win, Nat \ (0..(t - RateWindow))) \in Nat /\ Len(win) \in Nat
  BY CountFinite, LenProperties
<1> QED BY <1>1, <1>2, <1>3, Numbers

LEMMA RateRoomy ==
  ASSUME RateInv, NEW ip \in Ips, NEW D \in RateRoom(ip)
  PROVE  /\ D \subseteq DOMAIN windows /\ (ip \in DOMAIN windows => D = DOMAIN windows)
         /\ IsFiniteSet(D \cup {ip})
         /\ Cardinality(D \cup {ip}) <= RateCap
<1>1. D \subseteq DOMAIN windows /\ (ip \in DOMAIN windows => D = DOMAIN windows)
  BY Remaining DEF RateRoom
<1>2. IsFiniteSet(DOMAIN windows) /\ IsFiniteSet(D) /\ IsFiniteSet(D \cup {ip})
  BY <1>1, FS_Subset, FS_AddElement DEF RateInv, Rated
<1>3. Cardinality(DOMAIN windows) \in Nat /\ Cardinality(D) \in Nat
  BY <1>2, FS_CardinalityType
<1>4. Cardinality(D \cup {ip}) = IF ip \in D THEN Cardinality(D) ELSE Cardinality(D) + 1
  BY <1>2, FS_AddElement
<1>5. Cardinality(DOMAIN windows) <= RateCap
  BY DEF RateInv, Rated
<1>6. CASE ip \notin DOMAIN windows /\ Cardinality(DOMAIN windows) >= RateCap
  <2>1. D \in Survivors(windows, RateRank(windows), RateCap - 1)
    BY <1>6 DEF RateRoom
  <2>2. Cardinality(D) = RateCap - 1
    BY <2>1, <1>3, <1>6, Numbers, Remaining
  <2> QED BY <2>2, <1>1, <1>2, <1>4, Numbers
<1>7. CASE ~(ip \notin DOMAIN windows /\ Cardinality(DOMAIN windows) >= RateCap)
  <2>1. D = DOMAIN windows
    BY <1>7 DEF RateRoom
  <2> QED BY <2>1, <1>1, <1>2, <1>3, <1>4, <1>5, <1>7, Numbers
<1> QED BY <1>1, <1>2, <1>6, <1>7

LEMMA LimitRate ==
  ASSUME IInv, RateInv, NEW w \in Workers, EnforceAuthRateLimit(w)
  PROVE  RateInv'
<1>1. pc[w] = "limit" /\ now' = now /\ now \in Nat /\ Busy
  BY DEF EnforceAuthRateLimit, bounds, IInv, Busy
<1>2. PICK ip \in Ips : ip = req[w].ip
  BY <1>1 DEF Busy, Requests
<1>3. PICK t \in 0..now : t = clock[w]
  BY <1>1 DEF Busy
<1> DEFINE old(D) == IF ip \in D THEN windows[ip] ELSE <<>>
           times(D) == InWindow(old(D), t)
           known(D) == [i \in Ips |-> IF i \in DOMAIN windows \ D THEN <<>> ELSE admitted[i]]
<1>4. PICK D \in RateRoom(ip) :
        /\ windows' = Put(Keep(windows, D), ip,
                          IF Limited(times(D)) THEN times(D) ELSE Append(times(D), t))
        /\ IF Limited(times(D)) THEN Answer(w) /\ admitted' = known(D)
           ELSE /\ Goto(w, "body") /\ NoClock(w)
                /\ admitted' = [known(D) EXCEPT ![ip] = Append(@, t)]
  BY <1>2, <1>3 DEF EnforceAuthRateLimit
<1>5. /\ D \subseteq DOMAIN windows /\ (ip \in DOMAIN windows => D = DOMAIN windows)
      /\ IsFiniteSet(D \cup {ip}) /\ Cardinality(D \cup {ip}) <= RateCap
  BY RateRoomy
<1> DEFINE past == InWindow(Win(ip), t)
           put == IF Limited(past) THEN past ELSE Append(past, t)
<1>6. times(D) = past
  BY <1>5 DEF Win
<1>7. /\ Win(ip) \in Seq(Nat) /\ Len(Win(ip)) <= RateLimit
      /\ past \in Seq(Nat) /\ Len(past) <= RateLimit /\ Len(past) \in Nat
  BY <1>1, Admitted, RatePruned
<1>8. windows' = Put(Keep(windows, D), ip, put)
  BY <1>4, <1>6, Zenon
<1> HIDE DEF past
<1>9. put \in Seq(Nat) /\ Len(put) <= RateLimit
  <2>1. t \in Nat
    BY <1>1
  <2>2. Append(past, t) \in Seq(Nat) /\ Len(Append(past, t)) = Len(past) + 1
    BY <1>7, <2>1, AppendProperties
  <2> QED BY <1>7, <2>2, Numbers DEF Limited
<1> HIDE DEF put
<1>10. DOMAIN windows' = D \cup {ip} /\ windows'[ip] = put
       /\ \A i \in D \ {ip} : windows'[i] = windows[i]
  BY <1>5, <1>8 DEF Put, Keep
<1>11. Rated'
  BY <1>5, <1>9, <1>10 DEF RateInv, Rated
<1>12. /\ pc'[w] # "limit"
       /\ \A v \in Workers \ {w} : pc'[v] = pc[v] /\ req'[v] = req[v] /\ clock'[v] = clock[v]
  <2>1. CASE Answer(w)
    BY <1>1, <2>1, AnsweredAlone
  <2>2. CASE Goto(w, "body") /\ NoClock(w)
    BY <1>1, <2>2, MovedAlone DEF Stages
  <2> QED BY <1>4, <2>1, <2>2
<1>13. \A i, x : Bringing(i, x)' = Bringing(i, x) \ {w}
  BY <1>12 DEF Bringing
<1>14. w \in Bringing(ip, t)
  BY <1>1, <1>2, <1>3 DEF Bringing
<1>15. Win(ip)' = put
  BY <1>10 DEF Win
<1> DEFINE noted == IF Limited(past) THEN admitted[ip] ELSE Append(admitted[ip], t)
<1>16. /\ admitted' \in [Ips -> Seq(0..now')]
       /\ admitted'[ip] = noted
       /\ \A i \in Ips \ {ip} : admitted'[i] =
            IF i \in DOMAIN windows \ D THEN <<>> ELSE admitted[i]
  <2>1. admitted \in [Ips -> Seq(0..now)]
    BY DEF RateInv
  <2>2. Append(admitted[ip], t) \in Seq(0..now) /\ <<>> \in Seq(0..now)
    BY <2>1, AppendProperties, EmptySeq
  <2>3. known(D) \in [Ips -> Seq(0..now)] /\ known(D)[ip] = admitted[ip]
    BY <1>5, <2>1, <2>2
  <2>4. CASE Limited(past)
    <3>1. admitted' = known(D)
      BY <1>4, <1>6, <2>4
    <3> QED BY <1>1, <2>3, <2>4, <3>1
  <2>5. CASE ~Limited(past)
    <3>1. admitted' = [known(D) EXCEPT ![ip] = Append(@, t)]
      BY <1>4, <1>6, <2>5
    <3>2. admitted' = [known(D) EXCEPT ![ip] = Append(admitted[ip], t)]
      BY <2>3, <3>1
    <3> QED BY <1>1, <2>2, <2>3, <2>5, <3>2
  <2> QED BY <2>4, <2>5
<1>17. ASSUME NEW x \in 0..now PROVE Metered(ip, x)'
  <2>1. CASE Limited(past)
    <3>1. Win(ip)' = InWindow(Win(ip), t) /\ admitted'[ip] = admitted[ip]
      BY <1>15, <1>16, <2>1 DEF past, put
    <3> QED BY <1>1, <1>13, <3>1, Pruned
  <2>2. CASE ~Limited(past)
    <3>1. Win(ip)' = Append(InWindow(Win(ip), t), t)
          /\ admitted'[ip] = Append(admitted[ip], t)
      BY <1>15, <1>16, <2>2 DEF past, put
    <3> QED BY <1>1, <1>3, <1>13, <1>14, <3>1, Entered
  <2> QED BY <2>1, <2>2
<1>18. ASSUME NEW i \in Ips \ {ip}, NEW x \in 0..now PROVE Metered(i, x)'
  <2>1. CASE i \in DOMAIN windows \ D
    <3>1. Win(i)' \in Seq(Nat) /\ x \in Nat
      BY <1>1, <1>10, <1>11 DEF Win, Rated
    <3>2. admitted'[i] = <<>>
      BY <1>16, <2>1
    <3>3. Covered(admitted'[i], Win(i)', x)
      BY <3>1, <3>2, NothingCovers
    <3> QED BY <3>3 DEF Metered
  <2>2. CASE i \notin DOMAIN windows \ D
    <3>1. Win(i)' = Win(i) /\ admitted'[i] = admitted[i]
      BY <1>5, <1>10, <1>16, <2>2 DEF Win
    <3> QED BY <1>1, <1>13, <3>1, MeterStays DEF RateInv
  <2> QED BY <2>1, <2>2
<1> QED BY <1>1, <1>11, <1>16, <1>17, <1>18 DEF RateInv

LEMMA CleanupRate ==
  ASSUME IInv, RateInv, Cleanup
  PROVE  RateInv'
<1>1. UNCHANGED <<now, req, pc, clock>> /\ now \in Nat
  BY DEF Cleanup, bounds, workers, IInv, Busy
<1> DEFINE pruned == [ip \in DOMAIN windows |-> InWindow(windows[ip], now)]
           used == {ip \in DOMAIN windows : pruned[ip] # <<>>}
<1>2. PICK D \in Survivors(Keep(pruned, used), RateRank(pruned), RateCap) :
        /\ windows' = Keep(pruned, D)
        /\ admitted' = [ip \in Ips |-> IF ip \in used \ D THEN <<>> ELSE admitted[ip]]
  BY DEF Cleanup
<1>3. /\ DOMAIN pruned = DOMAIN windows /\ used \subseteq DOMAIN windows
      /\ \A ip \in DOMAIN windows : pruned[ip] = InWindow(windows[ip], now)
      /\ \A ip \in DOMAIN windows \ used : InWindow(windows[ip], now) = <<>>
  OBVIOUS
<1> HIDE DEF pruned, used
<1>4. DOMAIN Keep(pruned, used) = used
  BY <1>3 DEF Keep
<1>5. D \subseteq used /\ Cardinality(D) = IF Cardinality(used) <= RateCap
                                          THEN Cardinality(used) ELSE RateCap
  BY <1>2, <1>4, Remaining
<1>6. DOMAIN windows' = D /\ \A ip \in D : windows'[ip] = InWindow(windows[ip], now)
  BY <1>2, <1>3, <1>5 DEF Keep
<1>7. Rated'
  <2>1. IsFiniteSet(DOMAIN windows) /\ IsFiniteSet(used) /\ IsFiniteSet(D)
    BY <1>3, <1>5, FS_Subset DEF RateInv, Rated
  <2>2. Cardinality(used) \in Nat /\ Cardinality(D) \in Nat
    BY <2>1, FS_CardinalityType
  <2>3. Cardinality(D) <= RateCap
    BY <1>5, <2>2, Numbers
  <2>4. ASSUME NEW ip \in D PROVE windows'[ip] \in Seq(Nat) /\ Len(windows'[ip]) <= RateLimit
    <3>1. windows[ip] \in Seq(Nat) /\ Len(windows[ip]) <= RateLimit
      BY <1>3, <1>5 DEF RateInv, Rated
    <3> QED BY <1>6, <3>1, RatePruned
  <2> QED BY <1>3, <1>5, <1>6, <2>1, <2>3, <2>4 DEF RateInv, Rated
<1>8. admitted' \in [Ips -> Seq(0..now')]
  <2>1. <<>> \in Seq(0..now)
    BY EmptySeq
  <2> QED BY <1>1, <1>2, <2>1 DEF RateInv
<1>9. ASSUME NEW ip \in Ips, NEW x \in 0..now PROVE Metered(ip, x)'
  <2>1. Bringing(ip, x)' = Bringing(ip, x)
    BY <1>1 DEF Bringing
  <2>2. CASE ip \in used \ D
    <3>1. admitted'[ip] = <<>> /\ Win(ip)' = <<>> /\ x \in Nat
      BY <1>1, <1>2, <1>6, <2>2 DEF Win
    <3>2. Covered(admitted'[ip], Win(ip)', x)
      BY <3>1, NothingCovers, EmptySeq
    <3> QED BY <3>2 DEF Metered
  <2>3. CASE ip \in DOMAIN windows /\ ip \notin used \ D
    <3>1. Win(ip)' = InWindow(Win(ip), now) /\ admitted'[ip] = admitted[ip]
      BY <1>2, <1>3, <1>5, <1>6, <2>3 DEF Win
    <3>2. now \in 0..now
      BY <1>1
    <3> QED BY <1>1, <2>1, <3>1, <3>2, Pruned
  <2>4. CASE ip \notin DOMAIN windows
    <3>1. Win(ip)' = Win(ip) /\ admitted'[ip] = admitted[ip]
      BY <1>2, <1>3, <1>5, <1>6, <2>4 DEF Win
    <3> QED BY <1>1, <2>1, <3>1, MeterStays DEF RateInv
  <2> QED BY <1>3, <2>2, <2>3, <2>4
<1> QED BY <1>1, <1>7, <1>8, <1>9 DEF RateInv

\* Time passes: what was admitted up to now is all there was up to the next instant.
LEMMA TickRate ==
  ASSUME IInv, RateInv, Tick
  PROVE  RateInv'
<1>1. UNCHANGED <<windows, req, pc, clock>> /\ now \in Nat /\ now' = now + 1
  BY DEF Tick, stores, workers, IInv, Busy
<1> DEFINE gone == 0..(now' - RateWindow - Skew)
<1>2. admitted' = [ip \in Ips |-> Retain(admitted[ip], gone)]
  BY DEF Tick
<1> HIDE DEF gone
<1>3. Rated'
  BY <1>1 DEF RateInv, Rated
<1>4. ASSUME NEW ip \in Ips
      PROVE  /\ admitted[ip] \in Seq(0..now) /\ admitted[ip] \in Seq(Nat)
             /\ admitted'[ip] \in Seq(0..now) /\ admitted'[ip] \in Seq(Nat)
             /\ Win(ip) \in Seq(Nat) /\ Len(Win(ip)) <= RateLimit
             /\ Win(ip)' = Win(ip)
  BY <1>1, <1>2, Admitted, RetainCounts DEF Win
<1>5. ASSUME NEW ip \in Ips, NEW Y, NEW Z, Y \cap (0..now) \subseteq Z
      PROVE  Count(admitted'[ip], Y) <= Count(admitted[ip], Z)
  <2>1. Count(admitted'[ip], Y) = Count(admitted[ip], Y \ gone)
    BY <1>2, <1>4, RetainCounts
  <2>2. (Y \ gone) \cap (0..now) \subseteq Z
    BY <1>5
  <2> QED BY <1>4, <2>1, <2>2, CountMonotone
<1>6. admitted' \in [Ips -> Seq(0..now')]
  <2>1. 0..now \subseteq 0..now'
    BY <1>1
  <2>2. \A ip \in Ips : admitted'[ip] \in Seq(0..now')
    BY <1>4, <2>1, SeqMonotonic
  <2> QED BY <1>2, <2>2
<1>7. ASSUME NEW ip \in Ips, NEW x \in 0..now, NEW z \in x..(x + 1),
             z = x \/ x = now, Covered(admitted[ip], Win(ip), x)
      PROVE  Metered(ip, z)'
  <2>1. SUFFICES Covered(admitted'[ip], Win(ip)', z)
    BY DEF Metered
  <2>2. SUFFICES ASSUME NEW y \in Int, y >= z - RateWindow
                 PROVE  Count(admitted'[ip], (y + 1)..z) <= Count(Win(ip), Above(y))
    BY <1>4 DEF Covered
  <2>3. Count(admitted[ip], (y + 1)..x) <= Count(Win(ip), Above(y))
    BY <1>1, <1>7, <2>2, Numbers DEF Covered
  <2>4. ((y + 1)..z) \cap (0..now) \subseteq (y + 1)..x
    BY <1>1, <1>7
  <2>5. Count(admitted'[ip], (y + 1)..z) <= Count(admitted[ip], (y + 1)..x)
    BY <1>5, <2>4
  <2>6. /\ Count(admitted'[ip], (y + 1)..z) \in Nat /\ Count(admitted[ip], (y + 1)..x) \in Nat
        /\ Count(Win(ip), Above(y)) \in Nat
    BY <1>4, CountFinite
  <2> QED BY <2>3, <2>5, <2>6
<1>8. ASSUME NEW ip \in Ips, NEW x \in 0..now, Spent(ip, x) PROVE Metered(ip, x)'
  <2> DEFINE Y == (x - RateWindow + 1)..x
  <2>1. Count(admitted'[ip], Y) <= Count(admitted[ip], Y)
        /\ Count(admitted'[ip], Y) \in Nat /\ Count(admitted[ip], Y) \in Nat
    <3> HIDE DEF Y
    <3> QED BY <1>4, <1>5, CountFinite
  <2>2. Bringing(ip, x)' = Bringing(ip, x)
    BY <1>1 DEF Bringing
  <2>3. Cardinality(Bringing(ip, x)) \in Nat /\ Cardinality(Workers) \in Nat
    BY Bringers
  <2>4. Count(admitted[ip], Y) + Cardinality(Bringing(ip, x)) <= RateLimit + Cardinality(Workers)
        /\ x < now
    BY <1>8 DEF Spent
  <2>5. Count(admitted'[ip], Y) + Cardinality(Bringing(ip, x)) <= RateLimit + Cardinality(Workers)
    BY <2>1, <2>3, <2>4, Numbers
  <2>6. x < now'
    BY <1>1, <2>4
  <2>7. Spent(ip, x)'
    BY <2>2, <2>5, <2>6 DEF Spent
  <2> QED BY <2>7 DEF Metered
<1>9. ASSUME NEW ip \in Ips, NEW z \in 0..now' PROVE Metered(ip, z)'
  <2>1. CASE z \in 0..now
    <3>1. Metered(ip, z) /\ z \in z..(z + 1)
      BY <2>1 DEF RateInv
    <3> QED BY <1>7, <1>8, <2>1, <3>1 DEF Metered
  <2>2. CASE z = now + 1
    <3>1. now \in 0..now /\ Metered(ip, now) /\ z \in now..(now + 1)
      BY <1>1, <2>2 DEF RateInv
    <3>2. ~Spent(ip, now)
      BY <1>1 DEF Spent
    <3> QED BY <1>7, <3>1, <3>2 DEF Metered
  <2> QED BY <1>1, <2>1, <2>2
<1> QED BY <1>3, <1>6, <1>9 DEF RateInv
-----------------------------------------------------------------------------
(* Theorems about the histories                                            *)

HInv == IInv /\ GuessInv /\ RateInv /\ requests \in Nat

LEMMA InitHistories == Init => HInv
<1> SUFFICES ASSUME Init PROVE HInv
  OBVIOUS
<1>1. IInv
  BY InitInv
<1>2. now = 0 /\ DOMAIN lockout = {} /\ DOMAIN windows = {} /\ requests \in Nat
  BY DEF Init
<1>3. GuessInv
  <2>1. tries \in [Keys -> Seq(Recent)]
    BY EmptySeq DEF Init
  <2>2. Timely
    BY DEF Init, Timely
  <2>3. ASSUME NEW k \in Keys PROVE Tracked(k)
    <3>1. Len(tries[k]) = 0
      BY DEF Init
    <3>2. Cardinality(Failing(k)) \in Nat
      BY Heads
    <3> QED BY <1>2, <3>1, <3>2 DEF Tracked, Unrecorded
  <2> QED BY <2>1, <2>2, <2>3 DEF GuessInv
<1>4. RateInv
  <2>1. Rated
    BY <1>2, FS_EmptySet, Numbers DEF Rated
  <2>2. admitted \in [Ips -> Seq(0..now)]
    BY EmptySeq DEF Init
  <2>3. ASSUME NEW ip \in Ips, NEW x \in 0..now PROVE Metered(ip, x)
    <3>1. admitted[ip] = <<>> /\ Win(ip) = <<>> /\ x \in Nat
      BY <1>2 DEF Init, Win
    <3> QED BY <3>1, NothingCovers, EmptySeq DEF Metered
  <2> QED BY <2>1, <2>2, <2>3 DEF RateInv
<1> QED BY <1>1, <1>2, <1>3, <1>4 DEF HInv

\* What a handler does to the workers, and whether it touches the limiter's store.
LEMMA Handled ==
  ASSUME IInv, NEW w \in Workers, Handler(w)
  PROVE  /\ \A v \in Workers \ {w} : pc'[v] = pc[v] /\ req'[v] = req[v] /\ clock'[v] = clock[v]
         /\ pc'[w] = "limit" => clock'[w] = now
         /\ UNCHANGED <<windows, admitted>> \/ EnforceAuthRateLimit(w)
         /\ now' = now /\ (requests \in Nat => requests' \in Nat)
<1>1. Busy
  BY DEF IInv
<1>2. ASSUME NEW r \in Requests, Arrive(w, r)
      PROVE  /\ \A v \in Workers \ {w} : pc'[v] = pc[v] /\ req'[v] = req[v] /\ clock'[v] = clock[v]
             /\ pc'[w] = "limit" /\ clock'[w] = now
             /\ UNCHANGED <<windows, admitted, now, lockout, tries>> /\ requests' = requests + 1
             /\ pc[w] = "idle"
  BY <1>1, <1>2 DEF Arrive, ReadClock, Busy, stores, histories
<1>3. CASE \E r \in Requests : Arrive(w, r)
  BY <1>2, <1>3
<1>4. CASE EnforceAuthRateLimit(w) \/ BadBody(w) \/ IsLocked(w) \/ VerifyPassword(w)
           \/ RecordFailure(w) \/ Rehash(w) \/ Welcome(w) \/ CreateAccount(w)
  <2>1. \/ Answer(w)
        \/ \E l \in Stages \ {"limit"} :
              Goto(w, l) /\ (UNCHANGED clock \/ NoClock(w) \/ ReadClock(w))
    BY <1>4 DEF EnforceAuthRateLimit, BadBody, IsLocked, VerifyPassword, RecordFailure,
                Rehash, Welcome, CreateAccount, NeedsRehash, Stages
  <2>2. UNCHANGED <<windows, admitted>> \/ EnforceAuthRateLimit(w)
    BY <1>4 DEF BadBody, IsLocked, VerifyPassword, RecordFailure, Rehash, Welcome,
                CreateAccount, stores, histories
  <2>3. UNCHANGED <<now, requests>>
    BY <1>4 DEF EnforceAuthRateLimit, BadBody, IsLocked, VerifyPassword, RecordFailure,
                Rehash, Welcome, CreateAccount, bounds
  <2>4. CASE Answer(w)
    BY <1>1, <2>2, <2>3, <2>4, AnsweredAlone
  <2>5. ASSUME NEW l \in Stages \ {"limit"}, Goto(w, l),
               UNCHANGED clock \/ NoClock(w) \/ ReadClock(w)
        PROVE  /\ \A v \in Workers \ {w} : pc'[v] = pc[v] /\ req'[v] = req[v] /\ clock'[v] = clock[v]
               /\ pc'[w] # "limit"
    BY <1>1, <2>5, MovedAlone
  <2> QED BY <2>1, <2>2, <2>3, <2>4, <2>5
<1> QED BY <1>3, <1>4 DEF Handler

LEMMA HandlerGuess ==
  ASSUME IInv, GuessInv, NEW w \in Workers, Handler(w)
  PROVE  GuessInv'
<1>1. Busy
  BY DEF IInv
<1>2. ASSUME (\E r \in Requests : Arrive(w, r)) \/ EnforceAuthRateLimit(w) \/ BadBody(w)
             \/ Rehash(w) \/ CreateAccount(w)
      PROVE  GuessInv'
  <2>1. UNCHANGED <<now, lockout, tries>> /\ pc[w] # "failed"
    BY <1>2 DEF Arrive, EnforceAuthRateLimit, BadBody, Rehash, CreateAccount, stores, bounds,
                histories
  <2>2. pc'[w] \notin {"failed", "verify"}
    <3>1. CASE Answer(w)
      BY <1>1, <3>1, AnsweredAlone
    <3>2. CASE Goto(w, "body") \/ Goto(w, "user")
      BY <1>1, <3>2 DEF Goto, Busy
    <3>3. CASE pc' = [pc EXCEPT ![w] = "limit"]
      BY <1>1, <3>3 DEF Busy
    <3> QED BY <1>2, <3>1, <3>2, <3>3 DEF Arrive, EnforceAuthRateLimit, BadBody, Rehash,
                                           CreateAccount
  <2> QED BY <2>1, <2>2, Handled, NothingGuessed
<1> QED BY <1>2, IsLockedGuess, VerifyGuess, RecordGuess, WelcomeGuess DEF Handler

LEMMA HandlerRate ==
  ASSUME IInv, RateInv, NEW w \in Workers, Handler(w)
  PROVE  RateInv'
<1>1. now \in Nat
  BY DEF IInv, Busy
<1> QED BY <1>1, Handled, LimitRate, NothingBrought

LEMMA StutterHistories ==
  ASSUME HInv, UNCHANGED vars
  PROVE  GuessInv' /\ RateInv' /\ requests' \in Nat
<1>1. UNCHANGED <<lockout, windows, req, pc, clock, now, requests, tries, admitted>>
  BY DEF vars, stores, workers, bounds, histories
<1>2. GuessInv /\ RateInv /\ requests \in Nat
  BY DEF HInv
<1>3. GuessInv'
  BY <1>1, <1>2 DEF GuessInv, Recent, Timely, Tracked, Recorded, Unrecorded, Failing, Guessing, Key
<1>4. RateInv'
  BY <1>1, <1>2 DEF RateInv, Rated, Metered, Win, Spent, Bringing
<1> QED BY <1>1, <1>2, <1>3, <1>4

\* What the stores have counted, and what each worker still brings them, accounts
\* for every wrong guess and every admitted request.
THEOREM Histories == Spec => []HInv
<1>1. HInv /\ [Next]_vars => HInv'
  <2> SUFFICES ASSUME HInv, [Next]_vars PROVE HInv'
    OBVIOUS
  <2>1. IInv /\ GuessInv /\ RateInv /\ requests \in Nat
    BY DEF HInv
  <2>2. IInv'
    BY <2>1, Inductive
  <2>3. ASSUME NEW w \in Workers, Handler(w) PROVE HInv'
    BY <2>1, <2>2, <2>3, Handled, HandlerGuess, HandlerRate DEF HInv
  <2>4. CASE Cleanup
    BY <2>1, <2>2, <2>4, CleanupGuess, CleanupRate DEF HInv, Cleanup, bounds
  <2>5. CASE Tick
    BY <2>1, <2>2, <2>5, TickGuess, TickRate DEF HInv, Tick
  <2>6. CASE UNCHANGED vars
    BY <2>2, <2>6, StutterHistories DEF HInv
  <2> QED BY <2>3, <2>4, <2>5, <2>6 DEF Next
<1> QED BY <1>1, InitHistories, PTL DEF Spec

\* Both stores stay within their capacity, a window within its limit, whatever
\* is evicted or pruned, and every worker that has passed is_locked has a request.
THEOREM TypeCorrect == Spec => []TypeOK
<1>1. HInv => TypeOK
  <2> SUFFICES ASSUME HInv PROVE TypeOK
    OBVIOUS
  <2>1. Sane /\ Busy /\ Owned /\ GuessInv /\ RateInv /\ Rated /\ requests \in Nat
    BY DEF HInv, IInv, RateInv
  <2>2. tries \in [Keys -> Seq(Nat)]
    <3>1. \A k \in Keys : tries[k] \in Seq(Nat)
      BY <2>1, Tries DEF Busy
    <3> QED BY <2>1, <3>1 DEF GuessInv
  <2>3. admitted \in [Ips -> Seq(Nat)]
    <3>1. \A ip \in Ips : admitted[ip] \in Seq(Nat)
      BY <2>1, Admitted DEF Busy
    <3> QED BY <2>1, <3>1 DEF RateInv
  <2>4. /\ DOMAIN lockout \subseteq Keys
        /\ \A k \in DOMAIN lockout : lockout[k] \in LoginAttempt
        /\ Cardinality(DOMAIN lockout) <= LockCap
    BY <2>1 DEF Sane
  <2>5. /\ DOMAIN windows \subseteq Ips
        /\ \A ip \in DOMAIN windows : windows[ip] \in Seq(Nat) /\ Len(windows[ip]) <= RateLimit
        /\ Cardinality(DOMAIN windows) <= RateCap
    BY <2>1 DEF Rated
  <2>6. /\ auth \in [Emails -> Hashes \cup {Nothing}]
        /\ original \in [Emails -> Hashes \cup {Nothing}]
    BY <2>1 DEF Owned
  <2>7. /\ req \in [Workers -> Requests \cup {Nothing}]
        /\ pc \in [Workers -> Stages]
        /\ clock \in [Workers -> Nat]
        /\ <<now, requests>> \in Nat \X Nat
    BY <2>1 DEF Busy
  <2> QED BY <2>2, <2>3, <2>4, <2>5, <2>6, <2>7 DEF TypeOK
<1> QED BY <1>1, Histories, PTL

\* Wrong guesses at an account within a window stay below the threshold, and one
\* more for each worker past the check, however checks, counts, evictions,
\* cleanups and the clock interleave.
THEOREM GuessesAreBounded == Spec => []GuessesBounded
<1>1. HInv => GuessesBounded
  <2> SUFFICES ASSUME HInv, NEW k \in Keys
               PROVE  Len(tries[k]) < Threshold + Cardinality(Workers)
    BY DEF GuessesBounded
  <2>1. Tracked(k) /\ Len(tries[k]) \in Nat
    BY Tries DEF HInv, GuessInv, IInv, Busy
  <2>2. /\ Cardinality(Failing(k)) \in Nat /\ Cardinality(Guessing(k)) \in Nat
        /\ Cardinality(Workers) \in Nat
        /\ Cardinality(Failing(k)) + Cardinality(Guessing(k)) <= Cardinality(Workers)
    BY Heads
  <2>3. CASE k \in DOMAIN lockout
    <3>1. lockout[k].attempts \in Nat /\ Recorded(k)
      BY <2>1, <2>3 DEF HInv, IInv, Sane, LoginAttempt, Tracked
    <3> QED BY <2>1, <2>2, <3>1, Numbers DEF Recorded
  <2>4. CASE k \notin DOMAIN lockout
    BY <2>1, <2>2, <2>4, Numbers DEF Tracked, Unrecorded
  <2> QED BY <2>3, <2>4
<1> QED BY <1>1, Histories, PTL

\* Requests of an address stamped within one window that pass the limiter are at
\* most the limit, and one more for each worker whose time is older than a pruning.
THEOREM RatesAreBounded == Spec => []RateBounded
<1>1. HInv => RateBounded
  <2> SUFFICES ASSUME HInv, NEW ip \in Ips, NEW x \in 0..now
               PROVE  Count(admitted[ip], (x - RateWindow + 1)..x)
                        <= RateLimit + Cardinality(Workers)
    BY DEF RateBounded
  <2>1. RateInv /\ now \in Nat
    BY DEF HInv, IInv, Busy
  <2>2. /\ admitted[ip] \in Seq(Nat) /\ Win(ip) \in Seq(Nat) /\ Len(Win(ip)) <= RateLimit
        /\ Metered(ip, x)
    BY <2>1, Admitted DEF RateInv
  <2>3. Cardinality(Bringing(ip, x)) \in Nat /\ Cardinality(Workers) \in Nat
    BY Bringers
  <2> DEFINE c == Count(admitted[ip], (x - RateWindow + 1)..x)
  <2>4. c \in Nat
    BY <2>2, CountFinite
  <2>5. CASE Covered(admitted[ip], Win(ip), x)
    <3>1. c <= RateLimit
      BY <2>1, <2>2, <2>5, CoverBounds
    <3> HIDE DEF c
    <3>2. c <= RateLimit + Cardinality(Workers)
      BY <2>3, <2>4, <3>1, Numbers
    <3> QED BY <3>2 DEF c
  <2>6. CASE Spent(ip, x)
    <3>1. c + Cardinality(Bringing(ip, x)) <= RateLimit + Cardinality(Workers)
      BY <2>6 DEF Spent
    <3> HIDE DEF c
    <3>2. c <= RateLimit + Cardinality(Workers)
      BY <2>3, <2>4, <3>1, Numbers
    <3> QED BY <3>2 DEF c
  <2> QED BY <2>2, <2>5, <2>6 DEF Metered
<1> QED BY <1>1, Histories, PTL
=============================================================================
