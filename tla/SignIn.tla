------------------------------- MODULE SignIn -------------------------------
(***************************************************************************)
(* Signing in and signing up: routes::signin, signup, and the two stores   *)
(* that slow guessing down, stores::LockoutStore, one record for each pair *)
(* of e-mail and address, and stores::RateLimitStore, one window for each  *)
(* address.                                                                *)
(*                                                                         *)
(* A worker reads the clock, then takes the store's mutex: the time it     *)
(* brings may be older than what the store already holds.  It looks for a  *)
(* lock before the slow password check and counts the failure after it, so *)
(* other workers' attempts with the same key run in between.               *)
(***************************************************************************)
EXTENDS Retain

CONSTANTS Workers,        \* the threads that run handlers
          Emails, Ips, Passwords,
          Threshold,      \* LOCKOUT_THRESHOLD
          Duration,       \* LOCKOUT_DURATION_MS
          Window,         \* LOCKOUT_ATTEMPT_WINDOW_MS
          LockCap,        \* LOCKOUT_MAX_ENTRIES
          RateLimit,      \* AUTH_RATE_LIMIT
          RateWindow,     \* AUTH_RATE_WINDOW_MS
          RateCap,        \* AUTH_RATE_MAX_ENTRIES
          Skew,           \* how old a time can be when it reaches a store
          Schemes,        \* the ways a password is hashed; new hashes are "scrypt"
          KeyOf,          \* what a scheme uses of a password, see Same
          Nothing,        \* no request, no password hash
          MaxTime,        \* bound on the clock
          MaxRequests     \* bound on requests

Keys == Emails \X Ips
Hashes == [pass : Passwords, kind : Schemes]
Requests == [ask : {"signin", "signup"}, email : Emails, ip : Ips, pass : Passwords]

ASSUME SignInAssumption ==
    /\ {Threshold, Duration, Window, LockCap, RateLimit, RateWindow, RateCap}
         \subseteq Nat \ {0}
    /\ {Skew, MaxTime, MaxRequests} \subseteq Nat
    /\ Skew < Window /\ Window <= Duration
    /\ "scrypt" \in Schemes /\ KeyOf \in [Schemes -> [Passwords -> Passwords]]
    /\ IsFiniteSet(Workers) /\ IsFiniteSet(Keys)
    /\ Nothing \notin Hashes \cup Requests

VARIABLES lockout,        \* (email, IP) -> LoginAttempt, a HashMap
          windows,        \* IP -> the times of its requests, a HashMap
          auth,           \* the hash of each e-mail's account, or Nothing
          req, pc, clock, \* each worker's request, where it stands, time it read
          now, requests,
          tries,          \* history: recent wrong guesses of a key
          admitted,       \* history: times with which an IP's requests passed
          original           \* history: the hash each account started with

stores == <<lockout, windows>>
workers == <<req, pc, clock>>
bounds == <<now, requests>>
histories == <<tries, admitted, original>>
vars == <<stores, auth, workers, bounds, histories>>

NotLocked == 0
LoginAttempt == [attempts : Nat, until : Nat, last : Nat]

Key(w) == <<req[w].email, req[w].ip>>

-----------------------------------------------------------------------------
(* Deviations from the code, each of which breaks a property.              *)

CountedTooLate(r, t) ==
    LET stale == t > r.last + Window
        n == (IF stale THEN 0 ELSE r.attempts) + 1
    IN [attempts |-> n,
        until |-> IF n > Threshold THEN t + Duration
                  ELSE IF stale THEN NotLocked ELSE r.until,
        last |-> t]
LimitedTooLate(times) == Len(times) > RateLimit
LockRankByFailure == [k \in DOMAIN lockout |-> lockout[k].last]
MakeRoomNever(k) == {DOMAIN lockout}

-----------------------------------------------------------------------------
(* The stores                                                              *)

Keep(map, D) == [k \in DOMAIN map \cap D |-> map[k]]
Forget(map, k) == Keep(map, DOMAIN map \ {k})
Put(map, k, v) == [x \in DOMAIN map \cup {k} |-> IF x = k THEN v ELSE map[x]]

\* evict_oldest_entries: the keys that may remain when the oldest, by rank,
\* are dropped until cap are left.  Between equal ranks anything goes.
Survivors(map, rank, cap) ==
    {D \in SUBSET DOMAIN map :
        /\ Cardinality(D) = IF Cardinality(DOMAIN map) <= cap
                            THEN Cardinality(DOMAIN map) ELSE cap
        /\ \A k \in D : \A d \in DOMAIN map \ D : rank[d] <= rank[k]}

\* A lock ranks by its end, an unlocked record by its last failure.
LockRank == [k \in DOMAIN lockout |-> IF lockout[k].until # NotLocked
                                      THEN lockout[k].until ELSE lockout[k].last]

RateRank(map) == [ip \in DOMAIN map |-> IF map[ip] = <<>> THEN 0 ELSE Head(map[ip])]

\* The record after one more failure, at time t.
Counted(r, t) ==
    LET stale == t > r.last + Window
        n == (IF stale THEN 0 ELSE r.attempts) + 1
    IN [attempts |-> n,
        until |-> IF n >= Threshold THEN t + Duration
                  ELSE IF stale THEN NotLocked ELSE r.until,
        last |-> t]

FirstFailure(t) == [attempts |-> 0, until |-> NotLocked, last |-> t]

\* make_room: a record for k fits, the map being bounded on the way in.
MakeRoom(k) == IF k \notin DOMAIN lockout /\ Cardinality(DOMAIN lockout) >= LockCap
               THEN Survivors(lockout, LockRank, LockCap - 1)
               ELSE {DOMAIN lockout}

RateRoom(ip) == IF ip \notin DOMAIN windows /\ Cardinality(DOMAIN windows) >= RateCap
                THEN Survivors(windows, RateRank(windows), RateCap - 1)
                ELSE {DOMAIN windows}

Limited(times) == Len(times) >= RateLimit

InWindow(times, t) == Retain(times, 0..(t - RateWindow))

-----------------------------------------------------------------------------
Goto(w, l) == pc' = [pc EXCEPT ![w] = l] /\ UNCHANGED req
ReadClock(w) == clock' = [clock EXCEPT ![w] = now]
NoClock(w) == clock' = [clock EXCEPT ![w] = 0]

Answer(w) == /\ pc' = [pc EXCEPT ![w] = "idle"] /\ NoClock(w)
             /\ req' = [req EXCEPT ![w] = Nothing]

\* hash_password, with CURRENT_PARAMS
HashPassword(p) == [pass |-> p, kind |-> "scrypt"]

\* needs_rehash: of bcrypt, and of scrypt with other parameters.
NeedsRehash(h) == h.kind # "scrypt"

\* A scheme tells two passwords apart by what it uses of them only: bcrypt by the
\* first 72 bytes of the password and its NUL, repeated; scrypt by HMAC's key.
Same(s, p, q) == KeyOf[s][p] = KeyOf[s][q]

\* verify_password, for an account that may not exist
Opens(h, p) == h # Nothing /\ Same(h.kind, h.pass, p)

\* The accounts at the start were created by this version or an earlier one.
Init == /\ lockout = <<>> /\ windows = <<>>
        /\ auth \in [Emails -> Hashes \cup {Nothing}]
        /\ req = [w \in Workers |-> Nothing]
        /\ pc = [w \in Workers |-> "idle"]
        /\ clock = [w \in Workers |-> 0]
        /\ now = 0 /\ requests = 0
        /\ tries = [k \in Keys |-> <<>>]
        /\ admitted = [ip \in Ips |-> <<>>]
        /\ original = auth

Arrive(w, r) ==
    /\ pc[w] = "idle" /\ requests < MaxRequests
    /\ requests' = requests + 1
    /\ req' = [req EXCEPT ![w] = r]
    /\ pc' = [pc EXCEPT ![w] = "limit"] /\ ReadClock(w)
    /\ UNCHANGED <<stores, auth, now, histories>>

\* enforce_auth_rate_limit, which runs before the body is parsed.
EnforceAuthRateLimit(w) ==
    LET ip == req[w].ip
    IN /\ pc[w] = "limit"
       /\ \E D \in RateRoom(ip) :
            LET times == InWindow(IF ip \in D THEN windows[ip] ELSE <<>>, clock[w])
                known == [i \in Ips |-> IF i \in DOMAIN windows \ D THEN <<>> ELSE admitted[i]]
            IN /\ windows' = Put(Keep(windows, D), ip,
                                 IF Limited(times) THEN times ELSE Append(times, clock[w]))
               /\ IF Limited(times)
                  THEN Answer(w) /\ admitted' = known
                  ELSE /\ Goto(w, "body") /\ NoClock(w)
                       /\ admitted' = [known EXCEPT ![ip] = Append(@, clock[w])]
       /\ UNCHANGED <<lockout, auth, bounds, tries, original>>

\* A body that does not parse or validate is answered 400.
BadBody(w) ==
    /\ pc[w] = "body"
    /\ Answer(w)
    /\ UNCHANGED <<stores, auth, bounds, histories>>

-----------------------------------------------------------------------------
(* signin                                                                  *)

\* is_locked.  Its clock is read in this step: an older time could only find a
\* lock that has just ended and refuse one more request.
IsLocked(w) ==
    LET k == Key(w)
        until == IF k \in DOMAIN lockout THEN lockout[k].until ELSE NotLocked
    IN /\ pc[w] = "body" /\ req[w].ask = "signin"
       /\ \/ /\ now < until
             /\ Answer(w) /\ UNCHANGED lockout
          \/ /\ until # NotLocked /\ now >= until
             /\ lockout' = Forget(lockout, k)
             /\ Goto(w, "verify") /\ UNCHANGED clock
          \/ /\ until = NotLocked
             /\ Goto(w, "verify") /\ UNCHANGED <<clock, lockout>>
       /\ UNCHANGED <<windows, auth, bounds, histories>>

\* find_auth and verify_password.  A database error is answered 500 and counts
\* as no failure; for a wrong guess the clock is read before it is counted.
VerifyPassword(w) ==
    LET stored == auth[req[w].email]
    IN /\ pc[w] = "verify"
       /\ \/ /\ Answer(w) /\ UNCHANGED tries
          \/ /\ ~Opens(stored, req[w].pass)
             /\ Goto(w, "failed") /\ ReadClock(w)
             /\ tries' = [tries EXCEPT ![Key(w)] = Append(@, now)]
          \/ /\ Opens(stored, req[w].pass)
             /\ Goto(w, IF NeedsRehash(stored) THEN "rehash" ELSE "user")
             /\ UNCHANGED <<clock, tries>>
       /\ UNCHANGED <<stores, auth, bounds, admitted, original>>

RecordFailure(w) ==
    LET k == Key(w)
    IN /\ pc[w] = "failed"
       /\ \E D \in MakeRoom(k) :
            LET old == IF k \in D THEN lockout[k] ELSE FirstFailure(clock[w])
            IN /\ lockout' = Put(Keep(lockout, D), k, Counted(old, clock[w]))
               /\ tries' = [x \in Keys |-> IF x \in DOMAIN lockout \ D THEN <<>> ELSE tries[x]]
       /\ Answer(w)
       /\ UNCHANGED <<windows, auth, bounds, admitted, original>>

\* update_auth_password: the typed password is hashed and stored over whatever
\* the row holds by now; a failure is logged.
Rehash(w) ==
    /\ pc[w] = "rehash"
    /\ \/ UNCHANGED auth
       \/ auth' = [auth EXCEPT ![req[w].email] = HashPassword(req[w].pass)]
    /\ Goto(w, "user")
    /\ UNCHANGED <<stores, clock, bounds, histories>>

\* The user is read and the record is cleared, whatever was counted since the
\* check.  When the user cannot be read the record stays as it is.
Welcome(w) ==
    /\ pc[w] = "user"
    /\ \/ UNCHANGED <<lockout, tries>>
       \/ /\ lockout' = Forget(lockout, Key(w))
          /\ tries' = [tries EXCEPT ![Key(w)] = <<>>]
    /\ Answer(w)
    /\ UNCHANGED <<windows, auth, bounds, admitted, original>>

-----------------------------------------------------------------------------
(* signup                                                                  *)

\* Faulty variant: INSERT OR REPLACE, so a second sign-up takes the account over.
CreateAccountReplaces(w) ==
    LET e == req[w].email
    IN /\ pc[w] = "body" /\ req[w].ask = "signup"
       /\ auth' = [auth EXCEPT ![e] = HashPassword(req[w].pass)]
       /\ original' = IF auth[e] = Nothing THEN [original EXCEPT ![e] = auth'[e]] ELSE original
       /\ Answer(w)
       /\ UNCHANGED <<stores, bounds, tries, admitted>>

\* create_account, one transaction: refused for an e-mail that has a row,
\* failed without effect, or failed after its effect (the answer was lost).
CreateAccount(w) ==
    LET e == req[w].email
    IN /\ pc[w] = "body" /\ req[w].ask = "signup"
       /\ \/ UNCHANGED <<auth, original>>
          \/ /\ auth[e] = Nothing
             /\ auth' = [auth EXCEPT ![e] = HashPassword(req[w].pass)]
             /\ original' = [original EXCEPT ![e] = HashPassword(req[w].pass)]
       /\ Answer(w)
       /\ UNCHANGED <<stores, bounds, tries, admitted>>

-----------------------------------------------------------------------------
(* The cleanup thread and time.  A restart empties the stores, as in Init. *)

\* run_lockout_cleanup: LockoutStore::cleanup, then RateLimitStore::cleanup.  One
\* step, as a delay between the two would only prune less of the second store.
Cleanup ==
    LET active == {k \in DOMAIN lockout :
                     IF lockout[k].until # NotLocked THEN now < lockout[k].until
                     ELSE now <= lockout[k].last + Window}
        pruned == [ip \in DOMAIN windows |-> InWindow(windows[ip], now)]
        used == {ip \in DOMAIN windows : pruned[ip] # <<>>}
    IN /\ \E D \in Survivors(Keep(lockout, active), LockRank, LockCap) :
            /\ lockout' = Keep(lockout, D)
            /\ tries' = [k \in Keys |-> IF k \in active \ D THEN <<>> ELSE tries[k]]
       /\ \E D \in Survivors(Keep(pruned, used), RateRank(pruned), RateCap) :
            /\ windows' = Keep(pruned, D)
            /\ admitted' = [ip \in Ips |-> IF ip \in used \ D THEN <<>> ELSE admitted[ip]]
       /\ UNCHANGED <<auth, workers, bounds, original>>

\* No thread waits longer than Skew between reading the clock and the mutex.
\* The histories keep what is recent enough to matter.
Span == Window - Skew
Tick ==
    /\ now < MaxTime
    /\ \A w \in Workers : pc[w] \in {"limit", "failed"} => now < clock[w] + Skew
    /\ now' = now + 1
    /\ tries' = [k \in Keys |-> Retain(tries[k], 0..(now' - Span))]
    /\ admitted' = [ip \in Ips |-> Retain(admitted[ip], 0..(now' - RateWindow - Skew))]
    /\ UNCHANGED <<stores, auth, workers, requests, original>>

Handler(w) == \/ \E r \in Requests : Arrive(w, r)
              \/ EnforceAuthRateLimit(w) \/ BadBody(w)
              \/ IsLocked(w) \/ VerifyPassword(w) \/ RecordFailure(w)
              \/ Rehash(w) \/ Welcome(w) \/ CreateAccount(w)

Next == \/ \E w \in Workers : Handler(w)
        \/ Cleanup \/ Tick

Spec == Init /\ [][Next]_vars

-----------------------------------------------------------------------------
(* Properties                                                              *)

Stages == {"idle", "limit", "body", "verify", "failed", "rehash", "user"}

\* Both stores stay within their capacity at every moment, cleanup or not, and
\* a worker that has passed is_locked holds the request it passed for.
TypeOK == /\ DOMAIN lockout \subseteq Keys
          /\ \A k \in DOMAIN lockout : lockout[k] \in LoginAttempt
          /\ Cardinality(DOMAIN lockout) <= LockCap
          /\ DOMAIN windows \subseteq Ips
          /\ \A ip \in DOMAIN windows : windows[ip] \in Seq(Nat) /\ Len(windows[ip]) <= RateLimit
          /\ Cardinality(DOMAIN windows) <= RateCap
          /\ auth \in [Emails -> Hashes \cup {Nothing}]
          /\ req \in [Workers -> Requests \cup {Nothing}]
          /\ pc \in [Workers -> Stages]
          /\ clock \in [Workers -> Nat]
          /\ <<now, requests>> \in Nat \X Nat
          /\ tries \in [Keys -> Seq(Nat)]
          /\ admitted \in [Ips -> Seq(Nat)]
          /\ original \in [Emails -> Hashes \cup {Nothing}]

\* Whatever the interleaving, one client gets at most Threshold - 1 wrong
\* guesses at one account in a window, and one more for each worker whose check
\* for a lock came before the failure that locked, unless a success or an
\* eviction forgave it.
GuessesBounded == \A k \in Keys : Len(tries[k]) < Threshold + Cardinality(Workers)

\* The requests of an address that pass the limiter and are stamped within one
\* window are at most RateLimit, and one more for each worker that brings a
\* time older than the last pruning.
RateBounded ==
    \A ip \in Ips : \A x \in 0..now :
        Count(admitted[ip], (x - RateWindow + 1)..x) <= RateLimit + Cardinality(Workers)

\* A flood of new keys clears no lock that still counts while an unlocked
\* record is left to evict (the comment of LockoutStore::evict).
Live(k) == k \in DOMAIN lockout /\ lockout[k].until > now
Evicted(k) == k \in DOMAIN lockout /\ k \notin DOMAIN lockout'
LocksOutliveJunk ==
    [][\A k \in Keys : Live(k) /\ Evicted(k) =>
          \/ \E w \in Workers : pc[w] = "user" /\ Key(w) = k
          \/ \A x \in DOMAIN lockout \cap DOMAIN lockout' : lockout[x].until # NotLocked]_vars

\* The password of an account changes only by a rehash: a hash of an earlier
\* scheme gives way to one of a password it could not tell from its own.  No
\* second sign-up, wrong guess or stale verdict replaces it, and an account that
\* started with scrypt keeps its password for good.
PasswordKept ==
    \A e \in Emails : auth[e] # original[e] =>
        /\ original[e] # Nothing /\ original[e].kind # "scrypt"
        /\ auth[e] # Nothing /\ auth[e].kind = "scrypt"
        /\ Same(original[e].kind, original[e].pass, auth[e].pass)
=============================================================================
