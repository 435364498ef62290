------------------------------ MODULE CsrfGate ------------------------------
(***************************************************************************)
(* The CSRF tokens of signed-in browsers: routes::require_csrf,            *)
(* csrf_retry, set_auth_cookies, signout, and stores::CsrfStore.           *)
(*                                                                         *)
(* Every server instance keeps, in memory, one token per user.  A sign-in  *)
(* mints one and sends it as a cookie; a mutation must repeat it in a      *)
(* header.  Browsers of one user share the user's entry and not their      *)
(* cookies.  Each access to the store takes its mutex on its own, so other *)
(* requests run between the check of a token and its replacement.          *)
(***************************************************************************)
EXTENDS Naturals, FiniteSets

CONSTANTS Instances,    \* server processes, each with a store of its own
          Users,
          Browsers,
          Nobody,       \* the user of a browser that is not signed in
          Expiry,       \* lifetime of a token and of its cookie (24 hours)
          Cap,          \* CSRF_MAX_ENTRIES
          MaxTime,      \* bound on the clock
          MaxSignins,   \* bound on sign-ins
          MaxFaults     \* bound on restarts, lost answers, evictions, failures

ASSUME CsrfAssumption == /\ Nobody \notin Users
                         /\ {Expiry, Cap, MaxTime, MaxSignins, MaxFaults} \subseteq Nat
                         /\ IsFiniteSet(Users)

VARIABLES store,        \* the entry of each user at each instance
          minted,       \* tokens 1 .. minted have been handed out
          session,      \* the user in each browser's session cookie
          cookie,       \* each browser's CSRF cookie
          pc,           \* where each browser's request stands
          req,          \* the request: what it asks, for whom, where, its header
          reply,        \* the token its answer carries, or NoToken
          now, signins, faults

NoToken == 0
NoEntry == [token |-> NoToken, at |-> 0]
Entry(t) == [token |-> t, at |-> now]

Asks == {"mutate", "signout", "signin"}
\* "stale" is a history bit: when the request was sent, its header was not on
\* record for its user at any instance.
Requests == [ask : Asks, user : Users, at : Instances, header : Nat, stale : BOOLEAN]
NoRequest == [ask |-> "none"]

clientVars == <<session, cookie>>
bounds == <<now, signins, faults>>
vars == <<store, minted, clientVars, pc, req, reply, bounds>>

OnRecord(u) == {store[i][u].token : i \in Instances} \ {NoToken}

\* The caller's entry at the instance that serves it.
Stored(b) == store[req[b].at][req[b].user]
Store(b, e) == store' = [store EXCEPT ![req[b].at][req[b].user] = e]

Goto(b, l) == pc' = [pc EXCEPT ![b] = l]
Carry(b, t) == reply' = [reply EXCEPT ![b] = t]
Fault == faults < MaxFaults /\ faults' = faults + 1 /\ UNCHANGED <<now, signins>>
NoFault == UNCHANGED bounds

Init == /\ store = [i \in Instances |-> [u \in Users |-> NoEntry]]
        /\ minted = 0
        /\ session = [b \in Browsers |-> Nobody]
        /\ cookie = [b \in Browsers |-> NoEntry]
        /\ pc = [b \in Browsers |-> "idle"]
        /\ req = [b \in Browsers |-> NoRequest]
        /\ reply = [b \in Browsers |-> NoToken]
        /\ now = 0 /\ signins = 0 /\ faults = 0

-----------------------------------------------------------------------------
(* The browser                                                             *)

\* A sign-in, as any user, needs no token.  Everything else is done for the
\* session's user and sends the cookie as a header, if there is a cookie.
Send(b, ask, u, i) ==
    /\ pc[b] = "idle"
    /\ IF ask = "signin"
       THEN signins < MaxSignins /\ signins' = signins + 1
       ELSE session[b] = u /\ UNCHANGED signins
    /\ req' = [req EXCEPT ![b] = [ask |-> ask, user |-> u, at |-> i,
                                  header |-> cookie[b].token,
                                  stale |-> cookie[b].token \notin OnRecord(u)]]
    /\ Goto(b, IF ask = "signin" THEN "issue" ELSE "check")
    /\ UNCHANGED <<store, minted, clientVars, reply, now, faults>>

\* The cookies an answer sets: none, new ones, or the deletion of both.
Cookies(b) ==
    LET done == pc[b] = "accepted" IN
    IF done /\ req[b].ask = "signout" THEN [session |-> Nobody, csrf |-> NoEntry]
    ELSE [session |-> IF done /\ req[b].ask = "signin" THEN req[b].user ELSE session[b],
          csrf |-> IF reply[b] = NoToken THEN cookie[b] ELSE Entry(reply[b])]

\* The answer arrives and its cookies are set, or it is lost.
Receive(b) ==
    /\ pc[b] \in {"accepted", "refused"}
    /\ Goto(b, "idle")
    /\ Carry(b, NoToken)
    /\ req' = [req EXCEPT ![b] = NoRequest]
    /\ \/ /\ session' = [session EXCEPT ![b] = Cookies(b).session]
          /\ cookie' = [cookie EXCEPT ![b] = Cookies(b).csrf]
          /\ NoFault
       \/ Fault /\ UNCHANGED clientVars
    /\ UNCHANGED <<store, minted>>

\* The cookie's Max-Age, Expiry as well, is over.
CookieExpires(b) ==
    /\ cookie[b] # NoEntry
    /\ now - cookie[b].at >= Expiry
    /\ cookie' = [cookie EXCEPT ![b] = NoEntry]
    /\ UNCHANGED <<store, minted, session, pc, req, reply, bounds>>

-----------------------------------------------------------------------------
(* One request                                                             *)

\* Faulty variant: a request that misses the store is accepted.
CheckAcceptsMiss(b) ==
    /\ pc[b] = "check"
    /\ Goto(b, IF req[b].header = NoToken THEN "refused"
               ELSE IF Stored(b) = NoEntry THEN "accepted"
               ELSE IF req[b].header # Stored(b).token THEN "refused"
               ELSE IF now - Stored(b).at > Expiry THEN "retry"
               ELSE IF req[b].ask = "signout" THEN "revoke" ELSE "accepted")
    /\ UNCHANGED <<store, minted, clientVars, req, reply, bounds>>

\* require_csrf up to its verdict: one read of the store.  Only a token that
\* is missing from the store or too old leads to a replacement.
Check(b) ==
    /\ pc[b] = "check"
    /\ LET h == req[b].header  e == Stored(b) IN
       Goto(b, IF h = NoToken THEN "refused"
               ELSE IF e = NoEntry THEN "retry"
               ELSE IF h # e.token THEN "refused"
               ELSE IF now - e.at > Expiry THEN "retry"
               ELSE IF req[b].ask = "signout" THEN "revoke" ELSE "accepted")
    /\ UNCHANGED <<store, minted, clientVars, req, reply, bounds>>

\* Faulty variant: the caller's own token is put back on record.
RetryRenews(b) ==
    /\ pc[b] = "retry"
    /\ Goto(b, "refused")
    /\ Store(b, Entry(req[b].header))
    /\ Carry(b, req[b].header)
    /\ UNCHANGED <<minted, clientVars, req, bounds>>

\* Faulty variant: a plain refusal, with no new token.
RetryRefuses(b) ==
    /\ pc[b] = "retry"
    /\ Goto(b, "refused")
    /\ UNCHANGED <<store, minted, clientVars, req, reply, bounds>>

\* csrf_retry: refuse, and hand over a new token; none when none can be minted.
Retry(b) ==
    /\ pc[b] = "retry"
    /\ Goto(b, "refused")
    /\ \/ /\ minted' = minted + 1
          /\ Store(b, Entry(minted'))
          /\ Carry(b, minted')
          /\ NoFault
       \/ /\ Store(b, NoEntry)
          /\ Fault
          /\ UNCHANGED <<minted, reply>>
    /\ UNCHANGED <<clientVars, req>>

\* The end of signout.
Revoke(b) ==
    /\ pc[b] = "revoke"
    /\ Goto(b, "accepted")
    /\ Store(b, NoEntry)
    /\ UNCHANGED <<minted, clientVars, req, reply, bounds>>

\* set_auth_cookies, once signin or signup knows the user; 500 without a token.
Issue(b) ==
    /\ pc[b] = "issue"
    /\ \/ /\ minted' = minted + 1
          /\ Store(b, Entry(minted'))
          /\ Carry(b, minted')
          /\ Goto(b, "accepted")
          /\ NoFault
       \/ /\ Goto(b, "refused")
          /\ Fault
          /\ UNCHANGED <<store, minted, reply>>
    /\ UNCHANGED <<clientVars, req>>

-----------------------------------------------------------------------------
(* The server                                                              *)

\* CsrfStore::cleanup at an instance with entries s: drop what has expired,
\* then the oldest down to Cap, in no particular order among equals.
Swept(s) ==
    LET live == {u \in Users : s[u] # NoEntry /\ now - s[u].at <= Expiry} IN
    {[u \in Users |-> IF u \in keep THEN s[u] ELSE NoEntry] :
        keep \in {k \in SUBSET live :
                     /\ Cardinality(k) = IF Cardinality(live) < Cap
                                         THEN Cardinality(live) ELSE Cap
                     /\ \A u \in k, v \in live \ k : s[v].at <= s[u].at}}

\* run_csrf_cleanup, hourly.
Cleanup(i) ==
    /\ \E s \in Swept(store[i]) :
          /\ s # store[i]
          /\ store' = [store EXCEPT ![i] = s]
    /\ Fault
    /\ UNCHANGED <<minted, clientVars, pc, req, reply>>

\* The store does not survive a restart; neither do requests in flight.
Restart(i) ==
    /\ store' = [store EXCEPT ![i] = [u \in Users |-> NoEntry]]
    /\ LET hit(b) == pc[b] # "idle" /\ req[b].at = i IN
       /\ pc' = [b \in Browsers |-> IF hit(b) THEN "idle" ELSE pc[b]]
       /\ req' = [b \in Browsers |-> IF hit(b) THEN NoRequest ELSE req[b]]
       /\ reply' = [b \in Browsers |-> IF hit(b) THEN NoToken ELSE reply[b]]
    /\ Fault
    /\ UNCHANGED <<minted, clientVars>>

Tick == /\ now < MaxTime
        /\ now' = now + 1
        /\ UNCHANGED <<store, minted, clientVars, pc, req, reply, signins, faults>>

Serve(b) == Check(b) \/ Retry(b) \/ Revoke(b) \/ Issue(b)

Next == \/ Tick
        \/ \E i \in Instances : Cleanup(i) \/ Restart(i)
        \/ \E b \in Browsers : \/ \E ask \in Asks, u \in Users, i \in Instances :
                                     Send(b, ask, u, i)
                               \/ Serve(b) \/ Receive(b) \/ CookieExpires(b)

Spec == Init /\ [][Next]_vars

\* Workers run, answers arrive, and a signed-in user keeps trying.
FairSpec ==
    /\ Spec
    /\ \A b \in Browsers :
          /\ WF_vars(Serve(b))
          /\ WF_vars(Receive(b))
          /\ WF_vars(\E u \in Users, i \in Instances : Send(b, "mutate", u, i))

-----------------------------------------------------------------------------
(* Properties                                                              *)

Labels == {"idle", "issue", "check", "retry", "revoke", "accepted", "refused"}
Tokens == 0..minted
Entries == [token : Tokens, at : 0..now]

\* The shape of the state; an entry with no token is NoEntry.
TypeOK == /\ minted \in Nat
          /\ store \in [Instances -> [Users -> Entries]]
          /\ \A i \in Instances, u \in Users :
                store[i][u].token = NoToken => store[i][u] = NoEntry
          /\ session \in [Browsers -> Users \cup {Nobody}]
          /\ cookie \in [Browsers -> Entries]
          /\ pc \in [Browsers -> Labels]
          /\ req \in [Browsers -> Requests \cup {NoRequest}]
          /\ \A b \in Browsers : IF pc[b] = "idle" THEN req[b] = NoRequest
                                 ELSE req[b] \in Requests /\ req[b].header \in Tokens
          /\ reply \in [Browsers -> Tokens]
          /\ now \in 0..MaxTime /\ signins \in 0..MaxSignins
          /\ faults \in 0..MaxFaults

\* A request whose token had already been replaced, revoked or forgotten when
\* it was sent is never accepted, whatever the other browsers, the sweep and
\* the retries do in the meantime.
StaleNeverAccepted ==
    \A b \in Browsers : pc[b] = "accepted" /\ req[b].ask # "signin" => ~req[b].stale

\* A token that went off the record never comes back.
RevokedForGood ==
    [][\A u \in Users : OnRecord(u)' \cap 1..minted \subseteq OnRecord(u)]_vars

\* A browser that keeps retrying is accepted, except in two situations, for
\* good in either: it has no cookie to send, or the record holds a token that
\* was handed to somebody else or lost on its way.
Stuck(b) == /\ pc[b] = "idle"
            /\ \/ cookie[b].token = NoToken
               \/ session[b] = Nobody
               \/ \E i \in Instances : store[i][session[b]].token \notin {NoToken, cookie[b].token}
Recovers ==
    \A b \in Browsers : pc[b] = "check" ~> pc[b] = "accepted" \/ Stuck(b)
=============================================================================
