--------------------------- MODULE CsrfGateProofs ---------------------------
(***************************************************************************)
(* Proofs about CsrfGate, for any number of instances, users and browsers. *)
(*                                                                         *)
(* Every step leaves an entry of a store alone, removes it, or replaces it *)
(* with one whose token is newer than all there were (Moves).  Hence what  *)
(* is off the record stays off it (RevokedForGood); hence a header that    *)
(* was stale when sent is still stale at the check (StaleStays), however   *)
(* many requests run in between.                                           *)
(***************************************************************************)
EXTENDS CsrfGate, TLAPS

StaleStays ==
    \A b \in Browsers : pc[b] # "idle" /\ req[b].stale
                        => req[b].header \notin OnRecord(req[b].user)

Passed == \A b \in Browsers : pc[b] \in {"revoke", "accepted"} /\ req[b].ask # "signin"
                              => ~req[b].stale

Issuing == \A b \in Browsers : pc[b] = "issue" => req[b].ask = "signin"

IInv == TypeOK /\ StaleStays /\ Passed /\ Issuing

Moves ==
    \A i \in Instances, u \in Users :
        \/ store'[i][u] = store[i][u]
        \/ store'[i][u] = NoEntry
        \/ minted' = minted + 1 /\ store'[i][u] = Entry(minted')
-----------------------------------------------------------------------------
LEMMA InitInv == Init => IInv
BY CsrfAssumption
DEF Init, IInv, TypeOK, StaleStays, Passed, Issuing, Labels, Entries, Tokens, NoEntry, NoToken

\* What one assignment to a store does.
LEMMA StoreSet ==
  ASSUME NEW E, NEW s \in [Instances -> [Users -> E]],
         NEW i \in Instances, NEW u \in Users, NEW e \in E
  PROVE  /\ [s EXCEPT ![i][u] = e] \in [Instances -> [Users -> E]]
         /\ \A k \in Instances, v \in Users :
               [s EXCEPT ![i][u] = e][k][v] = IF k = i /\ v = u THEN e ELSE s[k][v]
OBVIOUS

\* What the sweep leaves of a store.
LEMMA SweptKeeps ==
  ASSUME TypeOK, NEW s \in [Users -> Entries], NEW t \in Swept(s)
  PROVE  /\ t \in [Users -> Entries]
         /\ \A u \in Users : t[u] \in {s[u], NoEntry}
<1> NoEntry \in Entries
  BY CsrfAssumption DEF NoEntry, NoToken, Entries, Tokens, TypeOK
<1> QED BY DEF Swept

LEMMA SendType ==
  ASSUME TypeOK, NEW b \in Browsers, NEW ask \in Asks,
         NEW u \in Users, NEW i \in Instances, Send(b, ask, u, i)
  PROVE  TypeOK' /\ Moves
<1> USE CsrfAssumption
    DEF Send, TypeOK, Goto, Carry, Fault, NoFault, bounds, clientVars
<1>1. /\ minted \in Nat /\ minted' \in Nat /\ minted <= minted'
      /\ now \in Nat /\ now' \in 0..MaxTime /\ now <= now'
      /\ signins' \in 0..MaxSignins /\ faults' \in 0..MaxFaults
  OBVIOUS
<1>2. Tokens \subseteq Tokens' /\ Entries \subseteq Entries' /\ NoEntry \in Entries
      /\ NoToken \in Tokens
  BY <1>1 DEF Tokens, Entries, NoEntry, NoToken
<1>3. Moves
  BY DEF Moves
<1>4. store' \in [Instances -> [Users -> Entries']]
  BY <1>2
<1>5. \A k \in Instances, v \in Users :
         store'[k][v].token = NoToken => store'[k][v] = NoEntry
  BY <1>1, <1>3 DEF Moves, Entry, NoToken
<1>6. /\ session' \in [Browsers -> Users \cup {Nobody}]
      /\ cookie' \in [Browsers -> Entries']
  BY <1>2
<1>7. pc' \in [Browsers -> Labels]
  BY DEF Labels
<1>8. \A c \in Browsers : IF pc'[c] = "idle" THEN req'[c] = NoRequest
         ELSE req'[c] \in Requests /\ req'[c].header \in Tokens'
  <2>1. cookie[b].token \in Tokens
    BY DEF Entries
  <2> DEFINE r == [ask |-> ask, user |-> u, at |-> i, header |-> cookie[b].token,
                   stale |-> cookie[b].token \notin OnRecord(u)]
  <2>2. r \in Requests /\ r.header \in Tokens'
    BY <1>1, <1>2, <2>1 DEF Requests, Tokens
  <2>3. req' = [req EXCEPT ![b] = r] /\ pc'[b] # "idle"
    BY DEF Labels
  <2> HIDE DEF r
  <2> TAKE c \in Browsers
  <2>4. CASE c = b
    BY <2>2, <2>3, <2>4
  <2>5. CASE c # b
    BY <1>2, <2>3, <2>5
  <2> QED BY <2>4, <2>5
<1>9. req' \in [Browsers -> Requests \cup {NoRequest}]
  BY DEF Requests, Entries, Tokens
<1>10. reply' \in [Browsers -> Tokens']
  BY <1>1, <1>2 DEF Tokens
<1> QED BY <1>1, <1>3, <1>4, <1>5, <1>6, <1>7, <1>8, <1>9, <1>10

LEMMA ReceiveType ==
  ASSUME TypeOK, NEW b \in Browsers, Receive(b)
  PROVE  TypeOK' /\ Moves
<1> USE CsrfAssumption
    DEF Receive, TypeOK, Goto, Carry, Fault, NoFault, bounds, clientVars
<1>1. /\ minted \in Nat /\ minted' \in Nat /\ minted <= minted'
      /\ now \in Nat /\ now' \in 0..MaxTime /\ now <= now'
      /\ signins' \in 0..MaxSignins /\ faults' \in 0..MaxFaults
  OBVIOUS
<1>2. Tokens \subseteq Tokens' /\ Entries \subseteq Entries' /\ NoEntry \in Entries
      /\ NoToken \in Tokens
  BY <1>1 DEF Tokens, Entries, NoEntry, NoToken
<1>3. Moves
  BY DEF Moves
<1>4. store' \in [Instances -> [Users -> Entries']]
  BY <1>2
<1>5. \A k \in Instances, v \in Users :
         store'[k][v].token = NoToken => store'[k][v] = NoEntry
  BY <1>1, <1>3 DEF Moves, Entry, NoToken
<1>6. /\ session' \in [Browsers -> Users \cup {Nobody}]
      /\ cookie' \in [Browsers -> Entries']
  <2>1. req[b] \in Requests
    OBVIOUS
  <2>2. Cookies(b).session \in Users \cup {Nobody}
    BY <2>1 DEF Cookies, Requests
  <2>3. Cookies(b).csrf \in Entries
    BY <1>1, <1>2 DEF Cookies, Entries, Entry, Tokens
  <2> QED BY <1>2, <2>2, <2>3
<1>7. pc' \in [Browsers -> Labels]
  BY DEF Labels
<1>8. \A c \in Browsers : IF pc'[c] = "idle" THEN req'[c] = NoRequest
         ELSE req'[c] \in Requests /\ req'[c].header \in Tokens'
  BY <1>2 DEF Labels
<1>9. req' \in [Browsers -> Requests \cup {NoRequest}]
  OBVIOUS
<1>10. reply' \in [Browsers -> Tokens']
  BY <1>1, <1>2 DEF Tokens
<1> QED BY <1>1, <1>3, <1>4, <1>5, <1>6, <1>7, <1>8, <1>9, <1>10

LEMMA CookieExpiresType ==
  ASSUME TypeOK, NEW b \in Browsers, CookieExpires(b)
  PROVE  TypeOK' /\ Moves
<1> USE CsrfAssumption
    DEF CookieExpires, TypeOK, Goto, Carry, Fault, NoFault, bounds, clientVars
<1>1. /\ minted \in Nat /\ minted' \in Nat /\ minted <= minted'
      /\ now \in Nat /\ now' \in 0..MaxTime /\ now <= now'
      /\ signins' \in 0..MaxSignins /\ faults' \in 0..MaxFaults
  OBVIOUS
<1>2. Tokens \subseteq Tokens' /\ Entries \subseteq Entries' /\ NoEntry \in Entries
      /\ NoToken \in Tokens
  BY <1>1 DEF Tokens, Entries, NoEntry, NoToken
<1>3. Moves
  BY DEF Moves
<1>4. store' \in [Instances -> [Users -> Entries']]
  BY <1>2
<1>5. \A k \in Instances, v \in Users :
         store'[k][v].token = NoToken => store'[k][v] = NoEntry
  BY <1>1, <1>3 DEF Moves, Entry, NoToken
<1>6. /\ session' \in [Browsers -> Users \cup {Nobody}]
      /\ cookie' \in [Browsers -> Entries']
  BY <1>2
<1>7. pc' \in [Browsers -> Labels]
  BY DEF Labels
<1>8. \A c \in Browsers : IF pc'[c] = "idle" THEN req'[c] = NoRequest
         ELSE req'[c] \in Requests /\ req'[c].header \in Tokens'
  BY <1>2 DEF Labels
<1>9. req' \in [Browsers -> Requests \cup {NoRequest}]
  OBVIOUS
<1>10. reply' \in [Browsers -> Tokens']
  BY <1>1, <1>2 DEF Tokens
<1> QED BY <1>1, <1>3, <1>4, <1>5, <1>6, <1>7, <1>8, <1>9, <1>10

LEMMA CheckType ==
  ASSUME TypeOK, NEW b \in Browsers, Check(b)
  PROVE  TypeOK' /\ Moves
<1> USE CsrfAssumption
    DEF Check, TypeOK, Goto, Carry, Fault, NoFault, bounds, clientVars
<1>1. /\ minted \in Nat /\ minted' \in Nat /\ minted <= minted'
      /\ now \in Nat /\ now' \in 0..MaxTime /\ now <= now'
      /\ signins' \in 0..MaxSignins /\ faults' \in 0..MaxFaults
  OBVIOUS
<1>2. Tokens \subseteq Tokens' /\ Entries \subseteq Entries' /\ NoEntry \in Entries
      /\ NoToken \in Tokens
  BY <1>1 DEF Tokens, Entries, NoEntry, NoToken
<1>3. Moves
  BY DEF Moves
<1>4. store' \in [Instances -> [Users -> Entries']]
  BY <1>2
<1>5. \A k \in Instances, v \in Users :
         store'[k][v].token = NoToken => store'[k][v] = NoEntry
  BY <1>1, <1>3 DEF Moves, Entry, NoToken
<1>6. /\ session' \in [Browsers -> Users \cup {Nobody}]
      /\ cookie' \in [Browsers -> Entries']
  BY <1>2
<1>7. pc' \in [Browsers -> Labels]
  BY DEF Labels
<1>8. \A c \in Browsers : IF pc'[c] = "idle" THEN req'[c] = NoRequest
         ELSE req'[c] \in Requests /\ req'[c].header \in Tokens'
  BY <1>2 DEF Labels
<1>9. req' \in [Browsers -> Requests \cup {NoRequest}]
  OBVIOUS
<1>10. reply' \in [Browsers -> Tokens']
  BY <1>1, <1>2 DEF Tokens
<1> QED BY <1>1, <1>3, <1>4, <1>5, <1>6, <1>7, <1>8, <1>9, <1>10

LEMMA RetryType ==
  ASSUME TypeOK, NEW b \in Browsers, Retry(b)
  PROVE  TypeOK' /\ Moves
<1> USE CsrfAssumption
    DEF Retry, TypeOK, Goto, Carry, Fault, NoFault, bounds, clientVars
<1>1. /\ minted \in Nat /\ minted' \in Nat /\ minted <= minted'
      /\ now \in Nat /\ now' \in 0..MaxTime /\ now <= now'
      /\ signins' \in 0..MaxSignins /\ faults' \in 0..MaxFaults
  OBVIOUS
<1>2. Tokens \subseteq Tokens' /\ Entries \subseteq Entries' /\ NoEntry \in Entries
      /\ NoToken \in Tokens
  BY <1>1 DEF Tokens, Entries, NoEntry, NoToken
<1>3. req[b].at \in Instances /\ req[b].user \in Users
  BY DEF Requests
<1>4. store \in [Instances -> [Users -> Entries']]
  BY <1>2
<1>5. \/ store' = [store EXCEPT ![req[b].at][req[b].user] = NoEntry]
      \/ /\ minted' = minted + 1
         /\ store' = [store EXCEPT ![req[b].at][req[b].user] = Entry(minted')]
  BY DEF Store
<1>6. minted' = minted + 1 => Entry(minted') \in Entries'
  BY <1>1 DEF Entry, Entries, Tokens
<1>7. NoEntry \in Entries'
  BY <1>2
<1>8. ASSUME store' = [store EXCEPT ![req[b].at][req[b].user] = NoEntry]
       PROVE  Moves /\ store' \in [Instances -> [Users -> Entries']]
  <2>1. Moves
    BY <1>8, <1>3, <1>4, <1>7, StoreSet DEF Moves
  <2>2. store' \in [Instances -> [Users -> Entries']]
    BY <1>8, <1>3, <1>4, <1>7, StoreSet
  <2> QED BY <2>1, <2>2
<1>9. ASSUME /\ minted' = minted + 1
          /\ store' = [store EXCEPT ![req[b].at][req[b].user] = Entry(minted')]
       PROVE  Moves /\ store' \in [Instances -> [Users -> Entries']]
  <2> DEFINE e == [token |-> minted + 1, at |-> now]
  <2>1. e \in Entries' /\ e = Entry(minted')
    BY <1>9, <1>6 DEF Entry
  <2>2. store' = [store EXCEPT ![req[b].at][req[b].user] = e]
    BY <1>9, <2>1
  <2> HIDE DEF e
  <2>3. Moves
    BY <1>9, <1>3, <1>4, <2>1, <2>2, StoreSet DEF Moves
  <2>4. store' \in [Instances -> [Users -> Entries']]
    BY <1>3, <1>4, <2>1, <2>2, StoreSet
  <2> QED BY <2>3, <2>4
<1>10. Moves
  BY <1>5, <1>8, <1>9
<1>11. store' \in [Instances -> [Users -> Entries']]
  BY <1>5, <1>8, <1>9
<1>12. \A k \in Instances, v \in Users :
         store'[k][v].token = NoToken => store'[k][v] = NoEntry
  BY <1>1, <1>10 DEF Moves, Entry, NoToken
<1>13. /\ session' \in [Browsers -> Users \cup {Nobody}]
      /\ cookie' \in [Browsers -> Entries']
  BY <1>2
<1>14. pc' \in [Browsers -> Labels]
  BY DEF Labels
<1>15. \A c \in Browsers : IF pc'[c] = "idle" THEN req'[c] = NoRequest
         ELSE req'[c] \in Requests /\ req'[c].header \in Tokens'
  BY <1>2 DEF Labels
<1>16. req' \in [Browsers -> Requests \cup {NoRequest}]
  OBVIOUS
<1>17. reply' \in [Browsers -> Tokens']
  BY <1>1, <1>2 DEF Tokens
<1> QED BY <1>1, <1>10, <1>11, <1>12, <1>13, <1>14, <1>15, <1>16, <1>17

LEMMA RevokeType ==
  ASSUME TypeOK, NEW b \in Browsers, Revoke(b)
  PROVE  TypeOK' /\ Moves
<1> USE CsrfAssumption
    DEF Revoke, TypeOK, Goto, Carry, Fault, NoFault, bounds, clientVars
<1>1. /\ minted \in Nat /\ minted' \in Nat /\ minted <= minted'
      /\ now \in Nat /\ now' \in 0..MaxTime /\ now <= now'
      /\ signins' \in 0..MaxSignins /\ faults' \in 0..MaxFaults
  OBVIOUS
<1>2. Tokens \subseteq Tokens' /\ Entries \subseteq Entries' /\ NoEntry \in Entries
      /\ NoToken \in Tokens
  BY <1>1 DEF Tokens, Entries, NoEntry, NoToken
<1>3. req[b].at \in Instances /\ req[b].user \in Users
  BY DEF Requests
<1>4. store \in [Instances -> [Users -> Entries']]
  BY <1>2
<1>5. store' = [store EXCEPT ![req[b].at][req[b].user] = NoEntry]
  BY DEF Store
<1>6. minted' = minted + 1 => Entry(minted') \in Entries'
  BY <1>1 DEF Entry, Entries, Tokens
<1>7. NoEntry \in Entries'
  BY <1>2
<1>8. Moves
  BY <1>3, <1>4, <1>5, <1>7, StoreSet DEF Moves
<1>9. store' \in [Instances -> [Users -> Entries']]
  BY <1>3, <1>4, <1>5, <1>7, StoreSet
<1>10. \A k \in Instances, v \in Users :
         store'[k][v].token = NoToken => store'[k][v] = NoEntry
  BY <1>1, <1>8 DEF Moves, Entry, NoToken
<1>11. /\ session' \in [Browsers -> Users \cup {Nobody}]
      /\ cookie' \in [Browsers -> Entries']
  BY <1>2
<1>12. pc' \in [Browsers -> Labels]
  BY DEF Labels
<1>13. \A c \in Browsers : IF pc'[c] = "idle" THEN req'[c] = NoRequest
         ELSE req'[c] \in Requests /\ req'[c].header \in Tokens'
  BY <1>2 DEF Labels
<1>14. req' \in [Browsers -> Requests \cup {NoRequest}]
  OBVIOUS
<1>15. reply' \in [Browsers -> Tokens']
  BY <1>1, <1>2 DEF Tokens
<1> QED BY <1>1, <1>8, <1>9, <1>10, <1>11, <1>12, <1>13, <1>14, <1>15

LEMMA IssueType ==
  ASSUME TypeOK, NEW b \in Browsers, Issue(b)
  PROVE  TypeOK' /\ Moves
<1> USE CsrfAssumption
    DEF Issue, TypeOK, Goto, Carry, Fault, NoFault, bounds, clientVars
<1>1. /\ minted \in Nat /\ minted' \in Nat /\ minted <= minted'
      /\ now \in Nat /\ now' \in 0..MaxTime /\ now <= now'
      /\ signins' \in 0..MaxSignins /\ faults' \in 0..MaxFaults
  OBVIOUS
<1>2. Tokens \subseteq Tokens' /\ Entries \subseteq Entries' /\ NoEntry \in Entries
      /\ NoToken \in Tokens
  BY <1>1 DEF Tokens, Entries, NoEntry, NoToken
<1>3. req[b].at \in Instances /\ req[b].user \in Users
  BY DEF Requests
<1>4. store \in [Instances -> [Users -> Entries']]
  BY <1>2
<1>5. \/ store' = store
      \/ /\ minted' = minted + 1
         /\ store' = [store EXCEPT ![req[b].at][req[b].user] = Entry(minted')]
  BY DEF Store
<1>6. minted' = minted + 1 => Entry(minted') \in Entries'
  BY <1>1 DEF Entry, Entries, Tokens
<1>7. NoEntry \in Entries'
  BY <1>2
<1>8. ASSUME store' = store
       PROVE  Moves /\ store' \in [Instances -> [Users -> Entries']]
  <2>1. Moves
    BY <1>8, <1>3, <1>4, <1>7, StoreSet DEF Moves
  <2>2. store' \in [Instances -> [Users -> Entries']]
    BY <1>8, <1>3, <1>4, <1>7, StoreSet
  <2> QED BY <2>1, <2>2
<1>9. ASSUME /\ minted' = minted + 1
          /\ store' = [store EXCEPT ![req[b].at][req[b].user] = Entry(minted')]
       PROVE  Moves /\ store' \in [Instances -> [Users -> Entries']]
  <2> DEFINE e == [token |-> minted + 1, at |-> now]
  <2>1. e \in Entries' /\ e = Entry(minted')
    BY <1>9, <1>6 DEF Entry
  <2>2. store' = [store EXCEPT ![req[b].at][req[b].user] = e]
    BY <1>9, <2>1
  <2> HIDE DEF e
  <2>3. Moves
    BY <1>9, <1>3, <1>4, <2>1, <2>2, StoreSet DEF Moves
  <2>4. store' \in [Instances -> [Users -> Entries']]
    BY <1>3, <1>4, <2>1, <2>2, StoreSet
  <2> QED BY <2>3, <2>4
<1>10. Moves
  BY <1>5, <1>8, <1>9
<1>11. store' \in [Instances -> [Users -> Entries']]
  BY <1>5, <1>8, <1>9
<1>12. \A k \in Instances, v \in Users :
         store'[k][v].token = NoToken => store'[k][v] = NoEntry
  BY <1>1, <1>10 DEF Moves, Entry, NoToken
<1>13. /\ session' \in [Browsers -> Users \cup {Nobody}]
      /\ cookie' \in [Browsers -> Entries']
  BY <1>2
<1>14. pc' \in [Browsers -> Labels]
  BY DEF Labels
<1>15. \A c \in Browsers : IF pc'[c] = "idle" THEN req'[c] = NoRequest
         ELSE req'[c] \in Requests /\ req'[c].header \in Tokens'
  BY <1>2 DEF Labels
<1>16. req' \in [Browsers -> Requests \cup {NoRequest}]
  OBVIOUS
<1>17. reply' \in [Browsers -> Tokens']
  BY <1>1, <1>2 DEF Tokens
<1> QED BY <1>1, <1>10, <1>11, <1>12, <1>13, <1>14, <1>15, <1>16, <1>17

LEMMA CleanupType ==
  ASSUME TypeOK, NEW i \in Instances, Cleanup(i)
  PROVE  TypeOK' /\ Moves
<1> USE CsrfAssumption
    DEF Cleanup, TypeOK, Goto, Carry, Fault, NoFault, bounds, clientVars
<1>1. /\ minted \in Nat /\ minted' \in Nat /\ minted <= minted'
      /\ now \in Nat /\ now' \in 0..MaxTime /\ now <= now'
      /\ signins' \in 0..MaxSignins /\ faults' \in 0..MaxFaults
  OBVIOUS
<1>2. Tokens \subseteq Tokens' /\ Entries \subseteq Entries' /\ NoEntry \in Entries
      /\ NoToken \in Tokens
  BY <1>1 DEF Tokens, Entries, NoEntry, NoToken
<1>3. PICK s \in Swept(store[i]) : store' = [store EXCEPT ![i] = s]
  OBVIOUS
<1>4. /\ s \in [Users -> Entries]
      /\ \A u \in Users : s[u] \in {store[i][u], NoEntry}
  BY SweptKeeps
<1>5. Moves
  BY <1>3, <1>4 DEF Moves
<1>6. store' \in [Instances -> [Users -> Entries']]
  BY <1>2, <1>3, <1>4
<1>7. \A k \in Instances, v \in Users :
         store'[k][v].token = NoToken => store'[k][v] = NoEntry
  BY <1>1, <1>5 DEF Moves, Entry, NoToken
<1>8. /\ session' \in [Browsers -> Users \cup {Nobody}]
      /\ cookie' \in [Browsers -> Entries']
  BY <1>2
<1>9. pc' \in [Browsers -> Labels]
  BY DEF Labels
<1>10. \A c \in Browsers : IF pc'[c] = "idle" THEN req'[c] = NoRequest
         ELSE req'[c] \in Requests /\ req'[c].header \in Tokens'
  BY <1>2 DEF Labels
<1>11. req' \in [Browsers -> Requests \cup {NoRequest}]
  OBVIOUS
<1>12. reply' \in [Browsers -> Tokens']
  BY <1>1, <1>2 DEF Tokens
<1> QED BY <1>1, <1>5, <1>6, <1>7, <1>8, <1>9, <1>10, <1>11, <1>12

LEMMA RestartType ==
  ASSUME TypeOK, NEW i \in Instances, Restart(i)
  PROVE  TypeOK' /\ Moves
<1> USE CsrfAssumption
    DEF Restart, TypeOK, Goto, Carry, Fault, NoFault, bounds, clientVars
<1>1. /\ minted \in Nat /\ minted' \in Nat /\ minted <= minted'
      /\ now \in Nat /\ now' \in 0..MaxTime /\ now <= now'
      /\ signins' \in 0..MaxSignins /\ faults' \in 0..MaxFaults
  OBVIOUS
<1>2. Tokens \subseteq Tokens' /\ Entries \subseteq Entries' /\ NoEntry \in Entries
      /\ NoToken \in Tokens
  BY <1>1 DEF Tokens, Entries, NoEntry, NoToken
<1>3. Moves
  BY DEF Moves
<1>4. store' \in [Instances -> [Users -> Entries']]
  BY <1>2
<1>5. \A k \in Instances, v \in Users :
         store'[k][v].token = NoToken => store'[k][v] = NoEntry
  BY <1>1, <1>3 DEF Moves, Entry, NoToken
<1>6. /\ session' \in [Browsers -> Users \cup {Nobody}]
      /\ cookie' \in [Browsers -> Entries']
  BY <1>2
<1>7. pc' \in [Browsers -> Labels]
  BY DEF Labels
<1>8. \A c \in Browsers : IF pc'[c] = "idle" THEN req'[c] = NoRequest
         ELSE req'[c] \in Requests /\ req'[c].header \in Tokens'
  BY <1>2 DEF Labels
<1>9. req' \in [Browsers -> Requests \cup {NoRequest}]
  OBVIOUS
<1>10. reply' \in [Browsers -> Tokens']
  BY <1>1, <1>2 DEF Tokens
<1> QED BY <1>1, <1>3, <1>4, <1>5, <1>6, <1>7, <1>8, <1>9, <1>10

LEMMA TickType ==
  ASSUME TypeOK, Tick
  PROVE  TypeOK' /\ Moves
<1> USE CsrfAssumption
    DEF Tick, TypeOK, Goto, Carry, Fault, NoFault, bounds, clientVars
<1>1. /\ minted \in Nat /\ minted' \in Nat /\ minted <= minted'
      /\ now \in Nat /\ now' \in 0..MaxTime /\ now <= now'
      /\ signins' \in 0..MaxSignins /\ faults' \in 0..MaxFaults
  OBVIOUS
<1>2. Tokens \subseteq Tokens' /\ Entries \subseteq Entries' /\ NoEntry \in Entries
      /\ NoToken \in Tokens
  BY <1>1 DEF Tokens, Entries, NoEntry, NoToken
<1>3. Moves
  BY DEF Moves
<1>4. store' \in [Instances -> [Users -> Entries']]
  BY <1>2
<1>5. \A k \in Instances, v \in Users :
         store'[k][v].token = NoToken => store'[k][v] = NoEntry
  BY <1>1, <1>3 DEF Moves, Entry, NoToken
<1>6. /\ session' \in [Browsers -> Users \cup {Nobody}]
      /\ cookie' \in [Browsers -> Entries']
  BY <1>2
<1>7. pc' \in [Browsers -> Labels]
  BY DEF Labels
<1>8. \A c \in Browsers : IF pc'[c] = "idle" THEN req'[c] = NoRequest
         ELSE req'[c] \in Requests /\ req'[c].header \in Tokens'
  BY <1>2 DEF Labels
<1>9. req' \in [Browsers -> Requests \cup {NoRequest}]
  OBVIOUS
<1>10. reply' \in [Browsers -> Tokens']
  BY <1>1, <1>2 DEF Tokens
<1> QED BY <1>1, <1>3, <1>4, <1>5, <1>6, <1>7, <1>8, <1>9, <1>10

-----------------------------------------------------------------------------
LEMMA NextType ==
  ASSUME TypeOK, Next
  PROVE  TypeOK' /\ Moves
<1>1. CASE Tick
  BY <1>1, TickType
<1>2. ASSUME NEW i \in Instances, Cleanup(i) \/ Restart(i)
      PROVE  TypeOK' /\ Moves
  BY <1>2, CleanupType, RestartType
<1>3. ASSUME NEW b \in Browsers, NEW ask \in Asks, NEW u \in Users, NEW i \in Instances,
             Send(b, ask, u, i)
      PROVE  TypeOK' /\ Moves
  BY <1>3, SendType
<1>4. ASSUME NEW b \in Browsers, Serve(b) \/ Receive(b) \/ CookieExpires(b)
      PROVE  TypeOK' /\ Moves
  BY <1>4, CheckType, RetryType, RevokeType, IssueType, ReceiveType, CookieExpiresType
     DEF Serve
<1> QED BY <1>1, <1>2, <1>3, <1>4 DEF Next

\* What was handed out and is not on record does not get there.
LEMMA OffRecord ==
  ASSUME TypeOK, Moves, NEW u \in Users
  PROVE  OnRecord(u)' \cap Tokens \subseteq OnRecord(u)
<1> SUFFICES ASSUME NEW i \in Instances, store'[i][u].token # NoToken,
                    store'[i][u].token \in Tokens
             PROVE  store'[i][u].token \in OnRecord(u)
  BY DEF OnRecord
<1>1. store'[i][u] # NoEntry
  BY DEF NoEntry
<1>2. minted + 1 \notin Tokens
  BY DEF TypeOK, Tokens
<1>3. store'[i][u] = store[i][u]
  BY <1>1, <1>2 DEF Moves, Entry
<1> QED BY <1>3 DEF OnRecord

\* The requests a step leaves in flight: the same at the same place, one just
\* sent, or one a worker has taken a step further.
Resting(c) == req'[c] = req[c] /\ pc'[c] = pc[c]
Fresh(c) == /\ pc'[c] \in {"issue", "check"}
            /\ store' = store
            /\ pc'[c] = "issue" => req'[c].ask = "signin"
            /\ req'[c].stale = (req'[c].header \notin OnRecord(req'[c].user))
Served(c) == /\ req'[c] = req[c]
             /\ pc[c] # "idle"
             /\ \/ pc'[c] \in {"refused", "retry"}
                \/ pc[c] = "issue" /\ pc'[c] = "accepted"
                \/ pc[c] = "revoke" /\ pc'[c] = "accepted"
                \/ /\ pc[c] = "check" /\ pc'[c] \in {"revoke", "accepted"}
                   /\ req[c].header # NoToken
                   /\ req[c].header = Stored(c).token

LEMMA RequestMoves ==
  ASSUME TypeOK, Next, NEW c \in Browsers
  PROVE  pc'[c] = "idle" \/ Resting(c) \/ Fresh(c) \/ Served(c)
<1> USE DEF TypeOK, Goto
<1>1. CASE Tick
  BY <1>1 DEF Tick, Resting
<1>2. ASSUME NEW i \in Instances, Cleanup(i) \/ Restart(i)
      PROVE  pc'[c] = "idle" \/ Resting(c)
  BY <1>2 DEF Cleanup, Restart, Resting
<1>3. ASSUME NEW b \in Browsers, NEW ask \in Asks, NEW u \in Users, NEW i \in Instances,
             Send(b, ask, u, i)
      PROVE  Resting(c) \/ Fresh(c)
  <2>1. CASE c = b
    <3>1. req'[c] = [ask |-> ask, user |-> u, at |-> i, header |-> cookie[b].token,
                     stale |-> cookie[b].token \notin OnRecord(u)]
      BY <1>3, <2>1 DEF Send
    <3>2. store' = store /\ pc'[c] = IF ask = "signin" THEN "issue" ELSE "check"
      BY <1>3, <2>1 DEF Send
    <3> QED BY <3>1, <3>2 DEF Fresh
  <2>2. CASE c # b
    BY <1>3, <2>2 DEF Send, Resting
  <2> QED BY <2>1, <2>2
<1>4. ASSUME NEW b \in Browsers, Receive(b) \/ CookieExpires(b)
      PROVE  pc'[c] = "idle" \/ Resting(c)
  BY <1>4 DEF Receive, CookieExpires, Resting
<1>5. ASSUME NEW b \in Browsers, Serve(b)
      PROVE  Resting(c) \/ Served(c)
  <2>1. CASE c # b
    BY <1>5, <2>1 DEF Serve, Check, Retry, Revoke, Issue, Resting
  <2>2. CASE c = b /\ Check(b)
    BY <2>2 DEF Check, Served
  <2>3. CASE c = b /\ (Retry(b) \/ Revoke(b) \/ Issue(b))
    BY <2>3 DEF Retry, Revoke, Issue, Served
  <2> QED BY <1>5, <2>1, <2>2, <2>3 DEF Serve
<1> QED BY <1>1, <1>2, <1>3, <1>4, <1>5 DEF Next

LEMMA NextInv == IInv /\ [Next]_vars => IInv'
<1>1. CASE UNCHANGED vars
  BY <1>1 DEF IInv, TypeOK, StaleStays, Passed, Issuing, vars, clientVars, bounds,
              OnRecord, Tokens, Entries
<1>2. ASSUME IInv, Next
      PROVE  IInv'
  <2> USE DEF IInv
  <2>1. TypeOK' /\ Moves
    BY <1>2, NextType
  <2>2. ASSUME NEW c \in Browsers, pc'[c] # "idle", req'[c].stale
        PROVE  (req[c].header \notin OnRecord(req[c].user))'
    <3>1. CASE Resting(c) \/ Served(c)
      <4>1. req'[c] = req[c] /\ pc[c] # "idle"
        BY <2>2, <3>1 DEF Resting, Served
      <4>2. req[c].header \in Tokens /\ req[c].user \in Users
        BY <1>2, <4>1 DEF TypeOK, Requests
      <4>3. req[c].header \notin OnRecord(req[c].user)
        BY <1>2, <2>2, <4>1 DEF StaleStays
      <4>4. PICK u \in Users : u = req[c].user
        BY <4>2
      <4>5. req[c].header \notin OnRecord(u)'
        BY <1>2, <2>1, <4>2, <4>3, <4>4, OffRecord
      <4> QED BY <4>1, <4>4, <4>5 DEF OnRecord
    <3>2. CASE Fresh(c)
      BY <2>2, <3>2 DEF Fresh, OnRecord
    <3> QED BY <1>2, <2>2, <3>1, <3>2, RequestMoves
  <2>3. ASSUME NEW c \in Browsers
        PROVE  /\ pc'[c] \in {"revoke", "accepted"} /\ req'[c].ask # "signin"
                  => ~req'[c].stale
               /\ pc'[c] = "issue" => req'[c].ask = "signin"
    <3>1. CASE pc'[c] = "idle" \/ Resting(c) \/ Fresh(c)
      BY <1>2, <3>1 DEF Resting, Fresh, Passed, Issuing
    <3>2. CASE Served(c) /\ pc[c] # "check"
      BY <1>2, <3>2 DEF Served, Passed, Issuing
    <3>3. CASE Served(c) /\ pc[c] = "check" /\ pc'[c] \in {"revoke", "accepted"}
      <4>1. req[c].at \in Instances /\ req[c].user \in Users
        BY <1>2, <3>3 DEF TypeOK, Requests
      <4>2. req[c].header \in OnRecord(req[c].user)
        BY <3>3, <4>1 DEF Served, Stored, OnRecord
      <4> QED BY <1>2, <3>3, <4>2 DEF Served, StaleStays
    <3> QED BY <1>2, <3>1, <3>2, <3>3, RequestMoves DEF Served
  <2>4. StaleStays'
    BY <2>2 DEF StaleStays
  <2>5. Passed' /\ Issuing'
    BY <2>3 DEF Passed, Issuing
  <2> QED BY <2>1, <2>4, <2>5
<1> QED BY <1>1, <1>2

LEMMA Inductive == Spec => []IInv
BY InitInv, NextInv, PTL DEF Spec
-----------------------------------------------------------------------------
\* The state keeps its shape: no entry without a token, no token from nowhere.
THEOREM TypeCorrect == Spec => []TypeOK
BY Inductive, PTL DEF IInv

\* A mutation whose token was off the record when it was sent is refused.
THEOREM StaleIsRefused == Spec => []StaleNeverAccepted
<1>1. IInv => StaleNeverAccepted
  BY DEF IInv, Passed, StaleNeverAccepted
<1> QED BY Inductive, <1>1, PTL

\* No step brings an old token back on record.
THEOREM RevocationIsFinal == Spec => RevokedForGood
<1> DEFINE Final == \A u \in Users : OnRecord(u)' \cap 1..minted \subseteq OnRecord(u)
<1>1. IInv /\ [Next]_vars => [Final]_vars
  <2> SUFFICES ASSUME IInv, Next, NEW u \in Users
               PROVE  OnRecord(u)' \cap 1..minted \subseteq OnRecord(u)
    OBVIOUS
  <2>1. TypeOK /\ Moves
    BY NextType DEF IInv
  <2>2. 1..minted \subseteq Tokens
    BY <2>1 DEF TypeOK, Tokens
  <2> QED BY <2>1, <2>2, OffRecord
<1>2. Spec => [][Final]_vars
  BY Inductive, <1>1, PTL DEF Spec
<1> QED BY <1>2 DEF RevokedForGood
=============================================================================
