--------------------------- MODULE StartupProofs ---------------------------
(***************************************************************************)
(* Theorems about Startup, for any number of instances, columns, spots,    *)
(* accounts and faults.                                                    *)
(*                                                                         *)
(* The inductive invariant has a part for each thing that can be wrong     *)
(* between a program and a server that answers late or not at all: where   *)
(* the program is and what it has asked (Base), what the schema has when   *)
(* the program believes it is there (Schemed), what a transaction has      *)
(* written when its baton is in somebody's hands (Atomic, if the server    *)
(* ends no stream by itself), and who adds the columns and the inventory   *)
(* as long as there is no fault (Calm).                                    *)
(***************************************************************************)
EXTENDS Startup, FiniteSetTheorems, WellFoundedInduction, TLAPS

-----------------------------------------------------------------------------
(* The inductive invariant                                                 *)

Places == {"create", "columns", "alter", "index", "count", "seed", "idle",
           "begin", "insert", "commit", "rollback", "exited"}
InTransaction(s) == at[s] \in {"begin", "insert", "commit", "rollback"}
Served(s) == at[s] = "idle" \/ InTransaction(s)

\* The program counter, and what goes with it.
Located(s) ==
    /\ baton[s] # None => at[s] \in {"insert", "commit", "rollback"}
    /\ at[s] = "alter" => todo[s] # {} /\ todo[s] \subseteq DOMAIN Columns
    /\ at[s] = "seed" => todo[s] # {} /\ todo[s] \subseteq DOMAIN Seeds
    /\ at[s] = "insert" => todo[s] # {} /\ todo[s] \subseteq DOMAIN Parts
    /\ told[s] = "none" <=> InTransaction(s)
    /\ InTransaction(s) => issued[s] # 0
    /\ Starting(s) => told[s] = "err"

\* A program waits for the statement it is at.
Asked(s) ==
    /\ sent[s] # None => /\ at[s] \notin {"idle", "exited"}
                         /\ sent[s].from = s /\ ~sent[s].late
                         /\ sent[s].stmt = Sql(s) /\ sent[s].baton = baton[s]
                         /\ sent[s].close = Closes(sent[s].stmt, sent[s].baton)
    /\ answer[s] # None => sent[s] # None /\ (sent[s].close => answer[s].baton = None)

\* A request that is not late is waited for; one with a baton can write nothing
\* but rows of an account.
Travels(q) ==
    /\ q.close = Closes(q.stmt, q.baton)
    /\ ~q.late => sent[q.from] = q /\ answer[q.from] = None
    /\ q.stmt.kind = "write" /\ q.baton # None => q.stmt.adds \subseteq Rows

Base == /\ TypeOK
        /\ at \in [Sessions -> Places] /\ todo \in [Sessions -> SUBSET Nat]
        /\ tx # None => tx.writes \subseteq Rows
        /\ \A s \in Sessions : Located(s) /\ Asked(s)
        /\ \A q \in wire : Travels(q)

\* What the database has where the program counts on it.
Present(s) ==
    /\ at[s] \notin {"create", "exited"} => Table \in db
    /\ at[s] = "alter" => \A i \in DOMAIN Columns \ todo[s] : Columns[i] \in db
    /\ at[s] \in {"index", "count", "seed"} \/ Served(s) => ToSet(Columns) \subseteq db
    /\ answer[s] # None /\ answer[s].ok =>
         /\ at[s] = "create" => Table \in db
         /\ at[s] \in {"columns", "count"} => answer[s].saw \subseteq db
         /\ at[s] = "alter" => Columns[Turn(s)] \in db
Schemed == \A s \in Sessions : Present(s)

\* What a transaction has written, when its program has the baton, when the
\* baton is on its way back to the program, and when a COMMIT is on its way.
Written(s, rest) == {Row(s, issued[s], Parts[i]) : i \in DOMAIN Parts \ rest}
Whose(s) ==
    /\ at[s] \in {"insert", "commit"} => baton[s] # None
    /\ answer[s] # None /\ answer[s].ok /\ ~sent[s].close => answer[s].baton # None
    /\ answer[s] # None /\ answer[s].ok /\ at[s] = "commit" =>
         Written(s, {}) \subseteq db
    /\ tx # None /\ baton[s] = tx.baton =>
         /\ s = tx.owner
         /\ at[s] = "insert" => tx.writes = Written(s, todo[s])
         /\ at[s] = "commit" => tx.writes = Written(s, {})
    /\ tx # None /\ answer[s] # None /\ answer[s].baton = tx.baton =>
         /\ s = tx.owner
         /\ at[s] = "begin" => tx.writes = {}
         /\ at[s] = "insert" /\ answer[s].ok => tx.writes = Written(s, Rest(s))
Carries(q) ==
    /\ tx # None /\ q.baton = tx.baton =>
         /\ q.from = tx.owner
         /\ q.stmt.kind = "commit" =>
              \E n \in 1..issued[q.from] : tx.writes = Remote!All(q.from, n)
    /\ q.baton = None /\ q.stmt.kind = "write" => q.stmt.adds \cap Rows = {}
Atomic == /\ \A s \in Sessions : Whose(s)
          /\ \A q \in wire : Carries(q)

\* Without a fault: the columns and spots that are there, how often an instance
\* has had to start over because of another's, and which one puts in the spots.
Added == {i \in DOMAIN Columns : Columns[i] \in db}
Sown == {i \in DOMAIN Seeds : Seeds[i] \in db}
Ahead == IF Sown = {} THEN 1 ELSE 2
Leads(s) == /\ at[s] = "seed"
            /\ IF answer[s] = None THEN Sown = DOMAIN Seeds \ todo[s]
               ELSE answer[s].ok /\ Sown = DOMAIN Seeds \ Rest(s)
Paced(s) ==
    /\ at[s] # "exited"
    /\ at[s] \in {"create", "columns", "index", "count"} =>
         attempts[s] <= Cardinality(Added) + Ahead
    /\ at[s] = "alter" => attempts[s] <= Cardinality(DOMAIN Columns \ todo[s]) + Ahead
    /\ at[s] = "seed" => attempts[s] <= Len(Columns) + 1
    /\ answer[s] # None /\ at[s] = "columns" =>
         attempts[s] <= Cardinality(DOMAIN Columns \ Missing(answer[s].saw)) + Ahead
    /\ answer[s] # None /\ at[s] = "count" /\ answer[s].saw \cap ToSet(Seeds) = {} =>
         attempts[s] <= Len(Columns) + 1
    /\ Starting(s) /\ answer[s] # None => ~answer[s].refused
    /\ answer[s] # None /\ ~answer[s].ok =>
         /\ at[s] \notin {"create", "columns", "count"}
         /\ at[s] = "alter" => Columns[Turn(s)] \in db
         /\ at[s] = "seed" => Seeds[Turn(s)] \in db
         /\ at[s] = "index" => answer[s].why = "unique"
    /\ Served(s) => Sown # {} \/ DOMAIN Seeds = {}
    /\ at[s] = "seed" => Leads(s) \/ (todo[s] = DOMAIN Seeds /\ Turn(s) \in Sown
                                      /\ (answer[s] # None => ~answer[s].ok))
Peaceful == /\ \A q \in wire : ~q.late
            /\ \A s \in Sessions : Paced(s)
            /\ Sown # {} => Min(DOMAIN Seeds) \in Sown
            /\ Sown # {} => \A s, t \in Sessions : Leads(s) /\ Leads(t) => s = t
            /\ Sown # {} /\ Sown # DOMAIN Seeds => \E s \in Sessions : Leads(s)
Calm == faults = 0 => Peaceful

-----------------------------------------------------------------------------
(* Lemmas about the data                                                   *)

\* A non-empty set of indices has a least one.
LEMMA MinIn == ASSUME NEW S \in SUBSET Nat, S # {}
               PROVE  Min(S) \in S
<1>1. PICK x \in S : \A y \in S : ~(<<y, x>> \in OpToRel(<, Nat))
  BY NatLessThanWellFounded, WFMin, Zenon
<1>2. ASSUME NEW y \in S, y < x PROVE FALSE
  <2>1. <<y, x>> \in OpToRel(<, Nat)
    BY <1>2 DEF OpToRel
  <2> QED BY <1>1, <2>1
<1>3. \A y \in S : x <= y
  BY <1>2
<1> QED BY <1>3 DEF Min

LEMMA Indices == /\ DOMAIN Columns = 1..Len(Columns) /\ Len(Columns) \in Nat
                 /\ \A i \in DOMAIN Columns : Columns[i] \in ToSet(Columns)
                 /\ \A c \in ToSet(Columns) : \E i \in DOMAIN Columns : c = Columns[i]
                 /\ DOMAIN Seeds = 1..Len(Seeds) /\ Len(Seeds) \in Nat
                 /\ \A i \in DOMAIN Seeds : Seeds[i] \in ToSet(Seeds)
                 /\ \A c \in ToSet(Seeds) : \E i \in DOMAIN Seeds : c = Seeds[i]
                 /\ \A i, j \in DOMAIN Seeds : Seeds[i] = Seeds[j] => i = j
                 /\ DOMAIN Parts = 1..2
                 /\ \A i \in DOMAIN Parts : Parts[i] \in ToSet(Parts)
                 /\ \A p \in ToSet(Parts) : \E i \in DOMAIN Parts : p = Parts[i]
<1>1. Columns \in Seq(ToSet(Columns)) /\ Seeds \in Seq(ToSet(Seeds))
  BY StartupAssumption
<1>2. DOMAIN Columns = 1..Len(Columns) /\ Len(Columns) \in Nat
  BY <1>1
<1>3. DOMAIN Seeds = 1..Len(Seeds) /\ Len(Seeds) \in Nat
  BY <1>1
<1>4. DOMAIN Parts = 1..2
  BY DEF Parts
<1>5. \A i, j \in DOMAIN Seeds : Seeds[i] = Seeds[j] => i = j
  BY StartupAssumption DEF IsInjective
<1> QED BY <1>2, <1>3, <1>4, <1>5, Zenon DEF ToSet

LEMMA RowsHave == ASSUME NEW s \in Sessions, NEW n \in 1..MaxOps, NEW p \in ToSet(Parts)
                  PROVE  Row(s, n, p) \in Rows
BY DEF Row, Rows

LEMMA Distinct == Table # Index
<1>1. Table[1] = "table" /\ Index[1] = "index"
  BY DEF Table, Index
<1> QED BY <1>1

\* Where a program is, its statement is one of the four words or a write.
LEMMA SqlType == ASSUME Base, NEW s \in Sessions, at[s] \notin {"idle", "exited"}
                 PROVE  /\ Sql(s) \in Statements
                        /\ Sql(s).kind = "write" /\ baton[s] # None => Sql(s).adds \subseteq Rows
<1>1. todo[s] \subseteq Nat /\ issued[s] \in 0..MaxOps /\ MaxOps \in Nat
  BY StartupAssumption DEF Base, TypeOK
<1>2. at[s] \in {"alter", "seed", "insert"} => Turn(s) \in todo[s]
  BY <1>1, MinIn DEF Base, Located, Turn
<1>3. CASE at[s] = "alter"
  <2>1. Columns[Turn(s)] \in Items
    BY <1>2, <1>3, Indices DEF Base, Located, Items, Schema
  <2> QED BY <2>1, <1>3 DEF Sql, Insert, Statements, Base, Located
<1>4. CASE at[s] = "seed"
  <2>1. Seeds[Turn(s)] \in Items
    BY <1>2, <1>4, Indices DEF Base, Located, Items
  <2> QED BY <2>1, <1>4 DEF Sql, Insert, Statements, Base, Located
<1>5. CASE at[s] = "insert"
  <2>1. Parts[Turn(s)] \in ToSet(Parts) /\ issued[s] \in 1..MaxOps
    BY <1>1, <1>2, <1>5, Indices DEF Base, Located, InTransaction
  <2>2. Row(s, issued[s], Parts[Turn(s)]) \in Rows
    BY <2>1, RowsHave
  <2> QED BY <2>2, <1>5 DEF Sql, Insert, Statements, Items
<1>6. CASE at[s] \in {"create", "index"}
  BY <1>6 DEF Sql, Create, Statements, Items, Schema, Base, Located
<1>7. CASE at[s] \in {"columns", "count", "begin", "commit", "rollback"}
  BY <1>7 DEF Sql, Statements, Read, Begin, Commit, Rollback
<1>8. at[s] \in Places
  BY DEF Base
<1> QED BY <1>3, <1>4, <1>5, <1>6, <1>7, <1>8 DEF Places

-----------------------------------------------------------------------------
(* Lemmas about the steps                                                  *)

\* The server answers a request ...
Step(q, a) ==
    /\ q \in wire /\ wire' = wire \ {q}
    /\ a \in Answers /\ a.baton \in Unused \cup {None}
    /\ q.close => a.baton = None
    /\ a.refused => q.baton # None /\ ~a.ok
    /\ answer' = IF q.late THEN answer ELSE [answer EXCEPT ![q.from] = a]
    /\ faults' \in 0..MaxFaults /\ (faults' = 0 => faults = 0)
    /\ UNCHANGED <<baton, sent, startVars>>

\* ... in one of seven ways: it does nothing, has nothing to do, writes, opens a
\* transaction, goes on with one, ends it, or commits it.
Fruitless(q, a) ==
    /\ ~a.ok /\ UNCHANGED server
    /\ faults' = 0 /\ q.baton = None =>
         \/ q.stmt.kind \in {"commit", "rollback"}
         \/ q.stmt.kind = "write" /\ Conflict(q) /\ a.why = "unique"
Looked(q, a) ==
    /\ a.ok /\ q.baton = None /\ UNCHANGED server /\ a.saw = db
    /\ q.stmt.kind = "read" \/ (q.stmt.kind = "write" /\ ~q.stmt.fresh /\ q.stmt.item \in db)
Wrote(q, a) ==
    /\ a.ok /\ q.baton = None /\ tx' = tx
    /\ q.stmt.kind = "write" /\ db' = db \cup q.stmt.adds
    /\ q.stmt.fresh => q.stmt.item \notin db
Opened(q, a) ==
    /\ a.ok /\ q.baton = None /\ q.stmt.kind = "begin" /\ tx = None /\ db' = db
    /\ a.baton # None
    /\ tx' = [baton |-> a.baton, owner |-> q.from, writes |-> {}]
Continued(q, a) ==
    /\ InTx(q) /\ db' = db /\ a.baton # None
    /\ \/ a.ok /\ q.stmt.kind = "write"
          /\ tx' = [tx EXCEPT !.baton = a.baton, !.writes = tx.writes \cup q.stmt.adds]
       \/ (a.ok => q.stmt.kind = "read")
          /\ tx' = [tx EXCEPT !.baton = a.baton, !.writes = tx.writes]
Ended(q, a) ==
    /\ InTx(q) /\ db' = db /\ tx' = None /\ a.baton = None
    /\ q.stmt.kind = "commit" => ~a.ok
    /\ ServerCloses \/ q.stmt.kind \in {"commit", "rollback"}
Committed(q, a) ==
    /\ InTx(q) /\ q.stmt.kind = "commit" /\ a.ok /\ a.baton = None
    /\ db' = db \cup tx.writes /\ tx' = None

Outcome(q, a) == \/ Fruitless(q, a) \/ Looked(q, a) \/ Wrote(q, a) \/ Opened(q, a)
                 \/ Continued(q, a) \/ Ended(q, a) \/ Committed(q, a)

LEMMA Fresh == ASSUME Unused # {} PROVE NewBaton \in Unused
BY DEF NewBaton

LEMMA BatonTypes == Unused \subseteq Batons /\ None \notin Batons
<1>1. Batons \subseteq Nat
  BY DEF Batons
<1> QED BY <1>1, HranaAssumption DEF Unused

LEMMA Seeing == ASSUME Base, NEW q \in wire
                PROVE  Seen(q) \subseteq Items \cup {Duplicates}
<1>1. db \subseteq Items \cup {Duplicates} /\ tx \in Txs \cup {None}
  BY DEF Base, TypeOK
<1>2. tx # None => tx.writes \subseteq Items
  BY <1>1 DEF Txs
<1> QED BY <1>1, <1>2, Zenon DEF Seen, InTx

LEMMA ServeKinds == ASSUME Base, Serve, UNCHANGED startVars
                    PROVE  \E q, a : Step(q, a) /\ Outcome(q, a)
<1>1. PICK q \in wire : \/ Refuse(q) \/ ServeBegin(q) \/ ServeEnd(q)
                        \/ ServeRead(q) \/ ServeWrite(q)
  BY DEF Serve
<1>2. /\ Unused # {} /\ NewBaton \in Unused /\ NewBaton \in Batons /\ NewBaton # None
      /\ UNCHANGED <<baton, sent>>
  BY Fresh, BatonTypes DEF Serve
<1>3. q \in Requests /\ Travels(q) /\ faults \in 0..MaxFaults /\ MaxFaults \in Nat
  BY HranaAssumption DEF Base, TypeOK
<1>4. Seen(q) \subseteq Items \cup {Duplicates}
  BY Seeing
<1> DEFINE H == IF q.close THEN None ELSE NewBaton
<1>5. H \in {NewBaton, None} /\ H = Handed(q) /\ (q.close => H = None)
  BY DEF Handed
<1> HIDE DEF H
<1>6. UNCHANGED faults \/ Fault => faults' \in 0..MaxFaults /\ (faults' = 0 => faults = 0)
  BY <1>3 DEF Fault
<1>7. ASSUME NEW b \in {NewBaton, None}, Reply(q, TRUE, b, ""), q.close => b = None,
             UNCHANGED faults \/ Fault
      PROVE  \E a : Step(q, a) /\ a.ok /\ a.baton = b /\ a.saw = Seen(q)
  <2> DEFINE a == [ok |-> TRUE, baton |-> b, saw |-> Seen(q), why |-> "", refused |-> FALSE]
  <2>1. a \in Answers
    BY <1>2, <1>4 DEF Answers, Reasons
  <2>2. a.baton = b /\ a.ok /\ a.refused = FALSE /\ a.saw = Seen(q)
    OBVIOUS
  <2>3. wire' = wire \ {q} /\ answer' = IF q.late THEN answer ELSE [answer EXCEPT ![q.from] = a]
    BY <1>7 DEF Reply
  <2>4. b \in Unused \cup {None}
    BY <1>2
  <2> HIDE DEF a
  <2>5. Step(q, a)
    BY <1>1, <1>2, <1>6, <1>7, <2>1, <2>2, <2>3, <2>4 DEF Step
  <2> QED BY <2>2, <2>5
<1>8. ASSUME NEW b \in {NewBaton, None}, NEW why \in Reasons, Reply(q, FALSE, b, why),
             q.close => b = None, why = "refused" => q.baton # None,
             UNCHANGED faults \/ Fault
      PROVE  \E a : Step(q, a) /\ ~a.ok /\ a.baton = b /\ a.why = why
  <2> DEFINE a == [ok |-> FALSE, baton |-> b, saw |-> Seen(q), why |-> why,
                   refused |-> why = "refused"]
  <2>0. (why = "refused") \in BOOLEAN
    OBVIOUS
  <2>1. a \in Answers
    BY <1>2, <1>4, <2>0 DEF Answers
  <2>2. a.baton = b /\ ~a.ok /\ (a.refused => why = "refused") /\ a.why = why
    OBVIOUS
  <2>3. wire' = wire \ {q} /\ answer' = IF q.late THEN answer ELSE [answer EXCEPT ![q.from] = a]
    BY <1>8 DEF Reply
  <2>4. b \in Unused \cup {None}
    BY <1>2
  <2> HIDE DEF a
  <2>5. Step(q, a)
    BY <1>1, <1>2, <1>6, <1>8, <2>1, <2>2, <2>3, <2>4 DEF Step
  <2> QED BY <2>2, <2>5
<1>0. /\ "unique" \in Reasons /\ "unique" # "refused"
      /\ "failed" \in Reasons /\ "failed" # "refused"
  BY DEF Reasons
<1>9. ASSUME NEW b \in {H, None}, NEW writes, NEW a,
             InTx(q), db' = db, b = H \/ ServerCloses, q.stmt.kind \in {"read", "write"},
             Step(q, a), a.baton = b,
             tx' = IF b = None THEN None ELSE [tx EXCEPT !.baton = b, !.writes = writes],
             \/ writes = tx.writes /\ (a.ok => q.stmt.kind = "read")
             \/ a.ok /\ q.stmt.kind = "write" /\ writes = tx.writes \cup q.stmt.adds
       PROVE  \E aa : Step(q, aa) /\ Outcome(q, aa)
  <2>1. ~q.close
    BY <1>3, <1>9 DEF Travels, Closes, InTx
  <2>2. H = NewBaton
    BY <2>1 DEF H
  <2>3. CASE b = None
    <3>1. Ended(q, a)
      BY <1>2, <1>9, <2>2, <2>3 DEF Ended
    <3> QED BY <1>9, <3>1 DEF Outcome
  <2>4. CASE b # None
    <3>1. Continued(q, a)
      BY <1>9, <2>4 DEF Continued
    <3> QED BY <1>9, <3>1 DEF Outcome
  <2> QED BY <2>3, <2>4
<1>10. CASE Refuse(q)
  <2>1. Reply(q, FALSE, None, "refused") /\ q.baton # None /\ UNCHANGED <<server, faults>>
    BY <1>10 DEF Refuse
  <2>2. PICK a : Step(q, a) /\ ~a.ok
    BY <1>8, <2>1 DEF Reasons
  <2>3. Fruitless(q, a)
    BY <2>1, <2>2 DEF Fruitless
  <2> QED BY <2>2, <2>3 DEF Outcome
<1>11. ASSUME Busy(q) PROVE \E a : Step(q, a) /\ Outcome(q, a)
  <2>1. Reply(q, FALSE, H, "busy") /\ Fault /\ UNCHANGED server
    BY <1>11, <1>5 DEF Busy, Fails
  <2>2. PICK a : Step(q, a) /\ ~a.ok
    BY <1>5, <1>8, <2>1 DEF Reasons
  <2>3. faults' # 0
    BY <1>3, <2>1 DEF Fault
  <2>4. Fruitless(q, a)
    BY <2>1, <2>2, <2>3 DEF Fruitless
  <2> QED BY <2>2, <2>4 DEF Outcome
<1>12. CASE ServeBegin(q)
  <2>1. CASE Busy(q)
    BY <1>11, <2>1
  <2>2. CASE /\ tx = None
             /\ tx' = [baton |-> NewBaton, owner |-> q.from, writes |-> {}]
             /\ Reply(q, TRUE, NewBaton, "") /\ UNCHANGED <<db, faults>>
    <3>1. ~q.close /\ q.baton = None /\ q.stmt.kind = "begin"
      BY <1>3, <1>12 DEF Travels, Closes, ServeBegin
    <3>2. PICK a : Step(q, a) /\ a.ok /\ a.baton = NewBaton
      BY <1>7, <2>2, <3>1
    <3>3. Opened(q, a)
      BY <1>2, <2>2, <3>1, <3>2 DEF Opened
    <3> QED BY <3>2, <3>3 DEF Outcome
  <2> QED BY <1>12, <2>1, <2>2 DEF ServeBegin
<1>13. CASE ServeEnd(q)
  <2>0. q.stmt.kind \in {"commit", "rollback"} /\ UNCHANGED faults
    BY <1>13 DEF ServeEnd
  <2>1. CASE q.baton = None /\ Fails(q, "no transaction") /\ UNCHANGED server
    <3>1. PICK a : Step(q, a) /\ ~a.ok
      BY <1>5, <1>8, <2>0, <2>1 DEF Fails, Reasons
    <3>2. Fruitless(q, a)
      BY <2>0, <2>1, <3>1 DEF Fruitless
    <3> QED BY <3>1, <3>2 DEF Outcome
  <2>2. CASE InTx(q) /\ tx' = None /\ Reply(q, TRUE, None, "")
             /\ db' = IF q.stmt.kind = "commit" THEN db \cup tx.writes ELSE db
    <3>1. PICK a : Step(q, a) /\ a.ok /\ a.baton = None
      BY <1>7, <2>0, <2>2
    <3>2. Ended(q, a) \/ Committed(q, a)
      BY <2>0, <2>2, <3>1 DEF Ended, Committed
    <3> QED BY <3>1, <3>2 DEF Outcome
  <2>3. CASE InTx(q) /\ tx' = None /\ Fails(q, "failed") /\ UNCHANGED db
    <3>1. q.close /\ H = None
      BY <1>3, <1>5, <2>0 DEF Travels, Closes
    <3>4. Reply(q, FALSE, None, "failed")
      BY <1>5, <2>3, <3>1 DEF Fails
    <3>2. PICK a : Step(q, a) /\ ~a.ok /\ a.baton = None
      BY <1>0, <1>8, <2>0, <3>4, Zenon
    <3>3. Ended(q, a)
      BY <2>0, <2>3, <3>2 DEF Ended
    <3> QED BY <3>2, <3>3 DEF Outcome
  <2> QED BY <1>13, <2>1, <2>2, <2>3 DEF ServeEnd
<1>14. ASSUME NEW writes, InTx(q), Continue(q, TRUE, writes), db' = db, UNCHANGED faults,
              \/ q.stmt.kind = "read" /\ writes = tx.writes
              \/ q.stmt.kind = "write" /\ writes = tx.writes \cup q.stmt.adds
       PROVE  \E a : Step(q, a) /\ Outcome(q, a)
  <2>1. PICK b \in {H, None} :
          /\ b = H \/ ServerCloses
          /\ Reply(q, TRUE, b, "")
          /\ tx' = IF b = None THEN None ELSE [tx EXCEPT !.baton = b, !.writes = writes]
    BY <1>5, <1>14 DEF Continue
  <2>2. PICK a : Step(q, a) /\ a.ok /\ a.baton = b
    BY <1>5, <1>7, <1>14, <2>1
  <2>3. q.stmt.kind \in {"read", "write"}
    BY <1>14
  <2>4. \/ writes = tx.writes /\ (a.ok => q.stmt.kind = "read")
        \/ a.ok /\ q.stmt.kind = "write" /\ writes = tx.writes \cup q.stmt.adds
    BY <1>14, <2>2
  <2> QED BY <1>9, <1>14, <2>1, <2>2, <2>3, <2>4, Zenon
<1>15. ASSUME InTx(q), Continue(q, FALSE, tx.writes), db' = db, UNCHANGED faults,
              q.stmt.kind = "write"
       PROVE  \E a : Step(q, a) /\ Outcome(q, a)
  <2>1. /\ Reply(q, FALSE, H, "unique")
        /\ tx' = IF H = None THEN None ELSE [tx EXCEPT !.baton = H, !.writes = tx.writes]
    BY <1>5, <1>15 DEF Continue
  <2>2. PICK a : Step(q, a) /\ ~a.ok /\ a.baton = H
    BY <1>0, <1>5, <1>8, <1>15, <2>1, Zenon
  <2>3. H \in {H, None} /\ q.stmt.kind \in {"read", "write"}
    BY <1>15
  <2>4. tx.writes = tx.writes /\ (a.ok => q.stmt.kind = "read")
    BY <2>2
  <2> QED BY <1>9, <1>15, <2>1, <2>2, <2>3, <2>4, Zenon
<1>16. CASE ServeRead(q)
  <2>1. q.stmt.kind = "read" /\ UNCHANGED faults
    BY <1>16 DEF ServeRead
  <2>2. CASE q.baton = None /\ Reply(q, TRUE, None, "") /\ UNCHANGED server
    <3>1. PICK a : Step(q, a) /\ a.ok /\ a.baton = None /\ a.saw = Seen(q)
      BY <1>7, <2>1, <2>2
    <3>2. Looked(q, a)
      BY <2>1, <2>2, <3>1 DEF Looked, Seen, InTx
    <3> QED BY <3>1, <3>2 DEF Outcome
  <2>3. CASE InTx(q) /\ Continue(q, TRUE, tx.writes) /\ UNCHANGED db
    BY <1>14, <2>1, <2>3
  <2> QED BY <1>16, <2>2, <2>3 DEF ServeRead
<1>17. CASE ServeWrite(q)
  <2>0. q.stmt.kind = "write"
    BY <1>17 DEF ServeWrite
  <2>1. CASE Busy(q)
    BY <1>11, <2>1
  <2>2. CASE /\ q.baton = None /\ UNCHANGED <<tx, faults>>
             /\ Conflict(q) /\ Fails(q, "unique") /\ UNCHANGED db
    <3>0. Reply(q, FALSE, H, "unique") /\ UNCHANGED faults
      BY <1>5, <2>2 DEF Fails
    <3>1. PICK a : Step(q, a) /\ ~a.ok /\ a.why = "unique"
      BY <1>0, <1>5, <1>8, <3>0, Zenon
    <3>2. Fruitless(q, a)
      BY <2>0, <2>2, <3>1 DEF Fruitless, server
    <3> QED BY <3>1, <3>2 DEF Outcome
  <2>3. CASE /\ q.baton = None /\ UNCHANGED <<tx, faults>>
             /\ ~Conflict(q) /\ Reply(q, TRUE, None, "")
             /\ db' = IF Idle(q) THEN db ELSE db \cup q.stmt.adds
    <3>1. PICK a : Step(q, a) /\ a.ok /\ a.baton = None /\ a.saw = Seen(q)
      BY <1>7, <2>3
    <3>2. Seen(q) = db
      BY <2>3 DEF Seen, InTx
    <3>3. CASE Idle(q)
      <4>1. Looked(q, a)
        BY <2>0, <2>3, <3>1, <3>2, <3>3 DEF Looked, Idle, server
      <4> QED BY <3>1, <4>1 DEF Outcome
    <3>4. CASE ~Idle(q)
      <4>1. Wrote(q, a)
        BY <2>0, <2>3, <3>1, <3>2, <3>4 DEF Wrote, Conflict
      <4> QED BY <3>1, <4>1 DEF Outcome
    <3> QED BY <3>3, <3>4
  <2>4. CASE InTx(q) /\ UNCHANGED <<db, faults>> /\ Continue(q, FALSE, tx.writes)
    BY <1>15, <2>0, <2>4
  <2>5. CASE InTx(q) /\ UNCHANGED <<db, faults>> /\ ~Conflict(q)
             /\ Continue(q, TRUE, tx.writes \cup q.stmt.adds)
    BY <1>14, <2>0, <2>5
  <2> QED BY <1>17, <2>1, <2>2, <2>3, <2>4, <2>5 DEF ServeWrite
<1> QED BY <1>1, <1>10, <1>12, <1>13, <1>16, <1>17

\* A program goes on to its next statement: where to, with which indices left,
\* in which attempt, and what it tells its caller.
Hop(s, l, rest) == at'[s] = l /\ todo'[s] = rest
HopOn(s, l, rest, after) == \/ rest = {} /\ Hop(s, after, {})
                            \/ rest # {} /\ Hop(s, l, rest)
StartMoves(s, ok, a) ==
    \/ at[s] = "create" /\ ok /\ Hop(s, "columns", {}) /\ attempts'[s] = attempts[s]
    \/ at[s] = "columns" /\ ok /\ HopOn(s, "alter", Missing(a.saw), "index")
       /\ attempts'[s] = attempts[s]
    \/ at[s] = "alter" /\ ok /\ HopOn(s, "alter", Rest(s), "index")
       /\ attempts'[s] = attempts[s]
    \/ at[s] = "index" /\ (ok \/ (a # None /\ a.why = "unique")) /\ Hop(s, "count", {})
       /\ attempts'[s] = attempts[s]
    \/ at[s] = "count" /\ ok /\ HopOn(s, "seed", Unseeded(a.saw), "idle")
       /\ attempts'[s] = IF at'[s] = "idle" THEN 1 ELSE attempts[s]
    \/ at[s] = "seed" /\ ok /\ HopOn(s, "seed", Rest(s), "idle")
       /\ attempts'[s] = IF at'[s] = "idle" THEN 1 ELSE attempts[s]
    \/ Starting(s) /\ ~ok /\ (at[s] = "index" => a = None \/ a.why # "unique")
       /\ \/ attempts[s] < MaxAttempts /\ Hop(s, "create", {}) /\ attempts'[s] = attempts[s] + 1
          \/ attempts[s] = MaxAttempts /\ Hop(s, "exited", {}) /\ attempts'[s] = attempts[s]
TxMoves(s, ok) ==
    \/ at[s] = "begin" /\ ok /\ Hop(s, "insert", DOMAIN Parts) /\ told'[s] = told[s]
    \/ at[s] = "begin" /\ ~ok /\ Hop(s, "idle", {}) /\ told'[s] = "err"
    \/ at[s] = "insert" /\ ok /\ HopOn(s, "insert", Rest(s), "commit") /\ told'[s] = told[s]
    \/ at[s] = "commit" /\ ok /\ Hop(s, "idle", {}) /\ told'[s] = "ok"
    \/ at[s] \in {"insert", "commit"} /\ ~ok /\ Hop(s, "rollback", {}) /\ told'[s] = told[s]
    \/ at[s] = "rollback" /\ Hop(s, "idle", {}) /\ told'[s] = "err"
Moves(s, ok, a) == \/ StartMoves(s, ok, a) /\ told'[s] = told[s]
                   \/ TxMoves(s, ok) /\ attempts'[s] = attempts[s]

\* The program of another instance stays where it is.
Stays(t) == /\ at'[t] = at[t] /\ todo'[t] = todo[t] /\ attempts'[t] = attempts[t]
            /\ told'[t] = told[t] /\ issued'[t] = issued[t]
Typed == /\ at \in [Sessions -> Places] /\ todo \in [Sessions -> SUBSET Nat]
         /\ attempts \in [Sessions -> 1..MaxAttempts]
         /\ told \in [Sessions -> {"none", "ok", "err"}]
         /\ issued \in [Sessions -> 0..MaxOps]

LEMMA LoopHops == ASSUME Typed, NEW s \in Sessions, NEW l \in Places, NEW after \in Places,
                         NEW rest \in SUBSET Nat, Loop(s, l, rest, after)
                  PROVE  /\ at' = [at EXCEPT ![s] = at'[s]] /\ at'[s] \in {l, after}
                         /\ todo' = [todo EXCEPT ![s] = todo'[s]] /\ todo'[s] \in SUBSET Nat
                         /\ HopOn(s, l, rest, after)
<1>1. CASE rest = {}
  BY <1>1 DEF Loop, Goto, HopOn, Hop, Typed
<1>2. CASE rest # {}
  BY <1>2 DEF Loop, Goto, HopOn, Hop, Typed
<1> QED BY <1>1, <1>2

LEMMA GotoHops == ASSUME Typed, NEW s \in Sessions, NEW l \in Places,
                         NEW rest \in SUBSET Nat, Goto(s, l, rest)
                  PROVE  /\ at' = [at EXCEPT ![s] = at'[s]] /\ at'[s] = l
                         /\ todo' = [todo EXCEPT ![s] = todo'[s]] /\ todo'[s] \in SUBSET Nat
                         /\ Hop(s, l, rest)
BY DEF Goto, Hop, Typed

LEMMA AdvanceMoves ==
  ASSUME Typed, NEW s \in Sessions, NEW ok \in BOOLEAN, NEW a, Advance(s, ok, a)
  PROVE  /\ Moves(s, ok, a) /\ Typed' /\ issued' = issued
         /\ \A t \in Sessions : t # s => Stays(t)
<1> DEFINE Framed == /\ at' = [at EXCEPT ![s] = at'[s]] /\ at'[s] \in Places
                     /\ todo' = [todo EXCEPT ![s] = todo'[s]] /\ todo'[s] \in SUBSET Nat
<1>1. /\ Rest(s) \in SUBSET Nat /\ \A saw : Missing(saw) \in SUBSET Nat
      /\ \A saw : Unseeded(saw) \in SUBSET Nat /\ DOMAIN Parts \in SUBSET Nat
      /\ {} \in SUBSET Nat
  BY Indices DEF Rest, Missing, Unseeded, Typed
<1>2. \A l \in {"create", "columns", "alter", "index", "count", "seed", "idle",
                "begin", "insert", "commit", "rollback", "exited"} : l \in Places
  BY DEF Places
<1>3. attempts[s] \in 1..MaxAttempts /\ MaxAttempts \in Nat \ {0}
  BY StartupAssumption DEF Typed
<1>4. CASE Starting(s) /\ (ok \/ (at[s] = "index" /\ a # None /\ a.why = "unique"))
  <2>1. /\ UNCHANGED <<told, issued>>
        /\ CASE at[s] = "create" -> Goto(s, "columns", {})
             [] at[s] = "columns" -> Loop(s, "alter", Missing(a.saw), "index")
             [] at[s] = "alter" -> Loop(s, "alter", Rest(s), "index")
             [] at[s] = "index" -> Goto(s, "count", {})
             [] at[s] = "count" -> Loop(s, "seed", Unseeded(a.saw), "idle")
             [] at[s] = "seed" -> Loop(s, "seed", Rest(s), "idle")
        /\ attempts' = [attempts EXCEPT ![s] = IF at'[s] = "idle" THEN 1 ELSE attempts[s]]
    BY <1>4 DEF Advance, Starting
  <2>2. Framed /\ StartMoves(s, ok, a)
    <3>1. CASE at[s] = "create"
      <4>1. Goto(s, "columns", {})
        BY <2>1, <3>1
      <4> QED BY <1>1, <1>2, <1>3, <1>4, <2>1, <3>1, <4>1, GotoHops DEF StartMoves, Hop, Typed
    <3>2. CASE at[s] = "columns"
      <4>1. Loop(s, "alter", Missing(a.saw), "index")
        BY <2>1, <3>2
      <4> QED BY <1>1, <1>2, <1>3, <1>4, <2>1, <3>2, <4>1, LoopHops DEF StartMoves, Typed
    <3>3. CASE at[s] = "alter"
      <4>1. Loop(s, "alter", Rest(s), "index")
        BY <2>1, <3>3
      <4> QED BY <1>1, <1>2, <1>3, <1>4, <2>1, <3>3, <4>1, LoopHops DEF StartMoves, Typed
    <3>4. CASE at[s] = "index"
      <4>1. Goto(s, "count", {})
        BY <2>1, <3>4
      <4> QED BY <1>1, <1>2, <1>3, <1>4, <2>1, <3>4, <4>1, GotoHops DEF StartMoves, Hop, Typed
    <3>5. CASE at[s] = "count"
      <4>1. Loop(s, "seed", Unseeded(a.saw), "idle")
        BY <2>1, <3>5
      <4> QED BY <1>1, <1>2, <1>3, <1>4, <2>1, <3>5, <4>1, LoopHops DEF StartMoves, Typed
    <3>6. CASE at[s] = "seed"
      <4>1. Loop(s, "seed", Rest(s), "idle")
        BY <2>1, <3>6
      <4> QED BY <1>1, <1>2, <1>3, <1>4, <2>1, <3>6, <4>1, LoopHops DEF StartMoves, Typed
    <3> QED BY <1>4, <3>1, <3>2, <3>3, <3>4, <3>5, <3>6 DEF Starting
  <2> QED BY <1>3, <2>1, <2>2 DEF Moves, Typed, Stays
<1>5. CASE Starting(s) /\ ~(ok \/ (at[s] = "index" /\ a # None /\ a.why = "unique"))
  <2>1. UNCHANGED <<told, issued>> /\ Retry(s)
    BY <1>5 DEF Advance, Starting
  <2>2. CASE attempts[s] < MaxAttempts
    <3>1. Goto(s, "create", {}) /\ attempts' = [attempts EXCEPT ![s] = @ + 1]
      BY <2>1, <2>2 DEF Retry
    <3>2. Framed /\ Hop(s, "create", {})
      BY <1>1, <1>2, <3>1, GotoHops
    <3>3. StartMoves(s, ok, a)
      BY <1>5, <2>2, <3>1, <3>2 DEF StartMoves, Typed
    <3> QED BY <1>3, <2>1, <2>2, <3>1, <3>2, <3>3 DEF Moves, Typed, Stays
  <2>3. CASE ~(attempts[s] < MaxAttempts)
    <3>1. Goto(s, "exited", {}) /\ UNCHANGED attempts
      BY <2>1, <2>3 DEF Retry
    <3>2. Framed /\ Hop(s, "exited", {})
      BY <1>1, <1>2, <3>1, GotoHops
    <3>3. StartMoves(s, ok, a)
      BY <1>3, <1>5, <2>3, <3>1, <3>2 DEF StartMoves, Typed
    <3> QED BY <1>3, <2>1, <3>1, <3>2, <3>3 DEF Moves, Typed, Stays
  <2> QED BY <2>2, <2>3
<1>6. CASE ~Starting(s)
  <2>1. CASE at[s] = "begin"
    <3>1. CASE ok
      <4>1. Goto(s, "insert", DOMAIN Parts) /\ UNCHANGED <<attempts, issued, told>>
        BY <1>6, <2>1, <3>1 DEF Advance
      <4>2. Framed /\ Hop(s, "insert", DOMAIN Parts)
        BY <1>1, <1>2, <4>1, GotoHops
      <4> QED BY <2>1, <3>1, <4>1, <4>2 DEF Moves, TxMoves, Typed, Stays
    <3>2. CASE ~ok
      <4>1. Goto(s, "idle", {}) /\ UNCHANGED <<attempts, issued>> /\ Report(s, "err")
        BY <1>6, <2>1, <3>2 DEF Advance
      <4>2. Framed /\ Hop(s, "idle", {})
        BY <1>1, <1>2, <4>1, GotoHops
      <4> QED BY <2>1, <3>2, <4>1, <4>2 DEF Moves, TxMoves, Typed, Stays, Report
    <3> QED BY <3>1, <3>2
  <2>2. CASE at[s] = "insert" /\ ok
    <3>1. Loop(s, "insert", Rest(s), "commit") /\ UNCHANGED <<attempts, issued, told>>
      BY <1>6, <2>2 DEF Advance
    <3>2. Framed /\ HopOn(s, "insert", Rest(s), "commit")
      BY <1>1, <1>2, <3>1, LoopHops
    <3> QED BY <2>2, <3>1, <3>2 DEF Moves, TxMoves, Typed, Stays
  <2>3. CASE at[s] = "commit" /\ ok
    <3>1. Goto(s, "idle", {}) /\ UNCHANGED <<attempts, issued>> /\ Report(s, "ok")
      BY <1>6, <2>3 DEF Advance
    <3>2. Framed /\ Hop(s, "idle", {})
      BY <1>1, <1>2, <3>1, GotoHops
    <3> QED BY <2>3, <3>1, <3>2 DEF Moves, TxMoves, Typed, Stays, Report
  <2>4. CASE at[s] \in {"insert", "commit"} /\ ~ok
    <3>1. Goto(s, "rollback", {}) /\ UNCHANGED <<attempts, issued, told>>
      BY <1>6, <2>4 DEF Advance, Unwind
    <3>2. Framed /\ Hop(s, "rollback", {})
      BY <1>1, <1>2, <3>1, GotoHops
    <3> QED BY <2>4, <3>1, <3>2 DEF Moves, TxMoves, Typed, Stays
  <2>5. CASE at[s] = "rollback"
    <3>1. Goto(s, "idle", {}) /\ UNCHANGED <<attempts, issued>> /\ Report(s, "err")
      BY <1>6, <2>5 DEF Advance
    <3>2. Framed /\ Hop(s, "idle", {})
      BY <1>1, <1>2, <3>1, GotoHops
    <3> QED BY <2>5, <3>1, <3>2 DEF Moves, TxMoves, Typed, Stays, Report
  <2> QED BY <1>6, <2>1, <2>2, <2>3, <2>4, <2>5 DEF Advance
<1> QED BY <1>4, <1>5, <1>6

-----------------------------------------------------------------------------
(* Base is inductive                                                       *)

LEMMA BaseInit == Init => Base
<1> SUFFICES ASSUME Init PROVE Base
  OBVIOUS
<1>1. None \notin Batons
  BY BatonTypes
<1>2. db \subseteq Items \cup {Duplicates}
  BY DEF Init, Databases, Items, Schema
<1>3. TypeOK
  BY <1>2, StartupAssumption, HranaAssumption DEF Init, HranaInit, TypeOK, Starting
<1>4. at \in [Sessions -> Places] /\ todo \in [Sessions -> SUBSET Nat]
  BY DEF Init, Places
<1>5. \A s \in Sessions : Located(s) /\ Asked(s)
  BY DEF Init, HranaInit, Located, Asked, InTransaction, Starting
<1> QED BY <1>3, <1>4, <1>5 DEF Base, Init, HranaInit

\* What a program has asked does not change while it stays where it is.
LEMMA SqlStays == ASSUME NEW s, Stays(s) PROVE Sql(s)' = Sql(s)
BY DEF Sql, Turn, Stays

LEMMA LocatedStays == ASSUME NEW s, Located(s), Stays(s), baton'[s] = baton[s]
                      PROVE  Located(s)'
BY DEF Located, Stays, InTransaction, Starting

LEMMA AskedStays ==
  ASSUME NEW s, Asked(s), Stays(s), baton'[s] = baton[s], sent'[s] = sent[s],
         answer'[s] = answer[s]
  PROVE  Asked(s)'
BY SqlStays DEF Asked, Stays

LEMMA Typing == Base => Typed
BY DEF Base, TypeOK, Typed

LEMMA AskBase == ASSUME Base, NEW s \in Sessions, Ask(s) PROVE Base'
<1> DEFINE q == [from |-> s, stmt |-> Sql(s), baton |-> baton[s], late |-> FALSE,
                 close |-> Closes(Sql(s), baton[s])]
<1>1. /\ at[s] \notin {"idle", "exited"} /\ sent[s] = None
      /\ sent' = [sent EXCEPT ![s] = q] /\ wire' = wire \cup {q}
      /\ UNCHANGED <<baton, answer, db, tx, faults, at, todo, attempts, told, issued>>
  BY DEF Ask, Send, server, startVars
<1>2. Sql(s) \in Statements /\ (Sql(s).kind = "write" /\ baton[s] # None => Sql(s).adds \subseteq Rows)
  BY <1>1, SqlType
<1>3. Closes(Sql(s), baton[s]) \in BOOLEAN /\ baton[s] \in Batons \cup {None}
  BY DEF Closes, Base, TypeOK
<1>4. q \in Requests
  BY <1>2, <1>3 DEF Requests
<1>5. /\ q.from = s /\ q.stmt = Sql(s) /\ q.baton = baton[s] /\ ~q.late
      /\ q.close = Closes(q.stmt, q.baton)
  OBVIOUS
<1> HIDE DEF q
<1>6. answer[s] = None
  BY <1>1 DEF Base, Asked
<1>7. sent'[s] = q /\ \A t \in Sessions : t # s => sent'[t] = sent[t]
  BY <1>1 DEF Base, TypeOK
<1>8. \A t \in Sessions : Stays(t) /\ baton'[t] = baton[t] /\ answer'[t] = answer[t]
  BY <1>1 DEF Stays
<1>9. ASSUME NEW t \in Sessions PROVE Located(t)' /\ Asked(t)'
  <2>1. Located(t)'
    BY <1>8, LocatedStays DEF Base
  <2>2. CASE t # s
    BY <1>7, <1>8, <2>1, <2>2, AskedStays DEF Base
  <2>3. CASE t = s
    <3>1. Sql(s)' = Sql(s)
      BY <1>8, SqlStays
    <3> QED BY <1>1, <1>5, <1>6, <1>7, <2>1, <2>3, <3>1 DEF Asked
  <2> QED BY <2>2, <2>3
<1>10. ASSUME NEW p \in wire' PROVE Travels(p)'
  <2>1. CASE p = q
    BY <1>1, <1>2, <1>5, <1>6, <1>7, <2>1 DEF Travels
  <2>2. CASE p # q
    <3>1. p \in wire /\ p.from \in Sessions /\ Travels(p)
      BY <1>1, <2>2 DEF Base, TypeOK, Requests
    <3>2. p.late \/ p.from # s
      BY <1>1, <1>4, <3>1, StartupAssumption DEF Travels, Base, TypeOK
    <3> QED BY <1>1, <1>7, <3>1, <3>2 DEF Travels
  <2> QED BY <2>1, <2>2
<1>11. TypeOK'
  <2>1. sent' \in [Sessions -> Requests \cup {None}] /\ wire' \subseteq Requests
    BY <1>1, <1>4 DEF Base, TypeOK
  <2> QED BY <1>1, <2>1 DEF Base, TypeOK, Starting
<1> QED BY <1>1, <1>9, <1>10, <1>11 DEF Base

\* The server takes a request off the wire.  It leaves the programs where they are.
LEMMA StepBase == ASSUME Base, NEW q, NEW a, Step(q, a), Outcome(q, a) PROVE Base'
<1>1. /\ q \in wire /\ q \in Requests /\ q.from \in Sessions /\ q.baton \in Batons \cup {None}
      /\ Travels(q) /\ a \in Answers /\ a # None /\ a.baton \in Batons \cup {None}
      /\ q.stmt \in Statements
  BY StartupAssumption DEF Step, Base, TypeOK, Requests, Answers
<1>2. /\ UNCHANGED <<baton, sent, at, todo, attempts, told, issued>> /\ wire' = wire \ {q}
      /\ answer' = IF q.late THEN answer ELSE [answer EXCEPT ![q.from] = a]
      /\ faults' \in 0..MaxFaults
  BY DEF Step, startVars
<1>3. q.stmt.kind = "write" => q.stmt.adds \subseteq Items
  BY <1>1 DEF Statements, Begin, Commit, Rollback, Read
<1>4. tx \in Txs \cup {None} /\ db \subseteq Items \cup {Duplicates}
      /\ (tx # None => tx.writes \subseteq Rows) /\ Rows \subseteq Items
  BY DEF Base, TypeOK, Items
<1>5. /\ tx' \in Txs \cup {None} /\ db' \subseteq Items \cup {Duplicates}
      /\ tx' # None => tx'.writes \subseteq Rows
  <2>1. CASE Fruitless(q, a) \/ Looked(q, a)
    BY <1>4, <2>1 DEF Fruitless, Looked, server
  <2>2. CASE Wrote(q, a)
    BY <1>3, <1>4, <2>2 DEF Wrote
  <2>3. CASE Opened(q, a)
    BY <1>1, <1>4, <2>3 DEF Opened, Txs
  <2>4. CASE Continued(q, a)
    <3>1. tx # None /\ q.baton # None
      BY <2>4 DEF Continued, InTx
    <3>2. PICK w \in SUBSET Rows : tx' = [tx EXCEPT !.baton = a.baton, !.writes = w]
      BY <1>1, <1>4, <2>4, <3>1 DEF Continued, Travels
    <3> QED BY <1>1, <1>4, <2>4, <3>1, <3>2 DEF Continued, Txs
  <2>5. CASE Ended(q, a)
    BY <1>4, <2>5 DEF Ended
  <2>6. CASE Committed(q, a)
    BY <1>4, <2>6 DEF Committed, InTx
  <2> QED BY <2>1, <2>2, <2>3, <2>4, <2>5, <2>6 DEF Outcome
<1>6. ASSUME NEW t \in Sessions PROVE Located(t)' /\ Asked(t)'
  <2>1. Stays(t) /\ baton'[t] = baton[t] /\ sent'[t] = sent[t]
    BY <1>2 DEF Stays
  <2>2. Located(t)'
    BY <2>1, LocatedStays DEF Base
  <2>3. CASE q.late \/ q.from # t
    <3>1. answer'[t] = answer[t]
      BY <1>2, <2>3 DEF Base, TypeOK
    <3> QED BY <2>1, <2>2, <3>1, AskedStays DEF Base
  <2>4. CASE ~q.late /\ q.from = t
    <3>1. sent[t] = q /\ answer'[t] = a
      BY <1>1, <1>2, <2>4 DEF Travels, Base, TypeOK
    <3>2. Sql(t)' = Sql(t)
      BY <2>1, SqlStays
    <3>3. sent[t] # None
      BY <1>1, <3>1, StartupAssumption
    <3> QED BY <1>1, <2>1, <2>2, <2>4, <3>1, <3>2, <3>3 DEF Asked, Base, Step, Stays
  <2> QED BY <2>3, <2>4, <2>2
<1>7. ASSUME NEW p \in wire' PROVE Travels(p)'
  <2>1. p \in wire /\ p # q /\ Travels(p) /\ p.from \in Sessions
    BY <1>2 DEF Base, TypeOK, Requests
  <2>2. ~p.late => answer'[p.from] = answer[p.from]
    <3>1. ~p.late /\ ~q.late => p.from # q.from
      BY <1>1, <2>1 DEF Travels
    <3> QED BY <1>2, <3>1 DEF Base, TypeOK
  <2> QED BY <1>2, <2>1, <2>2 DEF Travels
<1>8. TypeOK'
  <2>1. answer' \in [Sessions -> Answers \cup {None}]
    BY <1>1, <1>2 DEF Base, TypeOK
  <2>2. wire' \subseteq Requests
    BY <1>2 DEF Base, TypeOK
  <2> QED BY <1>2, <1>5, <2>1, <2>2 DEF Base, TypeOK, Starting
<1> QED BY <1>2, <1>5, <1>6, <1>7, <1>8 DEF Base

LEMMA ServeBase == ASSUME Base, Serve, UNCHANGED startVars PROVE Base'
<1>1. PICK q, a : Step(q, a) /\ Outcome(q, a)
  BY ServeKinds
<1> QED BY <1>1, StepBase

LEMMA ExpireBase == ASSUME Base, Expire, UNCHANGED startVars PROVE Base'
<1>1. /\ tx' = None
      /\ UNCHANGED <<baton, sent, answer, wire, db, at, todo, attempts, told, issued>>
  BY DEF Expire, startVars
<1>2. faults' \in 0..MaxFaults
  BY HranaAssumption DEF Expire, Fault, Base, TypeOK
<1>3. \A t \in Sessions : Stays(t)
  BY <1>1 DEF Stays
<1>4. \A t \in Sessions : Located(t)' /\ Asked(t)'
  BY <1>1, <1>3, LocatedStays, AskedStays DEF Base
<1>5. \A q \in wire' : Travels(q)'
  BY <1>1 DEF Base, Travels
<1>6. TypeOK'
  BY <1>1, <1>2 DEF Base, TypeOK, Starting
<1> QED BY <1>1, <1>4, <1>5, <1>6 DEF Base

LEMMA CreateAccountBase == ASSUME Base, NEW s \in Sessions, CreateAccount(s) PROVE Base'
<1>1. /\ at[s] = "idle" /\ issued[s] < MaxOps /\ issued' = [issued EXCEPT ![s] = @ + 1]
      /\ told' = [told EXCEPT ![s] = "none"]
      /\ at' = [at EXCEPT ![s] = "begin"] /\ todo' = [todo EXCEPT ![s] = {}]
      /\ UNCHANGED <<baton, sent, answer, wire, db, tx, faults, attempts>>
  BY DEF CreateAccount, Serving, Report, Goto, hranaVars, server
<1>2. issued[s] \in 0..MaxOps /\ MaxOps \in Nat /\ sent[s] = None /\ baton[s] = None
  BY <1>1, StartupAssumption DEF Base, TypeOK, Asked, Located
<1>3. Located(s)' /\ Asked(s)'
  BY <1>1, <1>2 DEF Base, TypeOK, Located, Asked, InTransaction, Starting
<1>4. \A t \in Sessions : t # s => Located(t)' /\ Asked(t)'
  <2>1. \A t \in Sessions : t # s => Stays(t)
    BY <1>1 DEF Stays, Base, TypeOK
  <2> QED BY <1>1, <2>1, LocatedStays, AskedStays DEF Base
<1>5. \A q \in wire' : Travels(q)'
  BY <1>1 DEF Base, Travels
<1>6. TypeOK'
  BY <1>1, <1>2 DEF Base, TypeOK, Starting
<1>7. at' \in [Sessions -> Places] /\ todo' \in [Sessions -> SUBSET Nat]
  BY <1>1 DEF Base, Places
<1> QED BY <1>1, <1>3, <1>4, <1>5, <1>6, <1>7 DEF Base

LEMMA LateType == ASSUME NEW q \in Requests
                  PROVE  /\ Late(q) \in Requests /\ Late(q).late /\ Late(q).from = q.from
                         /\ Late(q).stmt = q.stmt /\ Late(q).baton = q.baton
                         /\ Late(q).close = q.close
BY DEF Late, Requests

LEMMA CrashBase == ASSUME Base, NEW s \in Sessions, Crash(s) PROVE Base'
<1>1. /\ at[s] \notin {"idle", "exited"} /\ faults' \in 0..MaxFaults
      /\ baton' = [baton EXCEPT ![s] = None] /\ sent' = [sent EXCEPT ![s] = None]
      /\ answer' = [answer EXCEPT ![s] = None]
      /\ wire' = {IF q.from = s THEN Late(q) ELSE q : q \in wire}
      /\ at' = [at EXCEPT ![s] = "create"] /\ todo' = [todo EXCEPT ![s] = {}]
      /\ attempts' = [attempts EXCEPT ![s] = 1] /\ told' = [told EXCEPT ![s] = "err"]
      /\ UNCHANGED <<db, tx, issued>>
  BY HranaAssumption DEF Crash, Goto, Fault, server, Base, TypeOK
<1>2. Located(s)' /\ Asked(s)'
  BY <1>1 DEF Base, TypeOK, Located, Asked, InTransaction, Starting
<1>3. ASSUME NEW t \in Sessions, t # s
      PROVE  /\ Stays(t) /\ baton'[t] = baton[t] /\ sent'[t] = sent[t] /\ answer'[t] = answer[t]
             /\ Located(t)' /\ Asked(t)'
  <2>1. Stays(t) /\ baton'[t] = baton[t] /\ sent'[t] = sent[t] /\ answer'[t] = answer[t]
    BY <1>1, <1>3 DEF Stays, Base, TypeOK
  <2> QED BY <2>1, LocatedStays, AskedStays DEF Base
<1>4. ASSUME NEW p \in wire' PROVE Travels(p)' /\ p \in Requests
  <2>1. PICK q \in wire : p = IF q.from = s THEN Late(q) ELSE q
    BY <1>1
  <2>2. q \in Requests /\ Travels(q)
    BY DEF Base, TypeOK
  <2>3. CASE q.from = s
    BY <2>1, <2>2, <2>3, LateType DEF Travels
  <2>4. CASE q.from # s
    <3>1. q.from \in Sessions
      BY <2>2 DEF Requests
    <3> QED BY <1>3, <2>1, <2>2, <2>4, <3>1 DEF Travels
  <2> QED BY <2>3, <2>4
<1>5. TypeOK'
  <2>1. wire' \subseteq Requests
    BY <1>4
  <2>2. 1 \in 1..MaxAttempts
    BY StartupAssumption
  <2> QED BY <1>1, <2>1, <2>2 DEF Base, TypeOK, Starting
<1>6. at' \in [Sessions -> Places] /\ todo' \in [Sessions -> SUBSET Nat]
  BY <1>1 DEF Base, Places
<1> QED BY <1>1, <1>2, <1>3, <1>4, <1>5, <1>6 DEF Base

\* Where a program goes on to, everything that belongs there is in place.
LEMMA MovesLocated ==
  ASSUME Base, NEW s \in Sessions, NEW ok \in BOOLEAN, NEW a, Moves(s, ok, a),
         issued' = issued, baton'[s] # None => at[s] = "insert" \/ (at[s] = "begin" /\ ok)
  PROVE  Located(s)'
<1>1. Located(s) /\ Rest(s) \subseteq todo[s]
  BY DEF Base, Rest
<1>2. /\ \A saw : Missing(saw) \subseteq DOMAIN Columns /\ Unseeded(saw) \subseteq DOMAIN Seeds
      /\ DOMAIN Parts # {}
  BY Indices DEF Missing, Unseeded
<1>3. CASE StartMoves(s, ok, a) /\ told'[s] = told[s]
  BY <1>1, <1>2, <1>3 DEF Located, StartMoves, Hop, HopOn, InTransaction, Starting
<1>4. CASE TxMoves(s, ok)
  BY <1>1, <1>2, <1>4 DEF Located, TxMoves, Hop, HopOn, InTransaction, Starting
<1> QED BY <1>3, <1>4 DEF Moves

\* How a statement ends: with an answer, or without one.
Concludes(s, a, ok) ==
    /\ sent[s] # None /\ ok \in BOOLEAN
    /\ \/ /\ answer[s] # None /\ a = answer[s] /\ (ok <=> ~a.refused /\ Succeeded(sent[s], a))
          /\ baton' = [baton EXCEPT ![s] =
                IF a.refused THEN None ELSE NextBaton(sent[s], a)]
          /\ wire' = wire /\ faults' = faults
       \/ /\ a = None /\ ~ok /\ baton' = [baton EXCEPT ![s] = None]
          /\ faults' = faults + 1 /\ faults' \in 0..MaxFaults
          /\ \/ wire' = wire \ {sent[s]}
             \/ sent[s] \in wire /\ wire' = (wire \ {sent[s]}) \cup {Late(sent[s])}
    /\ sent' = [sent EXCEPT ![s] = None] /\ answer' = [answer EXCEPT ![s] = None]
    /\ db' = db /\ tx' = tx

LEMMA Conclusion == ASSUME Base, NEW s \in Sessions, Answered(s) \/ GivenUp(s)
                    PROVE  /\ \E a, ok : Concludes(s, a, ok) /\ Moves(s, ok, a)
                           /\ Typed' /\ issued' = issued
                           /\ \A t \in Sessions : t # s => Stays(t)
<1>1. CASE Answered(s)
  <2> DEFINE a == answer[s]
             ok == ~a.refused /\ Succeeded(sent[s], a)
  <2>1. answer[s] # None /\ sent[s] # None /\ ok \in BOOLEAN
    BY <1>1 DEF Answered, Receive, Base, Asked
  <2>2. Advance(s, ok, a)
    BY <1>1 DEF Answered
  <2>3. Moves(s, ok, a) /\ Typed' /\ issued' = issued /\ \A t \in Sessions : t # s => Stays(t)
    BY <2>1, <2>2, AdvanceMoves, Typing
  <2>4. NextBaton(sent[s], None) = None
    BY DEF NextBaton
  <2>5. Concludes(s, a, ok)
    BY <1>1, <2>1, <2>4 DEF Concludes, Answered, Receive, Settle, server
  <2> QED BY <2>3, <2>5
<1>2. CASE GivenUp(s)
  <2>1. Advance(s, FALSE, None)
    BY <1>2 DEF GivenUp
  <2>2. Moves(s, FALSE, None) /\ Typed' /\ issued' = issued
        /\ \A t \in Sessions : t # s => Stays(t)
    BY <2>1, AdvanceMoves, Typing
  <2>3. faults' = faults + 1 /\ faults' \in 0..MaxFaults
    BY <1>2, HranaAssumption DEF GivenUp, TimeOut, Fault, Base, TypeOK
  <2>4. NextBaton(sent[s], None) = None
    BY DEF NextBaton
  <2>5. Concludes(s, None, FALSE)
    BY <1>2, <2>3, <2>4 DEF Concludes, GivenUp, TimeOut, Settle, server
  <2> QED BY <2>2, <2>5
<1> QED BY <1>1, <1>2

LEMMA ConcludesBase ==
  ASSUME Base, NEW s \in Sessions, NEW a, NEW ok, Concludes(s, a, ok), Moves(s, ok, a),
         Typed', issued' = issued, \A t \in Sessions : t # s => Stays(t)
  PROVE  Base'
<1>1. /\ sent[s] \in Requests /\ sent[s].from = s /\ ~sent[s].late /\ sent[s].stmt = Sql(s)
      /\ sent[s].baton = baton[s] /\ at[s] \notin {"idle", "exited"}
      /\ sent[s].close = Closes(Sql(s), baton[s])
  BY DEF Concludes, Base, TypeOK, Asked
<1>2. /\ sent' = [sent EXCEPT ![s] = None] /\ answer' = [answer EXCEPT ![s] = None]
      /\ db' = db /\ tx' = tx /\ ok \in BOOLEAN
  BY DEF Concludes
<1>3. baton' = [baton EXCEPT ![s] = baton'[s]] /\ baton'[s] \in Batons \cup {None}
  BY DEF Concludes, NextBaton, Base, TypeOK, Answers
<1>4. baton'[s] # None => at[s] = "insert" \/ (at[s] = "begin" /\ ok)
  <2> SUFFICES ASSUME baton'[s] # None PROVE at[s] = "insert" \/ (at[s] = "begin" /\ ok)
    OBVIOUS
  <2>1. /\ a # None /\ ~a.refused /\ ~sent[s].close /\ baton'[s] = NextBaton(sent[s], a)
        /\ (Succeeded(sent[s], a) => ok) /\ (sent[s].stmt.kind = "begin" => a.ok)
    <3>1. baton \in [Sessions -> Batons \cup {None}]
      BY DEF Base, TypeOK
    <3>2. /\ answer[s] # None /\ a = answer[s] /\ (ok <=> ~a.refused /\ Succeeded(sent[s], a))
          /\ baton'[s] = IF a.refused THEN None ELSE NextBaton(sent[s], a)
      BY <3>1 DEF Concludes
    <3>3. ~a.refused /\ baton'[s] = NextBaton(sent[s], a) /\ NextBaton(sent[s], a) # None
      BY <3>2
    <3>4. ~sent[s].close /\ (sent[s].stmt.kind = "begin" => a.ok)
      BY <3>3 DEF NextBaton
    <3>5. Succeeded(sent[s], a) => ok
      BY <3>2, <3>3
    <3> QED BY <3>2, <3>3, <3>4, <3>5
  <2>2. Sql(s).kind \notin {"commit", "rollback"}
    BY <1>1, <2>1 DEF Closes
  <2>3. Sql(s).kind \in {"read", "write"} => baton[s] # None
    BY <1>1, <2>1 DEF Closes
  <2>4. at[s] \in Places /\ (baton[s] # None => at[s] \in {"insert", "commit", "rollback"})
    BY DEF Base, Located
  <2>5. CASE at[s] = "begin"
    <3>1. Sql(s).kind = "begin"
      BY <2>5 DEF Sql, Begin
    <3>2. a.ok
      BY <1>1, <2>1, <3>1
    <3> QED BY <2>1, <2>5, <3>2 DEF Succeeded
  <2>6. CASE at[s] \in {"commit", "rollback"}
    BY <2>2, <2>6 DEF Sql, Commit, Rollback
  <2>7. CASE at[s] \in {"create", "columns", "alter", "index", "count", "seed"}
    BY <2>3, <2>4, <2>7 DEF Sql, Create, Insert, Read
  <2> QED BY <1>1, <2>4, <2>5, <2>6, <2>7 DEF Places
<1>5. Located(s)' /\ Asked(s)'
  <2>1. Located(s)'
    BY <1>2, <1>4, MovesLocated
  <2> QED BY <1>2, <2>1 DEF Asked, Base, TypeOK
<1>6. ASSUME NEW t \in Sessions, t # s
      PROVE  /\ baton'[t] = baton[t] /\ sent'[t] = sent[t] /\ answer'[t] = answer[t]
             /\ Located(t)' /\ Asked(t)'
  <2>1. baton'[t] = baton[t] /\ sent'[t] = sent[t] /\ answer'[t] = answer[t]
    BY <1>2, <1>3, <1>6 DEF Base, TypeOK
  <2> QED BY <1>6, <2>1, LocatedStays, AskedStays DEF Base
<1>7. Late(sent[s]) \in Requests
  BY <1>1, LateType
<1>8. ASSUME NEW p \in wire' PROVE Travels(p)' /\ p \in Requests
  <2>1. CASE p \in wire /\ (p.late \/ p.from # s)
    <3>1. Travels(p) /\ p \in Requests /\ p.from \in Sessions
      BY <2>1 DEF Base, TypeOK, Requests
    <3> QED BY <1>6, <2>1, <3>1 DEF Travels
  <2>2. CASE p \in wire /\ ~p.late /\ p.from = s
    <3>1. sent[s] = p /\ answer[s] = None
      BY <2>2 DEF Base, Travels
    <3>2. a = None /\ p = Late(sent[s])
      BY <3>1 DEF Concludes
    <3> QED BY <1>1, <2>2, <3>2, LateType
  <2>3. CASE p \notin wire
    <3>1. p = Late(sent[s]) /\ sent[s] \in wire
      BY <2>3 DEF Concludes
    <3>2. Travels(sent[s])
      BY <3>1 DEF Base
    <3> QED BY <1>1, <1>7, <3>1, <3>2, LateType DEF Travels
  <2> QED BY <2>1, <2>2, <2>3
<1>9. TypeOK'
  <2>1. wire' \subseteq Requests /\ faults' \in 0..MaxFaults
    BY <1>8 DEF Concludes, Base, TypeOK
  <2>2. \A t \in Sessions : at'[t] \in {"idle", "exited"} \/ Starting(t)' => baton'[t] = None
    BY <1>5, <1>6 DEF Located, Starting
  <2>3. baton' \in [Sessions -> Batons \cup {None}] /\ sent' \in [Sessions -> Requests \cup {None}]
        /\ answer' \in [Sessions -> Answers \cup {None}]
    BY <1>2, <1>3 DEF Base, TypeOK
  <2> QED BY <1>2, <2>1, <2>2, <2>3 DEF Base, TypeOK, Typed
<1> QED BY <1>2, <1>5, <1>6, <1>8, <1>9 DEF Base, Typed

LEMMA BaseInductive == Base /\ [Next]_vars => Base'
<1> SUFFICES ASSUME Base, [Next]_vars PROVE Base'
  OBVIOUS
<1>1. CASE Server
  BY <1>1, ServeBase, ExpireBase DEF Server
<1>2. ASSUME NEW s \in Sessions, Instance(s) PROVE Base'
  <2>1. CASE Answered(s) \/ GivenUp(s)
    <3>1. PICK a, ok : Concludes(s, a, ok) /\ Moves(s, ok, a)
      BY <2>1, Conclusion
    <3> QED BY <2>1, <3>1, Conclusion, ConcludesBase
  <2> QED BY <1>2, <2>1, AskBase, CreateAccountBase, CrashBase DEF Instance
<1>3. CASE UNCHANGED vars
  <2>1. UNCHANGED <<baton, sent, answer, wire, db, tx, faults, at, todo, attempts, told, issued>>
    BY <1>3 DEF vars, hranaVars, server, startVars
  <2>2. \A t \in Sessions : Located(t)' /\ Asked(t)'
    BY <2>1, LocatedStays, AskedStays DEF Base, Stays
  <2>3. \A q \in wire' : Travels(q)'
    BY <2>1 DEF Base, Travels
  <2> QED BY <2>1, <2>2, <2>3 DEF Base, TypeOK, Starting
<1> QED BY <1>1, <1>2, <1>3 DEF Next

\* TypeOK, and with it that an instance at rest or starting holds no baton: the
\* pool gets back a clean connection however a transaction ended.
THEOREM TypeCorrect == Spec => []TypeOK
<1>1. Base => TypeOK
  BY DEF Base
<1> QED BY <1>1, BaseInit, BaseInductive, PTL DEF Spec

-----------------------------------------------------------------------------
(* The schema is there for a serving instance                              *)

\* What is committed stays.
LEMMA Durable == ASSUME Base, NEW q, NEW a, Outcome(q, a) PROVE db \subseteq db'
BY DEF Outcome, Fruitless, Looked, Wrote, Opened, Continued, Ended, Committed, server

LEMMA PresentStays ==
  ASSUME NEW s, Present(s), Stays(s), db \subseteq db',
         answer'[s] = None \/ answer'[s] = answer[s]
  PROVE  Present(s)'
<1>1. Turn(s)' = Turn(s) /\ Served(s)' = Served(s)
  BY DEF Turn, Stays, Served, InTransaction
<1> QED BY <1>1 DEF Present, Stays

LEMMA StepSchemed == ASSUME Base, Schemed, NEW q, NEW a, Step(q, a), Outcome(q, a)
                     PROVE  Schemed'
<1> SUFFICES ASSUME NEW t \in Sessions PROVE Present(t)'
  BY DEF Schemed
<1>1. Stays(t) /\ Present(t) /\ db \subseteq db'
  BY Durable DEF Step, startVars, Stays, Schemed
<1>2. CASE q.late \/ q.from # t
  <2>1. answer'[t] = answer[t]
    BY <1>2 DEF Step, Base, TypeOK
  <2> QED BY <1>1, <2>1, PresentStays
<1>3. CASE ~q.late /\ q.from = t
  <2>1. sent[t] = q /\ answer'[t] = a /\ q # None
    BY <1>3, StartupAssumption DEF Step, Base, TypeOK, Travels
  <2>2. q.stmt = Sql(t) /\ q.baton = baton[t]
    BY <2>1 DEF Base, Asked
  <2>3. Turn(t)' = Turn(t) /\ Served(t)' = Served(t) /\ at'[t] = at[t] /\ todo'[t] = todo[t]
    BY <1>1 DEF Turn, Stays, Served, InTransaction
  <2>4. ASSUME a.ok, at[t] \in {"create", "columns", "count", "alter"}
        PROVE  /\ at[t] = "create" => Table \in db'
               /\ at[t] \in {"columns", "count"} => a.saw \subseteq db'
               /\ at[t] = "alter" => Columns[Turn(t)] \in db'
    <3>1. q.baton = None
      BY <2>2, <2>4 DEF Base, Located
    <3>2. q.stmt.kind \in {"read", "write"}
      BY <2>2, <2>4 DEF Sql, Create, Read, Insert
    <3>3. Looked(q, a) \/ Wrote(q, a)
      BY <2>4, <3>1, <3>2 DEF Outcome, Fruitless, Opened, Continued, Ended, Committed, InTx
    <3>4. CASE at[t] = "create"
      <4>1. q.stmt.kind = "write" /\ q.stmt.item = Table /\ Table \in q.stmt.adds
        BY <2>2, <3>4 DEF Sql, Create
      <4> QED BY <1>1, <3>3, <3>4, <4>1 DEF Looked, Wrote
    <3>5. CASE at[t] \in {"columns", "count"}
      <4>1. q.stmt.kind = "read"
        BY <2>2, <3>5 DEF Sql, Read
      <4> QED BY <1>1, <3>3, <3>5, <4>1 DEF Looked, Wrote
    <3>6. CASE at[t] = "alter"
      <4>1. /\ q.stmt.kind = "write" /\ q.stmt.fresh /\ q.stmt.item = Columns[Turn(t)]
            /\ Columns[Turn(t)] \in q.stmt.adds
        BY <2>2, <3>6 DEF Sql, Insert
      <4> QED BY <1>1, <3>3, <3>6, <4>1 DEF Looked, Wrote
    <3> QED BY <2>4, <3>4, <3>5, <3>6
  <2> QED BY <1>1, <2>1, <2>3, <2>4 DEF Present
<1> QED BY <1>2, <1>3

LEMMA ConcludesSchemed ==
  ASSUME Base, Schemed, NEW s \in Sessions, NEW a, NEW ok, Concludes(s, a, ok), Moves(s, ok, a),
         \A t \in Sessions : t # s => Stays(t)
  PROVE  Schemed'
<1> SUFFICES ASSUME NEW t \in Sessions PROVE Present(t)'
  BY DEF Schemed
<1>1. db' = db /\ Present(t) /\ answer' = [answer EXCEPT ![s] = None] /\ ok \in BOOLEAN
  BY DEF Concludes, Schemed
<1>2. CASE t # s
  <2>1. answer'[t] = answer[t]
    BY <1>1, <1>2 DEF Base, TypeOK
  <2> QED BY <1>1, <1>2, <2>1, PresentStays
<1>3. CASE t = s
  <2>1. answer'[s] = None
    BY <1>1 DEF Base, TypeOK
  <2>2. ok => answer[s] # None /\ answer[s] = a /\ answer[s].ok
    BY DEF Concludes, Succeeded
  <2>3. \A c \in ToSet(Columns) : \E i \in DOMAIN Columns : c = Columns[i]
    BY Indices
  <2>4. CASE StartMoves(s, ok, a)
    <3>1. CASE at[s] = "columns" /\ ok
      <4>1. HopOn(s, "alter", Missing(a.saw), "index") /\ a.saw \subseteq db /\ Table \in db
        BY <1>1, <1>3, <2>2, <2>4, <3>1 DEF StartMoves, Present, Starting
      <4>2. \A i \in DOMAIN Columns \ Missing(a.saw) : Columns[i] \in db
        BY <4>1 DEF Missing
      <4>3. Missing(a.saw) = {} => ToSet(Columns) \subseteq db
        BY <2>3, <4>2
      <4> QED BY <1>1, <1>3, <2>1, <4>1, <4>2, <4>3
              DEF HopOn, Hop, Present, Served, InTransaction
    <3>2. CASE at[s] = "alter" /\ ok
      <4>1. HopOn(s, "alter", Rest(s), "index") /\ Columns[Turn(s)] \in db /\ Table \in db
        BY <1>1, <1>3, <2>2, <2>4, <3>2 DEF StartMoves, Present, Starting
      <4>2. \A i \in DOMAIN Columns \ Rest(s) : Columns[i] \in db
        BY <1>1, <1>3, <3>2, <4>1 DEF Present, Rest
      <4>3. Rest(s) = {} => ToSet(Columns) \subseteq db
        BY <2>3, <4>2
      <4> QED BY <1>1, <1>3, <2>1, <4>1, <4>2, <4>3
              DEF HopOn, Hop, Present, Served, InTransaction
    <3>3. CASE ~(at[s] = "columns" /\ ok) /\ ~(at[s] = "alter" /\ ok)
      BY <1>1, <1>3, <2>1, <2>2, <2>4, <3>3
         DEF StartMoves, HopOn, Hop, Present, Served, InTransaction, Starting
    <3> QED BY <3>1, <3>2, <3>3
  <2>5. CASE TxMoves(s, ok)
    BY <1>1, <1>3, <2>1, <2>5 DEF TxMoves, HopOn, Hop, Present, Served, InTransaction
  <2> QED BY <2>4, <2>5 DEF Moves
<1> QED BY <1>2, <1>3

LEMMA SchemedInductive == Base /\ Schemed /\ [Next]_vars => Schemed'
<1> SUFFICES ASSUME Base, Schemed, [Next]_vars PROVE Schemed'
  OBVIOUS
<1>1. CASE Server
  <2>1. CASE Serve /\ UNCHANGED startVars
    <3>1. PICK q, a : Step(q, a) /\ Outcome(q, a)
      BY <2>1, ServeKinds
    <3> QED BY <3>1, StepSchemed
  <2>2. CASE Expire /\ UNCHANGED startVars
    BY <2>2, PresentStays DEF Expire, startVars, Schemed, Stays
  <2> QED BY <1>1, <2>1, <2>2 DEF Server
<1>2. ASSUME NEW s \in Sessions, Instance(s) PROVE Schemed'
  <2>1. CASE Answered(s) \/ GivenUp(s)
    <3>1. PICK a, ok : Concludes(s, a, ok) /\ Moves(s, ok, a)
      BY <2>1, Conclusion
    <3> QED BY <2>1, <3>1, Conclusion, ConcludesSchemed
  <2>2. CASE Ask(s)
    BY <2>2, PresentStays DEF Ask, Send, server, startVars, Schemed, Stays
  <2>3. CASE CreateAccount(s)
    <3>1. \A t \in Sessions : t # s => Stays(t)
      BY <2>3 DEF CreateAccount, Report, Goto, Stays, Base, TypeOK
    <3>2. db' = db /\ answer' = answer
      BY <2>3 DEF CreateAccount, hranaVars, server
    <3>3. Present(s)'
      BY <2>3, <3>2 DEF CreateAccount, Serving, Goto, Schemed, Present, Served, InTransaction,
                        Base, TypeOK
    <3> QED BY <3>1, <3>2, <3>3, PresentStays DEF Schemed
  <2>4. CASE Crash(s)
    <3>1. \A t \in Sessions : t # s => Stays(t) /\ answer'[t] = answer[t]
      BY <2>4 DEF Crash, Goto, Stays, Base, TypeOK
    <3>2. db' = db
      BY <2>4 DEF Crash, server
    <3>3. Present(s)'
      BY <2>4 DEF Crash, Goto, Present, Served, InTransaction, Base, TypeOK
    <3> QED BY <3>1, <3>2, <3>3, PresentStays DEF Schemed
  <2> QED BY <1>2, <2>1, <2>2, <2>3, <2>4 DEF Instance
<1>3. CASE UNCHANGED vars
  BY <1>3, PresentStays DEF vars, hranaVars, server, startVars, Schemed, Stays
<1> QED BY <1>1, <1>2, <1>3 DEF Next

LEMMA SchemedInit == Init => Schemed
BY DEF Init, HranaInit, Schemed, Present, Served, InTransaction

\* ServesOnSchema: whatever is lost, late or tried again while instances start
\* together, one that serves has the table and every column under it.
THEOREM SchemaBeforeService == Spec => []ServesOnSchema
<1>1. Base /\ Schemed => ServesOnSchema
  BY DEF Base, Schemed, Present, ServesOnSchema, Served, InTransaction, Starting, Places
<1> QED BY <1>1, BaseInit, BaseInductive, SchemedInit, SchemedInductive, PTL DEF Spec

-----------------------------------------------------------------------------
(* A transaction has written what its program has asked for                *)

LEMMA WrittenAll == ASSUME NEW s PROVE Written(s, {}) = Remote!All(s, issued[s])
BY Indices DEF Written, Row, Remote!All

LEMMA WrittenNone == ASSUME NEW s PROVE Written(s, DOMAIN Parts) = {}
BY DEF Written

LEMMA WrittenStays == ASSUME NEW s, issued'[s] = issued[s]
                      PROVE  \A rest : Written(s, rest)' = Written(s, rest)
BY DEF Written

\* An insert adds the row of the index it is at.
LEMMA WrittenMore == ASSUME Base, NEW s \in Sessions, at[s] = "insert"
                     PROVE  /\ Sql(s).kind = "write"
                            /\ Written(s, todo[s]) \cup Sql(s).adds = Written(s, Rest(s))
<1>1. todo[s] \subseteq DOMAIN Parts /\ todo[s] # {} /\ todo[s] \in SUBSET Nat
  BY DEF Base, Located
<1>2. Turn(s) \in todo[s]
  BY <1>1, MinIn DEF Turn
<1>3. Sql(s) = Insert(Row(s, issued[s], Parts[Turn(s)]))
  BY DEF Sql
<1>4. DOMAIN Parts \ Rest(s) = (DOMAIN Parts \ todo[s]) \cup {Turn(s)}
  BY <1>1, <1>2 DEF Rest
<1> QED BY <1>3, <1>4 DEF Written, Insert

\* A baton in nobody's hands is not that of the open transaction, of a session,
\* of an answer or of a request.
LEMMA UnusedBaton == ASSUME NEW b \in Unused
                     PROVE  /\ tx # None => b # tx.baton
                            /\ \A s \in Sessions : b # baton[s]
                            /\ \A s \in Sessions : answer[s] # None => b # answer[s].baton
                            /\ \A q \in wire : b # q.baton
BY DEF Unused

LEMMA TxBaton == Base /\ tx # None => tx.baton \in Batons /\ tx.baton # None
BY BatonTypes DEF Base, TypeOK, Txs

LEMMA StepAtomic ==
  ASSUME Base, Atomic, ~ServerCloses, NEW q, NEW a, Step(q, a), Outcome(q, a)
  PROVE  Atomic'
<1>1. /\ q \in wire /\ wire' = wire \ {q} /\ q \in Requests /\ Travels(q) /\ Carries(q)
      /\ a \in Answers /\ a # None /\ a.baton \in Unused \cup {None}
      /\ q # None /\ q.from \in Sessions
      /\ answer' = IF q.late THEN answer ELSE [answer EXCEPT ![q.from] = a]
      /\ UNCHANGED <<baton, sent, at, todo, issued>>
  BY StartupAssumption DEF Step, Base, TypeOK, Atomic, startVars, Requests
<1>2. db \subseteq db'
  BY Durable
<1>3. \/ tx' = tx \/ tx' = None
      \/ a.baton # None /\ tx' # None /\ tx'.baton = a.baton /\ (Opened(q, a) \/ Continued(q, a))
  <2>1. CASE Opened(q, a)
    <3>1. tx' = [baton |-> a.baton, owner |-> q.from, writes |-> {}] /\ a.baton \in Batons
      BY <1>1, <2>1, BatonTypes DEF Opened
    <3>2. tx' \in Txs
      BY <1>1, <3>1 DEF Txs
    <3> QED BY <2>1, <3>1, <3>2, StartupAssumption DEF Opened
  <2>2. CASE Continued(q, a)
    <3>1. tx \in Txs /\ a.baton \in Batons
      BY <1>1, <2>2, BatonTypes DEF Continued, InTx, Base, TypeOK
    <3>2. tx'.baton = a.baton
      BY <2>2, <3>1 DEF Continued, Txs
    <3>3. tx' # None
      <4>1. Base'
        BY StepBase
      <4>2. tx' = [tx EXCEPT !.baton = a.baton, !.writes = tx.writes]
            \/ tx' = [tx EXCEPT !.baton = a.baton, !.writes = tx.writes \cup q.stmt.adds]
        BY <2>2 DEF Continued
      <4>3. q.stmt.kind = "write" => q.stmt.adds \subseteq Items
        BY <1>1 DEF Requests, Statements, Begin, Commit, Rollback, Read
      <4>4. tx' \in Txs
        BY <2>2, <3>1, <4>3 DEF Continued, Txs
      <4> QED BY <4>4, StartupAssumption
    <3> QED BY <2>2, <3>2, <3>3 DEF Continued
  <2>3. CASE ~Opened(q, a) /\ ~Continued(q, a)
    BY <2>3 DEF Outcome, Fruitless, Looked, Wrote, Ended, Committed, server
  <2> QED BY <2>1, <2>2, <2>3
<1>4. ASSUME NEW t \in Sessions PROVE Whose(t)'
  <2>1. Whose(t) /\ baton'[t] = baton[t] /\ sent'[t] = sent[t] /\ at'[t] = at[t]
        /\ todo'[t] = todo[t] /\ issued'[t] = issued[t]
    BY <1>1 DEF Atomic
  <2>2. /\ \A rest : Written(t, rest)' = Written(t, rest) /\ Written(t, todo[t])' = Written(t, todo[t])
        /\ Written(t, Rest(t))' = Written(t, Rest(t)) /\ Written(t, {})' = Written(t, {})
    BY <2>1 DEF Written, Rest, Turn
  <2>3. (tx # None => a.baton # tx.baton)
        /\ (a.baton # None => baton[t] # a.baton /\ (answer[t] # None => answer[t].baton # a.baton))
    BY <1>1, UnusedBaton, TxBaton
  <2>4. tx' # None /\ baton[t] = tx'.baton => tx' = tx
    BY <1>3, <2>3
  <2>5. CASE q.late \/ q.from # t
    <3>1. answer'[t] = answer[t]
      BY <1>1, <2>5 DEF Base, TypeOK
    <3>2. tx' # None /\ answer[t] # None /\ answer[t].baton = tx'.baton => tx' = tx
      BY <1>3, <2>3
    <3> QED BY <1>2, <2>1, <2>2, <2>4, <3>1, <3>2 DEF Whose
  <2>6. CASE ~q.late /\ q.from = t
    <3>1. /\ sent[t] = q /\ answer'[t] = a /\ q.stmt = Sql(t) /\ q.baton = baton[t]
          /\ q.close = Closes(Sql(t), baton[t]) /\ Located(t) /\ at[t] \notin {"idle", "exited"}
      BY <1>1, <2>6 DEF Travels, Base, TypeOK, Asked
    <3>2. ASSUME a.ok, ~q.close PROVE a.baton # None
      <4>1. CASE q.baton = None
        <5>1. q.stmt.kind \notin {"read", "write", "commit", "rollback"}
          BY <3>1, <3>2, <4>1 DEF Closes
        <5> QED BY <3>2, <4>1, <5>1
                DEF Outcome, Fruitless, Looked, Wrote, Opened, Continued, Ended, Committed, InTx
      <4>2. CASE q.baton # None
        <5>1. q.stmt.kind \notin {"commit", "rollback"}
          BY <3>1, <3>2 DEF Closes
        <5> QED BY <3>2, <4>2, <5>1
                DEF Outcome, Fruitless, Looked, Wrote, Opened, Continued, Ended, Committed, InTx
      <4> QED BY <4>1, <4>2
    <3>3. ASSUME a.ok, at[t] = "commit" PROVE Written(t, {}) \subseteq db'
      <4>1. q.stmt.kind = "commit"
        BY <3>1, <3>3 DEF Sql, Commit
      <4>2. Committed(q, a)
        BY <3>3, <4>1
           DEF Outcome, Fruitless, Looked, Wrote, Opened, Continued, Ended, Committed
      <4>3. tx # None /\ baton[t] = tx.baton
        BY <3>1, <4>2 DEF Committed, InTx
      <4> QED BY <2>1, <3>3, <4>2, <4>3 DEF Committed, Whose
    <3>4. ASSUME tx' # None, a.baton = tx'.baton
          PROVE  /\ t = tx'.owner
                 /\ at[t] = "begin" => tx'.writes = {}
                 /\ at[t] = "insert" /\ a.ok => tx'.writes = Written(t, Rest(t))
      <4>1. Opened(q, a) \/ Continued(q, a)
        BY <1>3, <2>3, <3>4
      <4>2. CASE Opened(q, a)
        <5>1. q.stmt.kind = "begin" /\ tx'.owner = t /\ tx'.writes = {}
          BY <2>6, <4>2 DEF Opened
        <5>2. at[t] # "insert"
          BY <3>1, <5>1, WrittenMore
        <5> QED BY <5>1, <5>2
      <4>3. CASE Continued(q, a)
        <5>1. tx # None /\ baton[t] = tx.baton /\ baton[t] # None /\ tx \in Txs
          BY <3>1, <4>3 DEF Continued, InTx, Base, TypeOK
        <5>2. tx'.owner = tx.owner /\ t = tx.owner
          BY <2>1, <4>3, <5>1 DEF Continued, Txs, Whose
        <5>3. at[t] # "begin"
          BY <3>1, <5>1 DEF Located
        <5>4. ASSUME at[t] = "insert", a.ok PROVE tx'.writes = Written(t, Rest(t))
          <6>1. tx.writes = Written(t, todo[t])
            BY <2>1, <5>1, <5>4 DEF Whose
          <6>2. q.stmt.kind = "write" /\ tx.writes \cup q.stmt.adds = Written(t, Rest(t))
            BY <3>1, <5>4, <6>1, WrittenMore
          <6>3. tx' = [tx EXCEPT !.baton = a.baton, !.writes = tx.writes \cup q.stmt.adds]
            BY <4>3, <5>4, <6>2 DEF Continued
          <6> QED BY <5>1, <6>2, <6>3 DEF Txs
        <5> QED BY <5>2, <5>3, <5>4
      <4> QED BY <4>1, <4>2, <4>3
    <3> QED BY <2>1, <2>2, <2>4, <3>1, <3>2, <3>3, <3>4 DEF Whose
  <2> QED BY <2>5, <2>6
<1>5. ASSUME NEW p \in wire' PROVE Carries(p)'
  <2>1. p \in wire /\ Carries(p) /\ (a.baton # None => p.baton # a.baton)
    BY <1>1, UnusedBaton DEF Atomic
  <2>2. tx' # None /\ p.baton = tx'.baton => tx' = tx
    BY <1>3, <2>1
  <2> QED BY <1>1, <2>1, <2>2 DEF Carries, Remote!All
<1> QED BY <1>4, <1>5 DEF Atomic

LEMMA WhoseStays ==
  ASSUME NEW t, Whose(t), baton'[t] = baton[t], answer'[t] = answer[t], Stays(t),
         sent'[t] = sent[t] \/ answer[t] = None, tx' = tx \/ tx' = None, db' = db
  PROVE  Whose(t)'
<1>1. /\ Written(t, todo[t])' = Written(t, todo[t]) /\ Written(t, {})' = Written(t, {})
      /\ Written(t, Rest(t))' = Written(t, Rest(t))
  BY DEF Written, Rest, Turn, Stays
<1> QED BY <1>1 DEF Whose, Stays

LEMMA AskAtomic == ASSUME Base, Atomic, NEW s \in Sessions, Ask(s) PROVE Atomic'
<1> DEFINE q == [from |-> s, stmt |-> Sql(s), baton |-> baton[s], late |-> FALSE,
                 close |-> Closes(Sql(s), baton[s])]
<1>1. /\ at[s] \notin {"idle", "exited"} /\ sent[s] = None
      /\ sent' = [sent EXCEPT ![s] = q] /\ wire' = wire \cup {q}
      /\ UNCHANGED <<baton, answer, db, tx, faults, at, todo, attempts, told, issued>>
  BY DEF Ask, Send, server, startVars
<1>2. q.from = s /\ q.stmt = Sql(s) /\ q.baton = baton[s]
  OBVIOUS
<1> HIDE DEF q
<1>3. answer[s] = None /\ Located(s) /\ Whose(s) /\ issued[s] \in Nat /\ at[s] \in Places
  BY <1>1 DEF Base, Asked, Atomic, TypeOK
<1>4. ASSUME NEW t \in Sessions PROVE Whose(t)'
  <2>1. Stays(t) /\ Whose(t) /\ (sent'[t] = sent[t] \/ answer[t] = None)
    BY <1>1, <1>3 DEF Stays, Atomic, Base, TypeOK
  <2> QED BY <1>1, <2>1, WhoseStays
<1>5. ASSUME NEW p \in wire' PROVE Carries(p)'
  <2>1. CASE p \in wire
    BY <1>1, <2>1 DEF Atomic, Carries, Remote!All
  <2>2. CASE p = q
    <3>1. ASSUME tx # None, q.baton = tx.baton, q.stmt.kind = "commit"
          PROVE  \E n \in 1..issued[s] : tx.writes = Remote!All(s, n)
      <4>1. at[s] = "commit"
        BY <1>1, <1>2, <1>3, <3>1 DEF Sql, Create, Insert, Read, Begin, Rollback, Places
      <4>2. tx.writes = Remote!All(s, issued[s]) /\ issued[s] # 0
        BY <1>2, <1>3, <3>1, <4>1, WrittenAll DEF Whose, Located, InTransaction
      <4> QED BY <1>3, <4>2
    <3>2. ASSUME q.baton = None, q.stmt.kind = "write" PROVE q.stmt.adds \cap Rows = {}
      <4>1. at[s] # "insert"
        BY <1>2, <1>3, <3>2 DEF Whose
      <4>2. at[s] \in {"create", "index", "alter", "seed"}
        BY <1>1, <1>2, <1>3, <3>2, <4>1 DEF Sql, Read, Begin, Commit, Rollback, Places
      <4>3. at[s] \in {"alter", "seed"} => Turn(s) \in todo[s]
        BY <1>3, MinIn DEF Turn, Located, Base
      <4>4. at[s] = "alter" => Columns[Turn(s)] \in ToSet(Columns)
        BY <1>3, <4>3, Indices DEF Located
      <4>5. at[s] = "seed" => Seeds[Turn(s)] \in ToSet(Seeds)
        BY <1>3, <4>3, Indices DEF Located
      <4>6. q.stmt.adds \subseteq {Table, Index} \cup ToSet(Columns) \cup ToSet(Seeds)
        BY <1>2, <4>2, <4>4, <4>5 DEF Sql, Create, Insert
      <4> QED BY <4>6, StartupAssumption
    <3>3. tx # None /\ q.baton = tx.baton => s = tx.owner
      BY <1>2, <1>3 DEF Whose
    <3> QED BY <1>1, <1>2, <2>2, <3>1, <3>2, <3>3 DEF Carries, Remote!All
  <2> QED BY <1>1, <2>1, <2>2
<1> QED BY <1>4, <1>5 DEF Atomic

LEMMA LateCarries == ASSUME NEW q \in Requests, Carries(q) PROVE Carries(Late(q))
BY LateType DEF Carries

LEMMA ConcludesAtomic ==
  ASSUME Base, Atomic, NEW s \in Sessions, NEW a, NEW ok, Concludes(s, a, ok), Moves(s, ok, a),
         issued' = issued, \A t \in Sessions : t # s => Stays(t)
  PROVE  Atomic'
<1>1. /\ sent[s] \in Requests /\ sent[s].stmt = Sql(s) /\ sent[s].close = Closes(Sql(s), baton[s])
      /\ sent[s].baton = baton[s] /\ Located(s) /\ Whose(s) /\ at[s] \in Places
  BY DEF Concludes, Base, TypeOK, Asked, Atomic
<1>2. /\ sent' = [sent EXCEPT ![s] = None] /\ answer' = [answer EXCEPT ![s] = None]
      /\ db' = db /\ tx' = tx /\ ok \in BOOLEAN
  BY DEF Concludes
<1>3. /\ baton' = [baton EXCEPT ![s] = baton'[s]] /\ sent'[s] = None /\ answer'[s] = None
      /\ \A t \in Sessions : t # s => /\ baton'[t] = baton[t] /\ sent'[t] = sent[t]
                                      /\ answer'[t] = answer[t]
  BY <1>2 DEF Concludes, Base, TypeOK
<1>4. baton'[s] # None =>
        answer[s] # None /\ ~answer[s].refused /\ ~sent[s].close /\ baton'[s] = answer[s].baton
  BY DEF Concludes, NextBaton, Base, TypeOK
<1>5. ok => /\ answer[s] # None /\ answer[s].ok /\ baton'[s] = NextBaton(sent[s], answer[s])
            /\ sent[s].stmt.kind = "begin" => baton'[s] # None
  BY DEF Concludes, Succeeded, Base, TypeOK
<1>6. ASSUME ok, at[s] = "insert" PROVE baton'[s] # None
  <2>1. ~sent[s].close /\ sent[s].stmt.kind = "write"
    BY <1>1, <1>6, WrittenMore DEF Closes, Whose
  <2>2. answer[s].baton # None
    BY <1>1, <1>5, <1>6, <2>1 DEF Whose
  <2> QED BY <1>1, <1>5, <1>6, <2>1, <2>2 DEF NextBaton
<1>7. ASSUME ok, at[s] = "begin" PROVE baton'[s] # None
  BY <1>1, <1>5, <1>7 DEF Sql, Begin
<1>8. Whose(s)'
  <2>1. /\ at'[s] = "insert" =>
             \/ at[s] = "begin" /\ ok /\ todo'[s] = DOMAIN Parts
             \/ at[s] = "insert" /\ ok /\ todo'[s] = Rest(s)
        /\ at'[s] = "commit" => at[s] = "insert" /\ ok /\ Rest(s) = {}
    BY DEF Moves, StartMoves, TxMoves, Hop, HopOn, Starting
  <2>2. \A rest : Written(s, rest)' = Written(s, rest)
    BY WrittenStays
  <2>3. Written(s, todo[s])' = Written(s, todo'[s]) /\ Written(s, {})' = Written(s, {})
    BY DEF Written
  <2>4. ASSUME tx # None, baton'[s] = tx.baton
        PROVE  /\ s = tx.owner
               /\ at'[s] = "insert" => tx.writes = Written(s, todo'[s])
               /\ at'[s] = "commit" => tx.writes = Written(s, {})
    <3>1. answer[s] # None /\ answer[s].baton = tx.baton
      BY <1>4, <2>4, TxBaton
    <3> QED BY <1>1, <1>5, <2>1, <2>4, <3>1, WrittenNone DEF Whose
  <2> QED BY <1>2, <1>3, <1>6, <1>7, <2>1, <2>3, <2>4 DEF Whose
<1>9. ASSUME NEW t \in Sessions, t # s PROVE Whose(t)'
  BY <1>2, <1>3, <1>9, WhoseStays DEF Atomic
<1>10. ASSUME NEW p \in wire' PROVE Carries(p)'
  <2>1. Carries(p)
    <3>1. CASE p \in wire
      BY <3>1 DEF Atomic
    <3>2. CASE p \notin wire
      <4>1. p = Late(sent[s]) /\ sent[s] \in wire
        BY <3>2 DEF Concludes
      <4> QED BY <1>1, <4>1, LateCarries DEF Atomic
    <3> QED BY <3>1, <3>2
  <2> QED BY <1>2, <2>1 DEF Carries, Remote!All
<1> QED BY <1>8, <1>9, <1>10 DEF Atomic

LEMMA AtomicInductive == ASSUME ~ServerCloses PROVE Base /\ Atomic /\ [Next]_vars => Atomic'
<1> SUFFICES ASSUME Base, Atomic, [Next]_vars PROVE Atomic'
  OBVIOUS
<1>1. CASE Server
  <2>1. CASE Serve /\ UNCHANGED startVars
    <3>1. PICK q, a : Step(q, a) /\ Outcome(q, a)
      BY <2>1, ServeKinds
    <3> QED BY <3>1, StepAtomic
  <2>2. CASE Expire /\ UNCHANGED startVars
    <3>1. tx' = None /\ UNCHANGED <<baton, sent, answer, wire, db, at, todo, attempts, told, issued>>
      BY <2>2 DEF Expire, startVars
    <3>2. \A t \in Sessions : Whose(t)'
      BY <3>1, WhoseStays DEF Atomic, Stays
    <3>3. \A q \in wire' : Carries(q)'
      BY <3>1 DEF Atomic, Carries
    <3> QED BY <3>2, <3>3 DEF Atomic
  <2> QED BY <1>1, <2>1, <2>2 DEF Server
<1>2. ASSUME NEW s \in Sessions, Instance(s) PROVE Atomic'
  <2>1. CASE Answered(s) \/ GivenUp(s)
    <3>1. PICK a, ok : Concludes(s, a, ok) /\ Moves(s, ok, a)
      BY <2>1, Conclusion
    <3> QED BY <2>1, <3>1, Conclusion, ConcludesAtomic
  <2>2. CASE CreateAccount(s)
    <3>1. /\ at[s] = "idle" /\ issued' = [issued EXCEPT ![s] = @ + 1]
          /\ at' = [at EXCEPT ![s] = "begin"]
          /\ UNCHANGED <<baton, sent, answer, wire, db, tx>>
          /\ \A t \in Sessions : t # s => Stays(t)
      BY <2>2 DEF CreateAccount, Serving, Report, Goto, hranaVars, server, Stays, Base, TypeOK
    <3>2. baton[s] = None /\ answer[s] = None /\ at'[s] = "begin"
      BY <3>1 DEF Base, Located, Asked
    <3>3. Whose(s)'
      BY <3>1, <3>2, TxBaton DEF Whose
    <3>4. \A t \in Sessions : t # s => Whose(t)'
      BY <3>1, WhoseStays DEF Atomic
    <3>5. ASSUME NEW q \in wire' PROVE Carries(q)'
      <4>1. q \in wire /\ Carries(q) /\ q.from \in Sessions
        BY <3>1 DEF Atomic, Base, TypeOK, Requests
      <4>2. 1..issued[q.from] \subseteq 1..issued'[q.from]
        BY <3>1, <4>1, StartupAssumption DEF Base, TypeOK
      <4> QED BY <3>1, <4>1, <4>2 DEF Carries, Remote!All
    <3> QED BY <3>3, <3>4, <3>5 DEF Atomic
  <2>3. CASE Crash(s)
    <3>1. /\ at'[s] = "create" /\ baton'[s] = None /\ answer'[s] = None
          /\ wire' = {IF q.from = s THEN Late(q) ELSE q : q \in wire}
          /\ UNCHANGED <<db, tx, issued>>
          /\ \A t \in Sessions : t # s => /\ Stays(t) /\ baton'[t] = baton[t]
                                          /\ sent'[t] = sent[t] /\ answer'[t] = answer[t]
      BY <2>3 DEF Crash, Goto, server, Stays, Base, TypeOK
    <3>2. Whose(s)'
      BY <3>1, TxBaton DEF Whose
    <3>3. \A t \in Sessions : t # s => Whose(t)'
      BY <3>1, WhoseStays DEF Atomic
    <3>4. ASSUME NEW p \in wire' PROVE Carries(p)'
      <4>1. Carries(p)
        BY <3>1, LateCarries DEF Atomic, Base, TypeOK
      <4> QED BY <3>1, <4>1 DEF Carries, Remote!All
    <3> QED BY <3>2, <3>3, <3>4 DEF Atomic
  <2> QED BY <1>2, <2>1, <2>2, <2>3, AskAtomic DEF Instance
<1>3. CASE UNCHANGED vars
  <2>1. UNCHANGED <<baton, sent, answer, wire, db, tx, faults, at, todo, attempts, told, issued>>
    BY <1>3 DEF vars, hranaVars, server, startVars
  <2>2. \A t \in Sessions : Whose(t)'
    BY <2>1, WhoseStays DEF Atomic, Stays
  <2>3. \A q \in wire' : Carries(q)'
    BY <2>1 DEF Atomic, Carries, Remote!All
  <2> QED BY <2>2, <2>3 DEF Atomic
<1> QED BY <1>1, <1>2, <1>3 DEF Next

LEMMA AtomicInit == Init => Atomic
BY DEF Init, HranaInit, Atomic, Whose, Carries

LEMMA RemoteInit == Init => Remote!Init
<1>1. Init => db \cap Rows = {}
  BY StartupAssumption DEF Init, Databases, Schema
<1> QED BY <1>1 DEF Init, Remote!Init

LEMMA AllRows == ASSUME NEW s \in Sessions, NEW n \in 1..MaxOps
                 PROVE  Remote!All(s, n) \subseteq Rows
BY DEF Remote!All, Rows

LEMMA RemoteStep == ASSUME ~ServerCloses
                    PROVE  Base /\ Atomic /\ [Next]_vars => [Remote!Next]_(Remote!vars)
<1> SUFFICES ASSUME Base, Atomic, [Next]_vars PROVE [Remote!Next]_(Remote!vars)
  OBVIOUS
<1>0. issued \in [Sessions -> 0..MaxOps] /\ MaxOps \in Nat /\ told \in [Sessions -> {"none", "ok", "err"}]
  BY StartupAssumption DEF Base, TypeOK
<1>1. CASE Server
  <2>1. told' = told /\ issued' = issued
    BY <1>1 DEF Server, startVars
  <2>2. CASE Serve /\ UNCHANGED startVars
    <3>1. PICK q, a : Step(q, a) /\ Outcome(q, a)
      BY <2>2, ServeKinds
    <3>2. q \in wire /\ Carries(q) /\ q.from \in Sessions
      BY <3>1 DEF Step, Atomic, Base, TypeOK, Requests
    <3>3. CASE Committed(q, a)
      <4>1. PICK n \in 1..issued[q.from] : tx.writes = Remote!All(q.from, n)
        BY <3>2, <3>3 DEF Committed, InTx, Carries
      <4>2. n \in 1..MaxOps
        BY <1>0, <3>2
      <4>3. db' \cap Rows = (db \cap Rows) \cup Remote!All(q.from, n)
        BY <3>2, <3>3, <4>1, <4>2, AllRows DEF Committed
      <4>4. Remote!Take(q.from, n)
        BY <2>1, <4>1, <4>3 DEF Remote!Take
      <4> QED BY <3>2, <4>2, <4>4 DEF Remote!Next
    <3>4. CASE ~Committed(q, a)
      <4>1. db' \cap Rows = db \cap Rows
        BY <3>1, <3>2, <3>4
           DEF Outcome, Fruitless, Looked, Wrote, Opened, Continued, Ended, server, Carries
      <4> QED BY <2>1, <4>1 DEF Remote!vars
    <3> QED BY <3>3, <3>4
  <2>3. CASE Expire
    BY <2>1, <2>3 DEF Expire, Remote!vars
  <2> QED BY <1>1, <2>2, <2>3 DEF Server
<1>2. ASSUME NEW s \in Sessions, Instance(s) PROVE [Remote!Next]_(Remote!vars)
  <2>0. Located(s) /\ at[s] \in Places /\ told[s] \in {"none", "ok", "err"}
    BY <1>0 DEF Base
  <2>1. CASE Answered(s) \/ GivenUp(s)
    <3>1. PICK a, ok : Concludes(s, a, ok) /\ Moves(s, ok, a)
      BY <2>1, Conclusion
    <3>2. /\ db' = db /\ issued' = issued /\ ok \in BOOLEAN
          /\ told' = [told EXCEPT ![s] = told'[s]]
      BY <1>0, <2>1, <3>1, Conclusion DEF Concludes, Stays, Typed
    <3>3. CASE told'[s] = told[s]
      BY <1>0, <3>2, <3>3 DEF Remote!vars
    <3>4. CASE told'[s] = "err" /\ InTransaction(s)
      <4>1. Remote!Failed(s)
        BY <2>0, <3>2, <3>4 DEF Located, Remote!Failed
      <4> QED BY <4>1 DEF Remote!Next
    <3>5. CASE told'[s] = "ok" /\ at[s] = "commit" /\ ok
      <4>1. answer[s] # None /\ answer[s].ok
        BY <3>1, <3>5 DEF Concludes, Succeeded
      <4>2. Remote!All(s, issued[s]) \subseteq db
        BY <3>5, <4>1, WrittenAll DEF Atomic, Whose
      <4>3. issued[s] \in 1..MaxOps /\ told[s] = "none"
        BY <1>0, <2>0, <3>5 DEF Located, InTransaction
      <4>4. Remote!Done(s)
        BY <3>2, <3>5, <4>2, <4>3, AllRows DEF Remote!Done
      <4> QED BY <4>4 DEF Remote!Next
    <3>6. \/ told'[s] = told[s] \/ (told'[s] = "err" /\ InTransaction(s))
          \/ (told'[s] = "ok" /\ at[s] = "commit" /\ ok)
      BY <3>1 DEF Moves, TxMoves, InTransaction
    <3> QED BY <3>3, <3>4, <3>5, <3>6
  <2>2. CASE Ask(s)
    BY <2>2 DEF Ask, Send, server, startVars, Remote!vars
  <2>3. CASE CreateAccount(s)
    <3>1. told[s] # "none"
      BY <2>0, <2>3 DEF CreateAccount, Serving, Located, InTransaction
    <3>2. Remote!Issue(s)
      BY <2>3, <3>1 DEF CreateAccount, Report, hranaVars, server, Remote!Issue
    <3> QED BY <3>2 DEF Remote!Next
  <2>4. CASE Crash(s)
    <3>1. told' = [told EXCEPT ![s] = "err"] /\ db' = db /\ issued' = issued
          /\ at[s] \notin {"idle", "exited"}
      BY <2>4 DEF Crash, server
    <3>2. CASE InTransaction(s)
      <4>1. Remote!Failed(s)
        BY <2>0, <3>1, <3>2 DEF Located, Remote!Failed
      <4> QED BY <4>1 DEF Remote!Next
    <3>3. CASE ~InTransaction(s)
      <4>1. told[s] = "err"
        BY <2>0, <3>1, <3>3 DEF Located, InTransaction, Starting, Places
      <4> QED BY <1>0, <3>1, <4>1 DEF Remote!vars
    <3> QED BY <3>2, <3>3
  <2> QED BY <1>2, <2>1, <2>2, <2>3, <2>4 DEF Instance
<1>3. CASE UNCHANGED vars
  BY <1>3 DEF vars, hranaVars, server, startVars, Remote!vars
<1> QED BY <1>1, <1>2, <1>3 DEF Next

\* RemoteSpec: as long as the server ends no stream by itself, create_account
\* over the network writes both rows or neither, and says "done" only when they
\* are there, whatever is lost, late, tried again or cut short by a crash.
THEOREM RemoteAtomicity == ASSUME ~ServerCloses PROVE Spec => RemoteSpec
<1>1. Base /\ Atomic /\ [Next]_vars => (Base /\ Atomic)'
  BY BaseInductive, AtomicInductive
<1>2. Init => Base /\ Atomic
  BY BaseInit, AtomicInit
<1> QED BY <1>1, <1>2, RemoteInit, RemoteStep, PTL DEF Spec, RemoteSpec, Remote!Spec

-----------------------------------------------------------------------------
(* Without a fault, instances that start together all start, and leave the  *)
(* whole schema and inventory                                              *)

LEMMA Counting ==
  /\ \A A \in SUBSET DOMAIN Columns : Cardinality(A) \in Nat /\ Cardinality(A) <= Len(Columns)
  /\ \A A, B \in SUBSET DOMAIN Columns : A \subseteq B => Cardinality(A) <= Cardinality(B)
  /\ \A A \in SUBSET DOMAIN Columns, i \in DOMAIN Columns :
       i \notin A => Cardinality(A \cup {i}) = Cardinality(A) + 1
  /\ Cardinality(DOMAIN Columns) = Len(Columns)
<1>1. IsFiniteSet(DOMAIN Columns) /\ Cardinality(DOMAIN Columns) = Len(Columns)
  <2>1. \A n \in Nat : IsFiniteSet(1..n) /\ Cardinality(1..n) = n
    BY FS_Interval
  <2> QED BY <2>1, Indices
<1>2. \A A \in SUBSET DOMAIN Columns : IsFiniteSet(A) /\ Cardinality(A) \in Nat
  BY <1>1, FS_Subset, FS_CardinalityType
<1>3. \A A, B \in SUBSET DOMAIN Columns : A \subseteq B => Cardinality(A) <= Cardinality(B)
  BY <1>2, FS_Subset
<1>4. \A A \in SUBSET DOMAIN Columns, i \in DOMAIN Columns :
        i \notin A => Cardinality(A \cup {i}) = Cardinality(A) + 1
  BY <1>2, FS_AddElement
<1> QED BY <1>1, <1>2, <1>3, <1>4

LEMMA Fewer == /\ Added \in SUBSET DOMAIN Columns /\ Sown \in SUBSET DOMAIN Seeds
               /\ Ahead \in 1..2 /\ Cardinality(Added) \in Nat
BY Counting DEF Added, Sown, Ahead

LEMMA Growing == ASSUME db \subseteq db'
                 PROVE  /\ Added \subseteq Added' /\ Sown \subseteq Sown' /\ Ahead <= Ahead'
                        /\ Cardinality(Added) <= Cardinality(Added)' /\ Ahead' \in 1..2
                        /\ Cardinality(Added)' \in Nat /\ Sown' \subseteq DOMAIN Seeds
<1>1. Added \subseteq Added' /\ Sown \subseteq Sown' /\ Sown' \subseteq DOMAIN Seeds
  BY DEF Added, Sown
<1>2. Added \in SUBSET DOMAIN Columns /\ Added' \in SUBSET DOMAIN Columns
  BY DEF Added
<1>3. Ahead <= Ahead' /\ Ahead' \in 1..2
  BY <1>1 DEF Ahead
<1> QED BY <1>1, <1>2, <1>3, Counting

LEMMA SameDb == ASSUME db' = db PROVE Added' = Added /\ Sown' = Sown /\ Ahead' = Ahead
BY DEF Added, Sown, Ahead

\* What a program that stays keeps, while the database grows, apart from its
\* place in the row of those that put in the spots.
LEMMA PacedStays ==
  ASSUME Base, NEW t \in Sessions, Paced(t), Stays(t), answer'[t] = answer[t], db \subseteq db',
         at[t] = "seed" => \/ Leads(t)'
                          \/ /\ todo[t] = DOMAIN Seeds /\ Turn(t) \in Sown'
                             /\ answer[t] # None => ~answer[t].ok
  PROVE  Paced(t)'
<1>1. /\ Turn(t)' = Turn(t) /\ Served(t)' = Served(t) /\ Starting(t)' = Starting(t)
  BY DEF Turn, Stays, Served, InTransaction, Starting
<1>2. /\ Sown # {} => Sown' # {}
      /\ Cardinality(Added) <= Cardinality(Added)' /\ Ahead <= Ahead'
      /\ Ahead \in 1..2 /\ Ahead' \in 1..2
      /\ Cardinality(Added) \in Nat /\ Cardinality(Added)' \in Nat
  BY Growing, Fewer
<1>3. attempts[t] \in Nat
  BY DEF Base, TypeOK
<1>4. /\ Cardinality(DOMAIN Columns \ todo[t]) \in Nat
      /\ Cardinality(DOMAIN Columns \ Missing(answer[t].saw)) \in Nat
  BY Counting
<1>5. at[t] \in {"create", "columns", "index", "count"} =>
        attempts[t] <= Cardinality(Added)' + Ahead'
  BY <1>2, <1>3 DEF Paced
<1>6. at[t] = "alter" => attempts[t] <= Cardinality(DOMAIN Columns \ todo[t]) + Ahead'
  BY <1>2, <1>3, <1>4 DEF Paced
<1>7. answer[t] # None /\ at[t] = "columns" =>
        attempts[t] <= Cardinality(DOMAIN Columns \ Missing(answer[t].saw)) + Ahead'
  BY <1>2, <1>3, <1>4 DEF Paced
<1> QED BY <1>1, <1>2, <1>5, <1>6, <1>7 DEF Paced, Stays, Missing

LEMMA CalmInit == Init => Calm
<1> SUFFICES ASSUME Init PROVE Peaceful
  BY DEF Calm
<1>1. Sown = {} \/ Sown = DOMAIN Seeds
  <2>1. CASE db \in {{}, {Table, Duplicates}}
    BY <2>1, Indices, StartupAssumption DEF Sown
  <2>2. CASE db = Schema \cup ToSet(Seeds)
    BY <2>2, Indices DEF Sown
  <2> QED BY <2>1, <2>2 DEF Init, Databases
<1>2. Sown # {} => Min(DOMAIN Seeds) \in Sown
  BY <1>1, MinIn, Indices
<1>3. \A s \in Sessions : Paced(s)
  BY Fewer DEF Init, HranaInit, Paced, Served, InTransaction
<1>4. \A s \in Sessions : ~Leads(s)
  BY DEF Init, Leads
<1> QED BY <1>1, <1>2, <1>3, <1>4 DEF Peaceful, Init, HranaInit

\* A request that is answered while there has been no fault is one a program
\* waits for, and a program that starts gets a true answer.
LEMMA CalmRequest ==
  ASSUME Base, Peaceful, NEW q, NEW a, Step(q, a)
  PROVE  /\ q \in wire /\ ~q.late /\ q.from \in Sessions /\ sent[q.from] = q
         /\ answer[q.from] = None /\ q.stmt = Sql(q.from) /\ q.baton = baton[q.from]
         /\ answer' = [answer EXCEPT ![q.from] = a] /\ answer'[q.from] = a /\ a # None
         /\ at[q.from] \notin {"idle", "exited"}
         /\ (Starting(q.from) => q.baton = None)
         /\ \A t \in Sessions : Stays(t) /\ (t # q.from => answer'[t] = answer[t])
         /\ wire' \subseteq wire /\ UNCHANGED <<at, todo, attempts>>
<1>1. /\ q \in wire /\ ~q.late /\ q.from \in Sessions /\ sent[q.from] = q /\ answer[q.from] = None
      /\ q # None /\ a # None /\ answer' = [answer EXCEPT ![q.from] = a]
      /\ wire' \subseteq wire /\ UNCHANGED <<baton, sent, at, todo, attempts, told, issued>>
  BY StartupAssumption DEF Step, Peaceful, Base, TypeOK, Travels, Requests, startVars
<1>2. Located(q.from) /\ Asked(q.from)
  BY <1>1 DEF Base
<1>3. Starting(q.from) => baton[q.from] = None
  BY <1>2 DEF Located, Starting
<1>4. answer'[q.from] = a /\ \A t \in Sessions : t # q.from => answer'[t] = answer[t]
  BY <1>1 DEF Base, TypeOK
<1> QED BY <1>1, <1>2, <1>3, <1>4 DEF Asked, Stays

\* Where a program waits for an answer to a statement of its start, the server
\* has done nothing, looked, or written.
LEMMA CalmOutcome ==
  ASSUME Base, Peaceful, NEW q, NEW a, Step(q, a), Outcome(q, a), Starting(q.from)
  PROVE  /\ Fruitless(q, a) \/ Looked(q, a) \/ Wrote(q, a)
         /\ q.stmt.kind \in {"read", "write"} /\ Seen(q) = db /\ q.baton = None
<1>1. q.stmt = Sql(q.from) /\ q.baton = None
  BY CalmRequest
<1>2. q.stmt.kind \in {"read", "write"}
  BY <1>1 DEF Starting, Sql, Create, Insert, Read
<1> QED BY <1>1, <1>2 DEF Outcome, Opened, Continued, Ended, Committed, InTx, Seen

\* Only a program that puts in a spot adds one, and one that is not there yet.
LEMMA CalmSowing ==
  ASSUME Base, Peaceful, NEW q, NEW a, Step(q, a), Outcome(q, a)
  PROVE  \/ Sown' = Sown
         \/ /\ at[q.from] = "seed" /\ a.ok
            /\ Turn(q.from) \in todo[q.from] /\ todo[q.from] \subseteq DOMAIN Seeds
            /\ Turn(q.from) \notin Sown /\ Sown' = Sown \cup {Turn(q.from)}
<1> DEFINE t == q.from
<1>1. t \in Sessions /\ q.stmt = Sql(t) /\ q.baton = baton[t] /\ Travels(q) /\ q \in wire
      /\ at[t] \in Places /\ at[t] \notin {"idle", "exited"} /\ q \in Requests /\ Located(t)
  BY CalmRequest DEF Base, TypeOK
<1>2. ASSUME NEW X, X \cap ToSet(Seeds) = {}, db' = db \cup X PROVE Sown' = Sown
  BY <1>2, Indices DEF Sown
<1>3. CASE db' = db
  BY <1>3 DEF Sown
<1>4. CASE Committed(q, a)
  <2>1. tx.writes \cap ToSet(Seeds) = {}
    BY <1>4, StartupAssumption DEF Committed, InTx, Base
  <2> QED BY <1>2, <1>4, <2>1 DEF Committed
<1>5. CASE Wrote(q, a)
  <2>1. q.stmt.kind = "write" /\ db' = db \cup q.stmt.adds /\ a.ok
        /\ (q.stmt.fresh => q.stmt.item \notin db)
    BY <1>5 DEF Wrote
  <2>2. at[t] \in {"create", "alter", "index", "seed", "insert"}
    BY <1>1, <2>1 DEF Sql, Read, Begin, Commit, Rollback, Places
  <2>3. at[t] \in {"alter", "seed", "insert"} => Turn(t) \in todo[t]
    BY <1>1, MinIn DEF Turn, Located, Base
  <2>4. CASE at[t] \in {"create", "index"}
    <3>1. q.stmt.adds \subseteq {Table, Index} \cup ToSet(Columns)
      BY <1>1, <2>4 DEF Sql, Create
    <3> QED BY <1>2, <2>1, <3>1, StartupAssumption
  <2>5. CASE at[t] = "alter"
    <3>1. q.stmt.adds = {Columns[Turn(t)]} /\ Columns[Turn(t)] \in ToSet(Columns)
      BY <1>1, <2>3, <2>5, Indices DEF Sql, Insert, Located
    <3> QED BY <1>2, <2>1, <3>1, StartupAssumption
  <2>6. CASE at[t] = "insert"
    <3>1. Parts[Turn(t)] \in ToSet(Parts) /\ issued[t] \in 1..MaxOps
      BY <1>1, <2>3, <2>6, Indices, StartupAssumption DEF Located, InTransaction, Base, TypeOK
    <3>2. q.stmt.adds = {Row(t, issued[t], Parts[Turn(t)])}
      BY <1>1, <2>6 DEF Sql, Insert
    <3>4. t \in Sessions
      BY <1>1
    <3> HIDE DEF t
    <3>3. Row(t, issued[t], Parts[Turn(t)]) \in Rows
      BY <3>1, <3>4, RowsHave, Zenon
    <3>5. q.stmt.adds \cap ToSet(Seeds) = {}
      BY <3>2, <3>3, StartupAssumption
    <3> QED BY <1>2, <2>1, <3>5
  <2>7. CASE at[t] = "seed"
    <3>1. q.stmt.adds = {Seeds[Turn(t)]} /\ q.stmt.fresh /\ q.stmt.item = Seeds[Turn(t)]
      BY <1>1, <2>7 DEF Sql, Insert
    <3>2. Turn(t) \in todo[t] /\ todo[t] \subseteq DOMAIN Seeds
      BY <1>1, <2>3, <2>7 DEF Located
    <3>3. Seeds[Turn(t)] \notin db /\ db' = db \cup {Seeds[Turn(t)]}
      BY <2>1, <3>1
    <3>4. Turn(t) \notin Sown /\ Sown' = Sown \cup {Turn(t)}
      BY <3>2, <3>3, Indices DEF Sown
    <3> QED BY <2>1, <2>7, <3>2, <3>4
  <2> QED BY <2>2, <2>4, <2>5, <2>6, <2>7
<1>6. \/ db' = db \/ Committed(q, a) \/ Wrote(q, a)
  BY DEF Outcome, Fruitless, Looked, Opened, Continued, Ended, server
<1> QED BY <1>3, <1>4, <1>5, <1>6

\* Before its answer comes, a program that puts in a spot that is there already
\* is behind another; one that puts in a new one leads.
LEMMA Waiting == ASSUME Base, Peaceful, NEW t \in Sessions, at[t] = "seed", answer[t] = None
                 PROVE  /\ Turn(t) \in todo[t] /\ todo[t] \subseteq DOMAIN Seeds
                        /\ Turn(t) \notin Sown => Leads(t) /\ Sown = DOMAIN Seeds \ todo[t]
                        /\ Turn(t) \in Sown => ~Leads(t) /\ todo[t] = DOMAIN Seeds
<1>1. Turn(t) \in todo[t] /\ todo[t] \subseteq DOMAIN Seeds
  BY MinIn DEF Turn, Base, Located
<1>2. Paced(t)
  BY DEF Peaceful
<1> QED BY <1>1, <1>2 DEF Paced, Leads

\* When one program puts in a spot, any other that is at it is behind.
LEMMA OneLeads ==
  ASSUME Base, Peaceful, NEW t \in Sessions, at[t] = "seed", answer[t] = None, Turn(t) \notin Sown,
         NEW u \in Sessions, u # t, at[u] = "seed"
  PROVE  /\ todo[u] = DOMAIN Seeds /\ Turn(u) \in Sown \cup {Turn(t)}
         /\ answer[u] # None => ~answer[u].ok
<1>1. Leads(t) /\ Sown = DOMAIN Seeds \ todo[t] /\ Paced(u) /\ todo[t] \subseteq DOMAIN Seeds
  BY Waiting DEF Peaceful
<1>2. Turn(u) \in todo[u] /\ todo[u] \subseteq DOMAIN Seeds
  BY MinIn DEF Turn, Base, Located
<1>3. CASE Leads(u)
  <2>1. Sown = {}
    BY <1>1, <1>3 DEF Peaceful
  <2>2. todo[t] = DOMAIN Seeds
    BY <1>1, <2>1
  <2>3. answer[u] = None
    BY <1>2, <1>3, <2>1 DEF Leads, Rest
  <2>4. todo[u] = DOMAIN Seeds
    BY <1>2, <1>3, <2>1, <2>3 DEF Leads
  <2> QED BY <2>2, <2>3, <2>4 DEF Turn
<1>4. CASE ~Leads(u)
  BY <1>1, <1>4 DEF Paced
<1> QED BY <1>3, <1>4

\* A spot that is put in was not there; one that is refused was.
LEMMA CalmSeed ==
  ASSUME Base, Peaceful, NEW q, NEW a, Step(q, a), Outcome(q, a), at[q.from] = "seed"
  PROVE  /\ a.ok => Turn(q.from) \notin Sown /\ Sown' = Sown \cup {Turn(q.from)}
         /\ ~a.ok /\ faults' = 0 => Turn(q.from) \in Sown /\ Sown' = Sown
<1>1. /\ q.from \in Sessions /\ q.stmt = Sql(q.from) /\ answer[q.from] = None
  BY CalmRequest
<1>2. q.stmt.kind = "write" /\ q.stmt.fresh /\ q.stmt.item = Seeds[Turn(q.from)]
      /\ q.stmt.adds = {Seeds[Turn(q.from)]}
  BY <1>1 DEF Sql, Insert
<1>3. /\ Fruitless(q, a) \/ Looked(q, a) \/ Wrote(q, a)
      /\ q.baton = None /\ Seen(q) = db
  BY CalmOutcome DEF Starting
<1>4. Turn(q.from) \in DOMAIN Seeds
  BY <1>1, Waiting
<1>5. CASE a.ok
  <2>1. Wrote(q, a)
    BY <1>2, <1>3, <1>5 DEF Fruitless, Looked
  <2>2. Seeds[Turn(q.from)] \notin db /\ Seeds[Turn(q.from)] \in db'
    BY <1>2, <2>1 DEF Wrote
  <2>3. Turn(q.from) \notin Sown /\ Turn(q.from) \in Sown'
    BY <1>4, <2>2 DEF Sown
  <2> QED BY <1>5, <2>3, CalmSowing
<1>6. CASE ~a.ok /\ faults' = 0
  <2>1. Conflict(q) /\ db' = db
    BY <1>2, <1>3, <1>6 DEF Fruitless, Looked, Wrote, server
  <2>2. Seeds[Turn(q.from)] # Index
    BY <1>4, Indices, StartupAssumption
  <2>3. Seeds[Turn(q.from)] \in db
    BY <1>2, <1>3, <2>1, <2>2 DEF Conflict
  <2> QED BY <1>4, <1>6, <2>1, <2>3, SameDb DEF Sown
<1> QED BY <1>5, <1>6

\* The answer to the program that starts: its own part of Paced.
LEMMA CalmAnswer ==
  ASSUME Base, Peaceful, NEW q, NEW a, Step(q, a), Outcome(q, a), faults' = 0
  PROVE  Paced(q.from)'
<1> DEFINE t == q.from
<1>1. /\ t \in Sessions /\ q.stmt = Sql(t) /\ answer'[t] = a /\ a # None /\ Stays(t) /\ Paced(t)
      /\ answer[t] = None
  BY CalmRequest DEF Peaceful
<1>2. /\ Turn(t)' = Turn(t) /\ Served(t)' = Served(t) /\ Starting(t)' = Starting(t)
      /\ at'[t] = at[t] /\ todo'[t] = todo[t] /\ attempts'[t] = attempts[t]
      /\ Rest(t)' = Rest(t)
  BY <1>1 DEF Turn, Stays, Served, InTransaction, Starting, Rest
<1>3. /\ db \subseteq db' /\ (Sown # {} => Sown' # {})
      /\ Cardinality(Added) <= Cardinality(Added)' /\ Ahead <= Ahead'
      /\ Ahead \in 1..2 /\ Ahead' \in 1..2
      /\ Cardinality(Added) \in Nat /\ Cardinality(Added)' \in Nat
      /\ attempts[t] \in Nat
  BY <1>1, Durable, Growing, Fewer DEF Base, TypeOK
<1>4. ASSUME Starting(t)
      PROVE  /\ ~a.refused
             /\ Fruitless(q, a) \/ Looked(q, a) \/ Wrote(q, a)
             /\ q.baton = None /\ Seen(q) = db
             /\ ~a.ok => q.stmt.kind = "write" /\ Conflict(q) /\ a.why = "unique" /\ db' = db
  <2>1. /\ Fruitless(q, a) \/ Looked(q, a) \/ Wrote(q, a)
        /\ q.baton = None /\ Seen(q) = db /\ q.stmt.kind \in {"read", "write"}
    BY <1>4, CalmOutcome
  <2>2. ~a.refused
    BY <2>1 DEF Step
  <2> QED BY <2>1, <2>2 DEF Fruitless, Looked, Wrote, server
<1>5. ASSUME at[t] \in {"columns", "count"} PROVE a.ok /\ a.saw = db /\ db' = db
  <2>1. q.stmt.kind = "read" /\ Starting(t)
    BY <1>1, <1>5 DEF Sql, Read, Starting
  <2> QED BY <1>4, <2>1 DEF Fruitless, Looked, Wrote, server
<1>6. ASSUME ~a.ok, Starting(t)
      PROVE  /\ at[t] \notin {"create", "columns", "count"}
             /\ at[t] = "alter" => Columns[Turn(t)] \in db'
             /\ at[t] = "seed" => Seeds[Turn(t)] \in db'
             /\ at[t] = "index" => a.why = "unique"
  <2>1. /\ q.stmt.kind = "write" /\ a.why = "unique" /\ db' = db
        /\ (q.stmt.fresh /\ q.stmt.item \in db) \/ q.stmt.item = Index
    BY <1>4, <1>6 DEF Conflict
  <2>2. at[t] \notin {"columns", "count"}
    BY <1>5, <1>6
  <2>3. at[t] # "create"
    <3>1. at[t] = "create" => q.stmt.item = Table /\ ~q.stmt.fresh
      BY <1>1 DEF Sql, Create
    <3> QED BY <2>1, <3>1, Distinct
  <2>4. at[t] \in {"alter", "seed"} => Turn(t) \in todo[t]
    BY <1>1, MinIn DEF Turn, Base, Located
  <2>5. at[t] = "alter" => q.stmt.item = Columns[Turn(t)] /\ Columns[Turn(t)] # Index
    BY <1>1, <2>4, Indices, StartupAssumption DEF Sql, Insert, Base, Located
  <2>6. at[t] = "seed" => q.stmt.item = Seeds[Turn(t)] /\ Seeds[Turn(t)] # Index
    BY <1>1, <2>4, Indices, StartupAssumption DEF Sql, Insert, Base, Located
  <2> QED BY <2>1, <2>2, <2>3, <2>5, <2>6
<1>7. ASSUME at[t] = "columns"
      PROVE  attempts[t] <= Cardinality(DOMAIN Columns \ Missing(a.saw)) + Ahead'
  <2>1. DOMAIN Columns \ Missing(a.saw) = Added /\ Ahead' = Ahead
    BY <1>5, <1>7, SameDb DEF Missing, Added
  <2> QED BY <1>1, <1>7, <2>1 DEF Paced
<1>8. ASSUME at[t] = "count", a.saw \cap ToSet(Seeds) = {} PROVE attempts[t] <= Len(Columns) + 1
  <2>1. Sown = {}
    BY <1>5, <1>8, Indices DEF Sown
  <2>2. Ahead = 1
    BY <2>1 DEF Ahead
  <2>3. Cardinality(Added) <= Len(Columns) /\ Len(Columns) \in Nat
    BY Fewer, Counting, Indices
  <2>4. attempts[t] <= Cardinality(Added) + Ahead
    BY <1>1, <1>8 DEF Paced
  <2> QED BY <1>3, <2>2, <2>3, <2>4
<1>9. ASSUME at[t] = "seed"
      PROVE  Leads(t)' \/ (todo[t] = DOMAIN Seeds /\ Turn(t) \in Sown' /\ ~a.ok)
  <2>1. /\ Turn(t) \in todo[t] /\ todo[t] \subseteq DOMAIN Seeds
        /\ Turn(t) \notin Sown => Leads(t) /\ Sown = DOMAIN Seeds \ todo[t]
        /\ Turn(t) \in Sown => ~Leads(t) /\ todo[t] = DOMAIN Seeds
    BY <1>1, <1>9, Waiting
  <2>2. Starting(t)
    BY <1>9 DEF Starting
  <2>3. CASE a.ok
    <3>1. Sown' = Sown \cup {Turn(t)} /\ Turn(t) \notin Sown
      BY <1>9, <2>3, CalmSeed
    <3>2. DOMAIN Seeds \ Rest(t) = (DOMAIN Seeds \ todo[t]) \cup {Turn(t)}
      BY <2>1 DEF Rest
    <3>3. Sown' = DOMAIN Seeds \ Rest(t)
      BY <2>1, <3>1, <3>2
    <3> QED BY <1>1, <1>2, <1>9, <2>3, <3>3 DEF Leads
  <2>4. CASE ~a.ok
    <3>2. Turn(t) \in Sown /\ Turn(t) \in Sown'
      BY <1>9, <2>4, CalmSeed
    <3> QED BY <2>1, <2>4, <3>2
  <2> QED BY <2>3, <2>4
<1>10. /\ (at[t] # "exited")'
       /\ (Starting(t) /\ answer[t] # None => ~answer[t].refused)'
       /\ (Served(t) => Sown # {} \/ DOMAIN Seeds = {})'
       /\ (at[t] \in {"create", "columns", "index", "count"} =>
             attempts[t] <= Cardinality(Added) + Ahead)'
       /\ (at[t] = "alter" => attempts[t] <= Cardinality(DOMAIN Columns \ todo[t]) + Ahead)'
       /\ (at[t] = "seed" => attempts[t] <= Len(Columns) + 1)'
  <2>1. Cardinality(DOMAIN Columns \ todo[t]) \in Nat
    BY Counting
  <2>2. at[t] = "alter" => attempts[t] <= Cardinality(DOMAIN Columns \ todo[t]) + Ahead'
    BY <1>1, <1>3, <2>1 DEF Paced
  <2>3. at[t] \in {"create", "columns", "index", "count"} =>
          attempts[t] <= Cardinality(Added)' + Ahead'
    BY <1>1, <1>3 DEF Paced
  <2>4. Served(t) => Sown' # {} \/ DOMAIN Seeds = {}
    BY <1>1, <1>3 DEF Paced
  <2>5. at[t] # "exited" /\ (at[t] = "seed" => attempts[t] <= Len(Columns) + 1)
    BY <1>1 DEF Paced
  <2>6. Starting(t) => ~a.refused
    BY <1>4
  <2> QED BY <1>1, <1>2, <2>2, <2>3, <2>4, <2>5, <2>6
<1>11. ASSUME ~a.ok
       PROVE  /\ at[t] \notin {"create", "columns", "count"}
              /\ at[t] = "alter" => Columns[Turn(t)] \in db'
              /\ at[t] = "seed" => Seeds[Turn(t)] \in db'
              /\ at[t] = "index" => a.why = "unique"
  <2>1. CASE Starting(t)
    BY <1>6, <1>11, <2>1
  <2>2. CASE ~Starting(t)
    BY <2>2 DEF Starting
  <2> QED BY <2>1, <2>2
<1> QED BY <1>1, <1>2, <1>7, <1>8, <1>9, <1>10, <1>11 DEF Paced, Missing

LEMMA LeadsStays == ASSUME NEW t, at'[t] = at[t], todo'[t] = todo[t], answer'[t] = answer[t],
                           Sown' = Sown
                    PROVE  Leads(t)' <=> Leads(t)
BY DEF Leads, Rest, Turn

\* An answer makes its program the leader when its spot went in, and leaves the
\* leader alone otherwise.
LEMMA StepLeads ==
  ASSUME Base, Peaceful, NEW q, NEW a, Step(q, a), Outcome(q, a), faults' = 0
  PROVE  \/ Sown' = Sown /\ \A u \in Sessions : Leads(u)' <=> Leads(u)
         \/ /\ Sown \subseteq Sown' /\ Min(DOMAIN Seeds) \in Sown'
            /\ \A u \in Sessions : Leads(u)' => u = q.from
            /\ Leads(q.from)'
<1>1. /\ q.from \in Sessions /\ answer[q.from] = None /\ answer'[q.from] = a /\ a # None
      /\ \A u \in Sessions : Stays(u) /\ (u # q.from => answer'[u] = answer[u])
  BY CalmRequest
<1>2. CASE Sown' = Sown
  <2>1. ASSUME NEW u \in Sessions PROVE Leads(u)' <=> Leads(u)
    <3>1. CASE u # q.from
      BY <1>1, <1>2, <3>1, LeadsStays DEF Stays
    <3>2. CASE u = q.from /\ at[u] # "seed"
      BY <1>1, <3>2 DEF Leads, Stays
    <3>3. CASE u = q.from /\ at[u] = "seed"
      <4>1. ~a.ok /\ Turn(u) \in Sown
        BY <1>2, <3>3, CalmSeed
      <4>2. ~Leads(u)
        BY <1>1, <3>3, <4>1, Waiting
      <4> QED BY <1>1, <3>3, <4>1, <4>2 DEF Leads
    <3> QED BY <3>1, <3>2, <3>3
  <2> QED BY <1>2, <2>1
<1>3. CASE Sown' # Sown
  <2>1. /\ at[q.from] = "seed" /\ a.ok /\ Turn(q.from) \notin Sown
        /\ Turn(q.from) \in todo[q.from] /\ todo[q.from] \subseteq DOMAIN Seeds
        /\ Sown' = Sown \cup {Turn(q.from)}
    BY <1>3, CalmSowing
  <2>2. Sown = DOMAIN Seeds \ todo[q.from]
    BY <1>1, <2>1, Waiting
  <2>3. Min(DOMAIN Seeds) \in Sown'
    <3>1. CASE Sown = {}
      <4>1. todo[q.from] = DOMAIN Seeds
        BY <2>1, <2>2, <3>1
      <4> QED BY <2>1, <4>1 DEF Turn
    <3>2. CASE Sown # {}
      BY <2>1, <3>2 DEF Peaceful
    <3> QED BY <3>1, <3>2
  <2>4. Leads(q.from)'
    <3>1. /\ Rest(q.from)' = todo[q.from] \ {Turn(q.from)} /\ at'[q.from] = "seed"
      BY <1>1, <2>1 DEF Rest, Turn, Stays
    <3>2. Sown' = DOMAIN Seeds \ Rest(q.from)'
      BY <2>1, <2>2, <3>1
    <3> QED BY <1>1, <2>1, <3>1, <3>2 DEF Leads
  <2>5. ASSUME NEW u \in Sessions, u # q.from PROVE ~Leads(u)'
    <3>1. at[u] = "seed" => todo[u] = DOMAIN Seeds /\ (answer[u] # None => ~answer[u].ok)
      BY <1>1, <2>1, <2>5, OneLeads
    <3>2. Sown' # {}
      BY <2>1
    <3> QED BY <1>1, <2>5, <3>1, <3>2 DEF Leads, Stays
  <2> QED BY <2>1, <2>3, <2>4, <2>5
<1> QED BY <1>2, <1>3

LEMMA StepCalm ==
  ASSUME Base, Peaceful, NEW q, NEW a, Step(q, a), Outcome(q, a), faults' = 0
  PROVE  Peaceful'
<1>1. /\ q.from \in Sessions /\ answer[q.from] = None /\ wire' \subseteq wire
      /\ \A u \in Sessions : Stays(u) /\ (u # q.from => answer'[u] = answer[u])
  BY CalmRequest
<1>2. \A p \in wire' : ~p.late
  BY <1>1 DEF Peaceful
<1>3. ASSUME NEW u \in Sessions PROVE Paced(u)'
  <2>1. CASE u = q.from
    BY <2>1, CalmAnswer
  <2>2. CASE u # q.from
    <3>1. Paced(u) /\ Stays(u) /\ answer'[u] = answer[u] /\ db \subseteq db'
      BY <1>1, <2>2, Durable DEF Peaceful
    <3>2. CASE Sown' = Sown
      <4>1. Leads(u)' <=> Leads(u)
        BY <3>1, <3>2, LeadsStays DEF Stays
      <4>2. at[u] = "seed" => \/ Leads(u)'
                             \/ /\ todo[u] = DOMAIN Seeds /\ Turn(u) \in Sown'
                                /\ answer[u] # None => ~answer[u].ok
        BY <3>1, <3>2, <4>1 DEF Paced
      <4> QED BY <3>1, <4>2, PacedStays
    <3>3. CASE Sown' # Sown
      <4>1. /\ at[q.from] = "seed" /\ Turn(q.from) \notin Sown
            /\ Sown' = Sown \cup {Turn(q.from)}
        BY <3>3, CalmSowing
      <4>2. at[u] = "seed" => \/ Leads(u)'
                             \/ /\ todo[u] = DOMAIN Seeds /\ Turn(u) \in Sown'
                                /\ answer[u] # None => ~answer[u].ok
        BY <1>1, <2>2, <4>1, OneLeads
      <4> QED BY <3>1, <4>2, PacedStays
    <3> QED BY <3>2, <3>3
  <2> QED BY <2>1, <2>2
<1>4. /\ Sown' # {} => Min(DOMAIN Seeds) \in Sown'
      /\ Sown' # {} => \A s, t \in Sessions : Leads(s)' /\ Leads(t)' => s = t
      /\ Sown' # {} /\ Sown' # DOMAIN Seeds => \E s \in Sessions : Leads(s)'
  <2>1. CASE Sown' = Sown /\ \A u \in Sessions : Leads(u)' <=> Leads(u)
    BY <2>1 DEF Peaceful
  <2>2. CASE /\ Sown \subseteq Sown' /\ Min(DOMAIN Seeds) \in Sown'
             /\ \A u \in Sessions : Leads(u)' => u = q.from
             /\ Leads(q.from)'
    BY <1>1, <2>2
  <2> QED BY <2>1, <2>2, StepLeads
<1> QED BY <1>2, <1>3, <1>4 DEF Peaceful

\* An answer that a program goes on with, without a fault: it is true.
LEMMA CalmConclusion ==
  ASSUME Base, Peaceful, NEW s \in Sessions, NEW a, NEW ok, Concludes(s, a, ok), faults' = 0
  PROVE  /\ answer[s] # None /\ a = answer[s] /\ answer'[s] = None
         /\ wire' = wire /\ db' = db /\ Sown' = Sown /\ Added' = Added /\ Ahead' = Ahead
         /\ \A u \in Sessions : u # s => answer'[u] = answer[u]
         /\ Starting(s) => (ok <=> a.ok)
         /\ sent[s] # None /\ ok \in BOOLEAN
<1>1. faults \in Nat
  BY DEF Base, TypeOK
<1>2. /\ answer[s] # None /\ a = answer[s] /\ wire' = wire /\ db' = db
      /\ answer' = [answer EXCEPT ![s] = None] /\ ok \in BOOLEAN /\ sent[s] # None
      /\ ok <=> ~a.refused /\ Succeeded(sent[s], a)
  BY <1>1 DEF Concludes
<1>3. answer'[s] = None /\ \A u \in Sessions : u # s => answer'[u] = answer[u]
  BY <1>2 DEF Base, TypeOK
<1>4. ASSUME Starting(s) PROVE ok <=> a.ok
  <2>1. sent[s].stmt.kind # "begin"
    <3>1. Sql(s).kind # "begin"
      BY <1>4 DEF Starting, Sql, Create, Insert, Read
    <3> QED BY <1>2, <3>1 DEF Base, Asked
  <2>2. ~a.refused
    BY <1>2, <1>4 DEF Peaceful, Paced
  <2> QED BY <1>2, <2>1, <2>2, Zenon DEF Succeeded
<1> QED BY <1>2, <1>3, <1>4, SameDb

\* The leader leads on until every spot is there; another leads only from the
\* first spot on.
LEMMA ConcludesLeads ==
  ASSUME Base, Schemed, Peaceful, NEW s \in Sessions, NEW a, NEW ok,
         Concludes(s, a, ok), Moves(s, ok, a), faults' = 0
  PROVE  /\ Leads(s)' /\ Sown # {} => Leads(s)
         /\ Leads(s) /\ Sown # DOMAIN Seeds => Leads(s)'
<1>1. /\ answer[s] # None /\ a = answer[s] /\ answer'[s] = None /\ db' = db /\ Sown' = Sown
      /\ Starting(s) => (ok <=> a.ok)
  BY CalmConclusion
<1>2. Sown \subseteq DOMAIN Seeds
  BY DEF Sown
<1>3. ASSUME Leads(s)', Sown # {} PROVE Leads(s)
  <2>1. at'[s] = "seed" /\ Sown = DOMAIN Seeds \ todo'[s]
    BY <1>1, <1>3 DEF Leads
  <2>2. \/ at[s] = "count" /\ ok /\ todo'[s] = Unseeded(a.saw)
        \/ at[s] = "seed" /\ ok /\ todo'[s] = Rest(s)
    BY <2>1 DEF Moves, StartMoves, TxMoves, HopOn, Hop
  <2>3. CASE at[s] = "count" /\ ok /\ todo'[s] = Unseeded(a.saw)
    <3>1. todo'[s] # {}
      BY <2>3, <2>1 DEF Moves, StartMoves, TxMoves, HopOn, Hop
    <3>2. todo'[s] = DOMAIN Seeds
      BY <2>3, <3>1 DEF Unseeded
    <3> QED BY <1>3, <2>1, <3>2
  <2>4. CASE at[s] = "seed" /\ ok /\ todo'[s] = Rest(s)
    BY <1>1, <2>1, <2>4 DEF Leads, Starting
  <2> QED BY <2>2, <2>3, <2>4
<1>4. ASSUME Leads(s), Sown # DOMAIN Seeds PROVE Leads(s)'
  <2>1. at[s] = "seed" /\ a.ok /\ Sown = DOMAIN Seeds \ Rest(s) /\ ok
    BY <1>1, <1>4 DEF Leads, Starting
  <2>2. Rest(s) # {}
    BY <1>4, <2>1
  <2>3. at'[s] = "seed" /\ todo'[s] = Rest(s)
    BY <2>1, <2>2 DEF Moves, StartMoves, TxMoves, HopOn, Hop, Starting
  <2> QED BY <1>1, <2>1, <2>3 DEF Leads
<1> QED BY <1>3, <1>4

\* A program that goes on without a fault keeps its pace: it starts over only
\* when another has added a column or a spot, which nobody adds twice.
LEMMA ConcludesPaced ==
  ASSUME MaxAttempts > Len(Columns) + 1,
         Base, Schemed, Peaceful, NEW s \in Sessions, NEW a, NEW ok,
         Concludes(s, a, ok), Moves(s, ok, a), faults' = 0
  PROVE  Paced(s)'
<1>1. /\ answer[s] # None /\ a = answer[s] /\ answer'[s] = None /\ db' = db
      /\ Sown' = Sown /\ Added' = Added /\ Ahead' = Ahead
      /\ Starting(s) => (ok <=> a.ok)
      /\ ok \in BOOLEAN /\ Paced(s) /\ Present(s) /\ Located(s) /\ at[s] \in Places
  BY CalmConclusion DEF Peaceful, Schemed, Base
<1>2. /\ attempts[s] \in Nat /\ Ahead \in 1..2 /\ Cardinality(Added) \in Nat
      /\ Cardinality(Added) <= Len(Columns) /\ Len(Columns) \in Nat /\ MaxAttempts \in Nat
      /\ Added \in SUBSET DOMAIN Columns
  BY Fewer, Counting, Indices, StartupAssumption DEF Base, TypeOK
<1>3. at[s] \in {"alter", "seed"} => Turn(s) \in todo[s]
  BY <1>1, MinIn DEF Turn, Base, Located
<1>4. \A A \in SUBSET DOMAIN Columns : A \subseteq Added => Cardinality(A) <= Cardinality(Added)
  BY <1>2, Counting
\* It is enough to look at what the program does next.
<1>5. SUFFICES /\ at'[s] # "exited"
               /\ at'[s] \in {"create", "columns", "index", "count"} =>
                    attempts'[s] <= Cardinality(Added) + Ahead
               /\ at'[s] = "alter" =>
                    attempts'[s] <= Cardinality(DOMAIN Columns \ todo'[s]) + Ahead
               /\ at'[s] = "seed" => attempts'[s] <= Len(Columns) + 1
               /\ Served(s)' => Sown # {} \/ DOMAIN Seeds = {}
               /\ at'[s] = "seed" => \/ Sown = DOMAIN Seeds \ todo'[s]
                                     \/ todo'[s] = DOMAIN Seeds /\ Min(todo'[s]) \in Sown
  BY <1>1 DEF Paced, Leads, Turn
<1>6. CASE StartMoves(s, ok, a) /\ at[s] = "create" /\ ok
  BY <1>1, <1>6 DEF StartMoves, Hop, Paced, Starting, Served, InTransaction
<1>7. CASE StartMoves(s, ok, a) /\ at[s] = "columns" /\ ok
  <2>1. HopOn(s, "alter", Missing(a.saw), "index") /\ attempts'[s] = attempts[s]
    BY <1>7 DEF StartMoves, Starting
  <2>2. attempts[s] <= Cardinality(DOMAIN Columns \ Missing(a.saw)) + Ahead
    BY <1>1, <1>7 DEF Paced
  <2>3. DOMAIN Columns \ Missing(a.saw) \subseteq Added
    <3>1. a.saw \subseteq db
      BY <1>1, <1>7 DEF Present, Starting
    <3> QED BY <3>1 DEF Missing, Added
  <2>4. Cardinality(DOMAIN Columns \ Missing(a.saw)) <= Cardinality(Added)
    BY <1>4, <2>3
  <2>5. Cardinality(DOMAIN Columns \ Missing(a.saw)) \in Nat
    BY Counting
  <2>6. attempts[s] <= Cardinality(Added) + Ahead
    BY <1>2, <2>2, <2>4, <2>5
  <2> QED BY <2>1, <2>2, <2>6 DEF HopOn, Hop, Served, InTransaction
<1>8. CASE StartMoves(s, ok, a) /\ at[s] = "alter" /\ ok
  <2>1. HopOn(s, "alter", Rest(s), "index") /\ attempts'[s] = attempts[s]
    BY <1>8 DEF StartMoves, Starting
  <2>2. attempts[s] <= Cardinality(DOMAIN Columns \ todo[s]) + Ahead
    BY <1>1, <1>8 DEF Paced
  <2>3. DOMAIN Columns \ todo[s] \subseteq Added
    BY <1>1, <1>8 DEF Present, Added
  <2>4. Cardinality(DOMAIN Columns \ todo[s]) <= Cardinality(Added)
    BY <1>4, <2>3
  <2>5. Cardinality(DOMAIN Columns \ todo[s]) <= Cardinality(DOMAIN Columns \ Rest(s))
    <3>1. DOMAIN Columns \ todo[s] \subseteq DOMAIN Columns \ Rest(s)
      BY DEF Rest
    <3> QED BY <3>1, Counting
  <2>6. Cardinality(DOMAIN Columns \ todo[s]) \in Nat /\ Cardinality(DOMAIN Columns \ Rest(s)) \in Nat
    BY Counting
  <2>7. /\ attempts[s] <= Cardinality(Added) + Ahead
        /\ attempts[s] <= Cardinality(DOMAIN Columns \ Rest(s)) + Ahead
    BY <1>2, <2>2, <2>4, <2>5, <2>6
  <2> QED BY <2>1, <2>7 DEF HopOn, Hop, Served, InTransaction
<1>9. CASE StartMoves(s, ok, a) /\ at[s] = "index" /\ (ok \/ (a # None /\ a.why = "unique"))
  <2>1. Hop(s, "count", {}) /\ attempts'[s] = attempts[s]
    BY <1>9 DEF StartMoves, Starting
  <2> QED BY <1>1, <1>9, <2>1 DEF Hop, Paced, Served, InTransaction
<1>10. CASE StartMoves(s, ok, a) /\ at[s] = "count" /\ ok
  <2>1. /\ HopOn(s, "seed", Unseeded(a.saw), "idle") /\ a.saw \subseteq db
        /\ attempts'[s] = IF at'[s] = "idle" THEN 1 ELSE attempts[s]
    BY <1>1, <1>10 DEF StartMoves, Starting, Present
  <2>2. CASE a.saw \cap ToSet(Seeds) = {}
    <3>1. Unseeded(a.saw) = DOMAIN Seeds /\ attempts[s] <= Len(Columns) + 1
      BY <1>1, <1>10, <2>2 DEF Unseeded, Paced
    <3>2. Sown = {} => Sown = DOMAIN Seeds \ DOMAIN Seeds
      OBVIOUS
    <3>3. Sown # {} => Min(DOMAIN Seeds) \in Sown
      BY DEF Peaceful
    <3> QED BY <2>1, <3>1, <3>2, <3>3 DEF HopOn, Hop, Served, InTransaction
  <2>3. CASE a.saw \cap ToSet(Seeds) # {}
    <3>1. Unseeded(a.saw) = {}
      BY <2>3 DEF Unseeded
    <3>2. Sown # {}
      BY <2>1, <2>3, Indices DEF Sown
    <3> QED BY <2>1, <3>1, <3>2 DEF HopOn, Hop
  <2> QED BY <2>2, <2>3
<1>11. CASE StartMoves(s, ok, a) /\ at[s] = "seed" /\ ok
  <2>1. /\ HopOn(s, "seed", Rest(s), "idle")
        /\ attempts'[s] = IF at'[s] = "idle" THEN 1 ELSE attempts[s]
    BY <1>11 DEF StartMoves, Starting
  <2>2. Leads(s) /\ attempts[s] <= Len(Columns) + 1
    BY <1>1, <1>11 DEF Paced, Starting
  <2>3. Sown = DOMAIN Seeds \ Rest(s)
    BY <1>1, <2>2 DEF Leads
  <2> QED BY <2>1, <2>2, <2>3 DEF HopOn, Hop, Served, InTransaction
<1>12. CASE /\ Starting(s) /\ ~ok /\ (at[s] = "index" => a = None \/ a.why # "unique")
            /\ \/ attempts[s] < MaxAttempts /\ Hop(s, "create", {}) /\ attempts'[s] = attempts[s] + 1
               \/ attempts[s] = MaxAttempts /\ Hop(s, "exited", {}) /\ attempts'[s] = attempts[s]
  <2>1. /\ at[s] \in {"alter", "seed"}
        /\ at[s] = "alter" => Columns[Turn(s)] \in db
        /\ at[s] = "seed" => Seeds[Turn(s)] \in db
    BY <1>1, <1>12 DEF Paced, Starting
  <2>2. attempts[s] + 1 <= Cardinality(Added) + Ahead
    <3>1. CASE at[s] = "alter"
      <4>1. /\ todo[s] \subseteq DOMAIN Columns /\ Turn(s) \in todo[s]
            /\ attempts[s] <= Cardinality(DOMAIN Columns \ todo[s]) + Ahead
        BY <1>1, <1>3, <3>1 DEF Located, Paced
      <4>2. (DOMAIN Columns \ todo[s]) \cup {Turn(s)} \subseteq Added
        BY <1>1, <2>1, <3>1, <4>1 DEF Present, Added
      <4>3. Cardinality((DOMAIN Columns \ todo[s]) \cup {Turn(s)})
              = Cardinality(DOMAIN Columns \ todo[s]) + 1
        BY <4>1, Counting
      <4>4. Cardinality((DOMAIN Columns \ todo[s]) \cup {Turn(s)}) <= Cardinality(Added)
        BY <1>2, <1>4, <4>2
      <4>5. Cardinality(DOMAIN Columns \ todo[s]) \in Nat
        BY Counting
      <4> QED BY <1>2, <4>1, <4>3, <4>4, <4>5
    <3>2. CASE at[s] = "seed"
      <4>1. Turn(s) \in DOMAIN Seeds
        BY <1>1, <1>3, <3>2 DEF Located
      <4>2. Ahead = 2
        BY <2>1, <3>2, <4>1 DEF Sown, Ahead
      <4>3. Added = DOMAIN Columns
        BY <1>1, <3>2, Indices DEF Present, Added
      <4>4. Cardinality(Added) = Len(Columns) /\ attempts[s] <= Len(Columns) + 1
        BY <1>1, <3>2, <4>3, Counting DEF Paced
      <4> QED BY <1>2, <4>2, <4>4
    <3> QED BY <2>1, <3>1, <3>2
  <2>3. attempts[s] < MaxAttempts
    BY <1>2, <2>2
  <2>4. at'[s] = "create" /\ attempts'[s] = attempts[s] + 1
    BY <1>2, <1>12, <2>3 DEF Hop
  <2> QED BY <2>2, <2>4 DEF Served, InTransaction
<1>13. CASE TxMoves(s, ok)
  <2>1. InTransaction(s) /\ at'[s] \in {"idle", "insert", "commit", "rollback"}
    BY <1>13 DEF TxMoves, HopOn, Hop, InTransaction
  <2>2. Sown # {} \/ DOMAIN Seeds = {}
    BY <1>1, <2>1 DEF Paced, Served
  <2> QED BY <2>1, <2>2
<1> QED BY <1>6, <1>7, <1>8, <1>9, <1>10, <1>11, <1>12, <1>13 DEF Moves, StartMoves

LEMMA ConcludesCalm ==
  ASSUME MaxAttempts > Len(Columns) + 1,
         Base, Schemed, Peaceful, NEW s \in Sessions, NEW a, NEW ok,
         Concludes(s, a, ok), Moves(s, ok, a), \A t \in Sessions : t # s => Stays(t), faults' = 0
  PROVE  Peaceful'
<1>1. /\ wire' = wire /\ db' = db /\ Sown' = Sown
      /\ \A u \in Sessions : u # s => answer'[u] = answer[u]
  BY CalmConclusion
<1>2. \A u \in Sessions : u # s => (Leads(u)' <=> Leads(u))
  BY <1>1, LeadsStays DEF Stays
<1>3. /\ Leads(s)' /\ Sown # {} => Leads(s)
      /\ Leads(s) /\ Sown # DOMAIN Seeds => Leads(s)'
  BY ConcludesLeads
<1>4. ASSUME NEW u \in Sessions PROVE Paced(u)'
  <2>1. CASE u = s
    BY <2>1, ConcludesPaced
  <2>2. CASE u # s
    <3>1. Paced(u) /\ Stays(u) /\ answer'[u] = answer[u] /\ db \subseteq db'
      BY <1>1, <2>2 DEF Peaceful
    <3>2. at[u] = "seed" => \/ Leads(u)'
                           \/ /\ todo[u] = DOMAIN Seeds /\ Turn(u) \in Sown'
                              /\ answer[u] # None => ~answer[u].ok
      BY <1>1, <1>2, <2>2, <3>1 DEF Paced
    <3> QED BY <3>1, <3>2, PacedStays
  <2> QED BY <2>1, <2>2
<1>5. Sown' # {} => \A u, t \in Sessions : Leads(u)' /\ Leads(t)' => u = t
  BY <1>1, <1>2, <1>3 DEF Peaceful
<1>6. Sown' # {} /\ Sown' # DOMAIN Seeds => \E u \in Sessions : Leads(u)'
  BY <1>1, <1>2, <1>3 DEF Peaceful
<1> QED BY <1>1, <1>4, <1>5, <1>6 DEF Peaceful

\* A step that leaves the database, the answers and the places in the start
\* alone changes nothing of this.
LEMMA StillCalm ==
  ASSUME Base, Peaceful, db' = db, answer' = answer, \A p \in wire' : ~p.late,
         \A t \in Sessions : Stays(t) \/ (Paced(t)' /\ ~Leads(t) /\ ~Leads(t)')
  PROVE  Peaceful'
<1>1. Sown' = Sown
  BY SameDb
<1>2. \A t \in Sessions : Leads(t)' <=> Leads(t)
  BY <1>1, LeadsStays DEF Stays
<1>3. ASSUME NEW t \in Sessions, Stays(t) PROVE Paced(t)'
  <2>1. Paced(t)
    BY DEF Peaceful
  <2>2. at[t] = "seed" => \/ Leads(t)'
                         \/ /\ todo[t] = DOMAIN Seeds /\ Turn(t) \in Sown'
                            /\ answer[t] # None => ~answer[t].ok
    BY <1>1, <1>2, <2>1 DEF Paced
  <2> QED BY <1>3, <2>1, <2>2, PacedStays
<1>4. \A t \in Sessions : Paced(t)'
  BY <1>3
<1> QED BY <1>1, <1>2, <1>4 DEF Peaceful

LEMMA CalmInductive == ASSUME MaxAttempts > Len(Columns) + 1
                       PROVE  Base /\ Schemed /\ Calm /\ [Next]_vars => Calm'
<1> SUFFICES ASSUME Base, Schemed, Calm, [Next]_vars, faults' = 0 PROVE Peaceful'
  BY DEF Calm
<1>0. faults \in Nat
  BY DEF Base, TypeOK
<1>1. CASE Server
  <2>1. CASE Serve /\ UNCHANGED startVars
    <3>1. PICK q, a : Step(q, a) /\ Outcome(q, a)
      BY <2>1, ServeKinds
    <3>2. Peaceful
      BY <3>1 DEF Step, Calm
    <3> QED BY <3>1, <3>2, StepCalm
  <2>2. CASE Expire /\ UNCHANGED startVars
    <3>1. /\ Peaceful /\ db' = db /\ answer' = answer /\ wire' = wire
          /\ UNCHANGED <<at, todo, attempts, told, issued>>
      BY <1>0, <2>2 DEF Expire, Fault, Calm, startVars
    <3> QED BY <3>1, StillCalm DEF Stays, Peaceful
  <2> QED BY <1>1, <2>1, <2>2 DEF Server
<1>2. ASSUME NEW s \in Sessions, Instance(s) PROVE Peaceful'
  <2>1. CASE Answered(s) \/ GivenUp(s)
    <3>1. PICK a, ok : Concludes(s, a, ok) /\ Moves(s, ok, a)
      BY <2>1, Conclusion
    <3>2. \A t \in Sessions : t # s => Stays(t)
      BY <2>1, Conclusion
    <3>3. Peaceful
      BY <1>0, <3>1 DEF Concludes, Calm
    <3> QED BY <3>1, <3>2, <3>3, ConcludesCalm
  <2>2. CASE Ask(s)
    <3>1. /\ Peaceful /\ db' = db /\ answer' = answer
          /\ wire' = wire \cup {[from |-> s, stmt |-> Sql(s), baton |-> baton[s], late |-> FALSE,
                                 close |-> Closes(Sql(s), baton[s])]}
          /\ UNCHANGED <<at, todo, attempts, told, issued>>
      BY <2>2 DEF Ask, Send, server, Calm, startVars
    <3> QED BY <3>1, StillCalm DEF Stays, Peaceful
  <2>3. CASE CreateAccount(s)
    <3>1. /\ Peaceful /\ db' = db /\ answer' = answer /\ wire' = wire
          /\ at[s] = "idle" /\ at'[s] = "begin" /\ sent' = sent /\ answer[s] = None
      BY <2>3 DEF CreateAccount, Serving, Goto, hranaVars, server, Calm, Base, TypeOK, Asked
    <3>2. \A t \in Sessions : t # s => Stays(t)
      BY <2>3 DEF CreateAccount, Report, Goto, Stays, Base, TypeOK
    <3>3. Sown' = Sown /\ ~Leads(s) /\ ~Leads(s)'
      BY <3>1, SameDb DEF Leads
    <3>4. Sown # {} \/ DOMAIN Seeds = {}
      BY <3>1 DEF Peaceful, Paced, Served
    <3>5. Paced(s)'
      BY <3>1, <3>3, <3>4 DEF Paced, Starting
    <3> QED BY <3>1, <3>2, <3>3, <3>5, StillCalm DEF Peaceful
  <2>4. CASE Crash(s)
    BY <1>0, <2>4 DEF Crash, Fault
  <2> QED BY <1>2, <2>1, <2>2, <2>3, <2>4 DEF Instance
<1>3. CASE UNCHANGED vars
  <2>1. UNCHANGED <<wire, answer, db, faults, at, todo, attempts, told, issued>>
    BY <1>3 DEF vars, hranaVars, server, startVars
  <2>2. Peaceful
    BY <2>1 DEF Calm
  <2> QED BY <2>1, <2>2, StillCalm DEF Stays, Peaceful
<1> QED BY <1>1, <1>2, <1>3 DEF Next

LEMMA CalmStart == ASSUME Sessions # {} PROVE Base /\ Schemed /\ Calm => CleanStart
<1> SUFFICES ASSUME Base, Schemed, Peaceful, faults = 0
             PROVE  /\ \A s \in Sessions : at[s] # "exited"
                    /\ (\A s \in Sessions : ~Starting(s)) => Whole
  BY DEF Calm, CleanStart
<1>1. \A s \in Sessions : at[s] # "exited"
  BY DEF Peaceful, Paced
<1>2. ASSUME \A s \in Sessions : ~Starting(s) PROVE Whole
  <2>1. PICK s \in Sessions : TRUE
    OBVIOUS
  <2>2. Served(s) /\ Paced(s) /\ Present(s)
    BY <1>1, <1>2 DEF Base, Places, Starting, Served, InTransaction, Peaceful, Schemed
  <2>3. Table \in db /\ ToSet(Columns) \subseteq db
    BY <2>2 DEF Present, Served, InTransaction
  <2>4. \A t \in Sessions : ~Leads(t)
    BY <1>2 DEF Leads, Starting
  <2>5. Sown # {} \/ DOMAIN Seeds = {}
    BY <2>2 DEF Paced
  <2>6. Sown = DOMAIN Seeds
    BY <2>4, <2>5 DEF Peaceful, Sown
  <2>7. ToSet(Seeds) \subseteq db
    BY <2>6, Indices DEF Sown
  <2> QED BY <2>3, <2>7 DEF Whole
<1> QED BY <1>1, <1>2

\* CleanStart: without a fault no instance gives up, however many start
\* together, if an attempt is left for each column another may have added first
\* and one for the inventory; and when all have started nothing is missing.
THEOREM StartsClean == ASSUME MaxAttempts > Len(Columns) + 1, Sessions # {}
                       PROVE  Spec => []CleanStart
<1>1. Base /\ Schemed /\ Calm /\ [Next]_vars => (Base /\ Schemed /\ Calm)'
  BY BaseInductive, SchemedInductive, CalmInductive
<1>2. Init => Base /\ Schemed /\ Calm
  BY BaseInit, SchemedInit, CalmInit
<1>3. Base /\ Schemed /\ Calm => CleanStart
  BY CalmStart
<1> QED BY <1>1, <1>2, <1>3, PTL DEF Spec
=============================================================================
