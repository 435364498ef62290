-------------------------- MODULE MarketplaceProofs --------------------------
(***************************************************************************)
(* Proofs about Marketplace, for any number of workers, users and spots.   *)
(*                                                                         *)
(* The WHERE clauses carry the ownership and the finality of a deletion,   *)
(* except at a creation, which must be known to hit no row (Fresh).  What  *)
(* a booking was read at is on record as an offer (Noted), because every   *)
(* offer made while the request runs is noted (Watched).                   *)
(***************************************************************************)
EXTENDS Marketplace, FiniteSetTheorems, TLAPS

Fresh == \A w \in Workers : pc[w] = "create" =>
            /\ Row(w) = NoRow
            /\ \A v \in Workers \ {w} : job[v] # NoJob => job[v].spot # job[w].spot

Watched == \A w \in Workers : pc[w] # "free" /\ OnOffer(Row(w)) => Row(w).price \in offered[w]

Noted == \A w \in Workers : /\ pc[w] \in {"write", "book"} => seen[w] \in Rows
                            /\ pc[w] = "book" => seen[w].price \in offered[w]

IInv == TypeOK /\ IsFiniteSet(bookings) /\ DeleteToldOnce /\ Fresh /\ Watched /\ Noted
-----------------------------------------------------------------------------
(* Facts about rows, requests and the two building blocks of an action      *)

LEMMA Markers == /\ NoRow \notin Rows /\ NoJob \notin Jobs
                 /\ \A row \in Rows : row.version # 0 /\ NoRow # row
BY DEF NoRow, Rows, NoJob, Jobs, Ops

LEMMA InitInv == Init => IInv
BY FS_EmptySet, MarketAssumption
DEF Init, IInv, TypeOK, DeleteToldOnce, Fresh, Watched, Noted, Labels, Answers

\* The request a busy worker serves, and the row it is about.
LEMMA Busy ==
  ASSUME TypeOK, NEW w \in Workers, pc[w] # "free"
  PROVE  /\ job[w] \in Jobs /\ job[w] # NoJob
         /\ job[w].spot \in Spots /\ job[w].user \in Users
         /\ job[w].body.price \in Prices \cup {Keep}
         /\ job[w].body.open \in BOOLEAN \cup {Keep}
         /\ Row(w) \in Rows \cup {NoRow}
<1>1. job[w] \in Jobs /\ job[w] # NoJob
  BY DEF TypeOK
<1>2. QED
  BY <1>1 DEF TypeOK, Row, Jobs, Bodies

\* Answering leaves the worker free and everything else as it was.
LEMMA Answered ==
  ASSUME TypeOK, NEW w \in Workers, NEW a \in Answers, Answer(w, a)
  PROVE  /\ pc' \in [Workers -> Labels]
         /\ job' \in [Workers -> Jobs \cup {NoJob}]
         /\ \A v \in Workers : job'[v] = NoJob <=> pc'[v] = "free"
         /\ seen' \in [Workers -> Rows \cup {NoRow}]
         /\ answer' \in [Workers -> Answers]
         /\ pc'[w] = "free" /\ job'[w] = NoJob /\ seen'[w] = NoRow
         /\ \A v \in Workers \ {w} : /\ pc'[v] = pc[v] /\ job'[v] = job[v]
                                     /\ seen'[v] = seen[v]
BY DEF Answer, Goto, TypeOK, Labels

\* Going on to another label serves the same request.
LEMMA Moved ==
  ASSUME TypeOK, NEW w \in Workers, pc[w] # "free",
         NEW l \in Labels \ {"free"}, Goto(w, l), UNCHANGED job
  PROVE  /\ pc' \in [Workers -> Labels]
         /\ \A v \in Workers : job'[v] = NoJob <=> pc'[v] = "free"
         /\ pc'[w] = l
         /\ \A v \in Workers \ {w} : pc'[v] = pc[v]
BY DEF Goto, TypeOK

\* Writing a row: the others stay, and whoever is about this one notes its offer.
LEMMA Written ==
  ASSUME TypeOK, NEW w \in Workers, pc[w] # "free", NEW row \in Rows, Put(w, row)
  PROVE  /\ spots' \in [Spots -> Rows \cup {NoRow}]
         /\ spots'[job[w].spot] = row
         /\ \A s \in Spots \ {job[w].spot} : spots'[s] = spots[s]
         /\ offered' \in [Workers -> SUBSET Prices]
         /\ \A v \in Workers : offered[v] \subseteq offered'[v]
         /\ \A v \in Workers : pc[v] # "free" /\ job[v].spot = job[w].spot /\ OnOffer(row)
                               => row.price \in offered'[v]
<1>1. job[w].spot \in Spots /\ row.price \in Prices
  BY Busy DEF Rows
<1>2. QED
  BY <1>1 DEF Put, TypeOK
-----------------------------------------------------------------------------
(* The three ways a step ends                                              *)

\* An answer and nothing else.
LEMMA AnswerKeeps ==
  ASSUME IInv, NEW w \in Workers, NEW a \in Answers, Answer(w, a),
         UNCHANGED <<tables, told, offered>>
  PROVE  IInv'
<1>1. TypeOK BY DEF IInv
<1>2. UNCHANGED <<spots, bookings, told, offered>> BY DEF tables
<1>3. /\ pc' \in [Workers -> Labels]
      /\ job' \in [Workers -> Jobs \cup {NoJob}]
      /\ \A v \in Workers : job'[v] = NoJob <=> pc'[v] = "free"
      /\ seen' \in [Workers -> Rows \cup {NoRow}]
      /\ answer' \in [Workers -> Answers]
      /\ pc'[w] = "free" /\ job'[w] = NoJob
      /\ \A v \in Workers \ {w} : /\ pc'[v] = pc[v] /\ job'[v] = job[v]
                                  /\ seen'[v] = seen[v]
  BY <1>1, Answered
<1>4. TypeOK' BY <1>1, <1>2, <1>3 DEF TypeOK
<1>5. IsFiniteSet(bookings)' BY <1>2 DEF IInv
<1>6. DeleteToldOnce' BY <1>2 DEF IInv, DeleteToldOnce
<1>7. Fresh' BY <1>2, <1>3 DEF IInv, Fresh, Row
<1>8. Watched' BY <1>2, <1>3 DEF IInv, Watched, Row
<1>9. Noted' BY <1>2, <1>3 DEF IInv, Noted
<1> QED BY <1>4, <1>5, <1>6, <1>7, <1>8, <1>9 DEF IInv

\* The requests of the other workers stay as they are, w's is served or over.
Onward(w) == /\ pc' \in [Workers -> Labels]
             /\ job' \in [Workers -> Jobs \cup {NoJob}]
             /\ \A v \in Workers : job'[v] = NoJob <=> pc'[v] = "free"
             /\ seen' \in [Workers -> Rows \cup {NoRow}]
             /\ answer' \in [Workers -> Answers]
             /\ \/ pc'[w] = "readback" /\ job'[w] = job[w]
                \/ pc'[w] = "free" /\ job'[w] = NoJob
             /\ \A v \in Workers \ {w} : /\ pc'[v] = pc[v] /\ job'[v] = job[v]
                                         /\ seen'[v] = seen[v]

\* A row written, its deletion on record where the row is deleted.
LEMMA PutKeeps ==
  ASSUME IInv, NEW w \in Workers, pc[w] # "free", NEW row \in Rows, Put(w, row),
         UNCHANGED bookings, Onward(w),
         \A v \in Workers \ {w} : pc[v] = "create" => job[v].spot # job[w].spot,
         told' \in [Spots -> Nat],
         told'[job[w].spot] = IF row.deleted THEN 1 ELSE 0,
         \A s \in Spots \ {job[w].spot} : told'[s] = told[s]
  PROVE  IInv'
<1>1. TypeOK BY DEF IInv
<1>2. /\ spots' \in [Spots -> Rows \cup {NoRow}]
      /\ spots'[job[w].spot] = row
      /\ \A s \in Spots \ {job[w].spot} : spots'[s] = spots[s]
      /\ offered' \in [Workers -> SUBSET Prices]
      /\ \A v \in Workers : offered[v] \subseteq offered'[v]
      /\ \A v \in Workers : pc[v] # "free" /\ job[v].spot = job[w].spot /\ OnOffer(row)
                            => row.price \in offered'[v]
  BY <1>1, Written
<1>3. \A v \in Workers : pc[v] # "free" => job[v] # NoJob /\ job[v].spot \in Spots
  BY <1>1, Busy
<1>4. TypeOK' BY <1>1, <1>2 DEF TypeOK, Onward
<1>5. IsFiniteSet(bookings)' BY DEF IInv
<1>6. DeleteToldOnce'
  <2> SUFFICES ASSUME NEW s \in Spots
               PROVE  told'[s] = IF spots'[s] # NoRow /\ spots'[s].deleted THEN 1 ELSE 0
    BY DEF DeleteToldOnce
  <2>1. CASE s = job[w].spot BY <2>1, <1>2, Markers
  <2>2. CASE s # job[w].spot BY <2>2, <1>2 DEF IInv, DeleteToldOnce
  <2> QED BY <2>1, <2>2
<1>7. Fresh'
  <2> SUFFICES ASSUME NEW v \in Workers, pc'[v] = "create"
               PROVE  /\ spots'[job'[v].spot] = NoRow
                      /\ \A u \in Workers \ {v} :
                            job'[u] # NoJob => job'[u].spot # job'[v].spot
    BY DEF Fresh, Row
  <2>1. v # w /\ pc[v] = "create" /\ job'[v] = job[v] BY DEF Onward
  <2>2. spots[job[v].spot] = NoRow /\ job[v].spot # job[w].spot
    BY <2>1 DEF IInv, Fresh, Row
  <2>3. spots'[job'[v].spot] = NoRow BY <1>2, <1>3, <2>1, <2>2
  <2>4. ASSUME NEW u \in Workers \ {v}, job'[u] # NoJob
        PROVE  job'[u].spot # job'[v].spot
    <3>1. job'[u] = job[u] BY <2>4 DEF Onward
    <3> QED BY <3>1, <2>1, <2>4 DEF IInv, Fresh
  <2> QED BY <2>3, <2>4
<1>8. Watched'
  <2> SUFFICES ASSUME NEW v \in Workers, pc'[v] # "free", OnOffer(spots'[job'[v].spot])
               PROVE  spots'[job'[v].spot].price \in offered'[v]
    BY DEF Watched, Row
  <2>1. pc[v] # "free" /\ job'[v] = job[v] BY DEF Onward
  <2>2. CASE job[v].spot = job[w].spot BY <2>1, <2>2, <1>2
  <2>3. CASE job[v].spot # job[w].spot
    <3>1. spots'[job'[v].spot] = spots[job[v].spot] BY <2>1, <2>3, <1>2, <1>3
    <3>2. OnOffer(spots[job[v].spot]) BY <3>1
    <3>3. spots[job[v].spot].price \in offered[v]
      BY <2>1, <3>2 DEF IInv, Watched, Row
    <3> QED BY <3>1, <3>3, <1>2
  <2> QED BY <2>2, <2>3
<1>9. Noted' BY <1>2 DEF IInv, Noted, Onward
<1> QED BY <1>4, <1>5, <1>6, <1>7, <1>8, <1>9 DEF IInv
-----------------------------------------------------------------------------
(* One lemma per action                                                    *)

LEMMA FailKeeps == ASSUME IInv, NEW w \in Workers, Fail(w) PROVE IInv'
BY AnswerKeeps DEF Fail, Answers

LEMMA ReadBackKeeps == ASSUME IInv, NEW w \in Workers, ReadBack(w) PROVE IInv'
<1> DEFINE a == IF Visible(Row(w)) THEN "done"
                ELSE IF job[w].op = "create" THEN "error" ELSE "missing"
<1>1. a \in Answers BY DEF Answers
<1>2. Answer(w, a) /\ UNCHANGED <<tables, told, offered>> BY DEF ReadBack
<1> HIDE DEF a
<1> QED BY <1>1, <1>2, AnswerKeeps

LEMMA AcceptKeeps ==
  ASSUME IInv, NEW w \in Workers, NEW j \in Jobs, Accept(w, j) PROVE IInv'
<1>1. TypeOK BY DEF IInv
<1>2. UNCHANGED <<spots, bookings, seen, told>> BY DEF Accept, tables
<1>3. pc[w] = "free" /\ pc'[w] \in {"create", "read", "delete"}
  BY <1>1 DEF Accept, Goto, FirstStep, TypeOK, Jobs, Ops
<1>4. pc'[w] = "create" <=> j.op = "create"
  BY <1>1 DEF Accept, Goto, FirstStep, TypeOK, Jobs, Ops
<1>5. /\ pc' \in [Workers -> Labels] /\ job' \in [Workers -> Jobs \cup {NoJob}]
      /\ job'[w] = j
      /\ \A v \in Workers \ {w} : pc'[v] = pc[v] /\ job'[v] = job[v]
  BY <1>1, <1>3 DEF Accept, Goto, TypeOK, Labels
<1>6. j # NoJob /\ j.spot \in Spots BY Markers DEF Jobs
<1>7. /\ offered' \in [Workers -> SUBSET Prices]
      /\ OnOffer(spots[j.spot]) => spots[j.spot].price \in offered'[w]
      /\ \A v \in Workers \ {w} : offered'[v] = offered[v]
  BY <1>1, <1>6 DEF Accept, TypeOK, OnOffer, Visible, Rows
<1>8. TypeOK'
  <2>1. answer' \in [Workers -> Answers] BY <1>1 DEF Accept, TypeOK, Answers
  <2>2. \A v \in Workers : job'[v] = NoJob <=> pc'[v] = "free"
    BY <1>1, <1>3, <1>5, <1>6 DEF TypeOK
  <2> QED BY <1>1, <1>2, <1>5, <1>7, <2>1, <2>2 DEF TypeOK
<1>9. IsFiniteSet(bookings)' /\ DeleteToldOnce'
  BY <1>2 DEF IInv, DeleteToldOnce
<1>10. Fresh'
  <2> SUFFICES ASSUME NEW v \in Workers, pc'[v] = "create"
               PROVE  /\ spots[job'[v].spot] = NoRow
                      /\ \A u \in Workers \ {v} :
                            job'[u] # NoJob => job'[u].spot # job'[v].spot
    BY <1>2 DEF Fresh, Row
  <2>1. CASE v = w BY <2>1, <1>4, <1>5 DEF Accept
  <2>2. CASE v # w
    <3>1. pc[v] = "create" /\ job'[v] = job[v] BY <2>2, <1>5
    <3>2. spots[job[v].spot] = NoRow BY <3>1 DEF IInv, Fresh, Row
    <3>3. job[v] # NoJob BY <1>1, <3>1 DEF TypeOK
    <3>4. job[v].spot # j.spot
      <4>1. CASE j.op = "create" BY <4>1, <3>3 DEF Accept
      <4>2. CASE j.op # "create" BY <4>2, <3>2 DEF Accept
      <4> QED BY <4>1, <4>2
    <3>5. ASSUME NEW u \in Workers \ {v}, job'[u] # NoJob
          PROVE  job'[u].spot # job'[v].spot
      <4>1. CASE u = w BY <4>1, <3>1, <3>4, <1>5
      <4>2. CASE u # w BY <4>2, <3>1, <3>5, <1>5 DEF IInv, Fresh
      <4> QED BY <4>1, <4>2
    <3> QED BY <3>1, <3>2, <3>5
  <2> QED BY <2>1, <2>2
<1>11. Watched'
  <2> SUFFICES ASSUME NEW v \in Workers, pc'[v] # "free", OnOffer(spots[job'[v].spot])
               PROVE  spots[job'[v].spot].price \in offered'[v]
    BY <1>2 DEF Watched, Row
  <2>1. CASE v = w BY <2>1, <1>5, <1>7
  <2>2. CASE v # w BY <2>2, <1>5, <1>7 DEF IInv, Watched, Row
  <2> QED BY <2>1, <2>2
<1>12. Noted' BY <1>2, <1>3, <1>5, <1>7 DEF IInv, Noted
<1> QED BY <1>8, <1>9, <1>10, <1>11, <1>12 DEF IInv

LEMMA ReadKeeps == ASSUME IInv, NEW w \in Workers, Read(w) PROVE IInv'
<1>1. TypeOK /\ pc[w] = "read" BY DEF IInv, Read
<1>2. UNCHANGED <<spots, bookings, told, offered>> BY DEF Read, tables
<1>3. ASSUME IF job[w].op = "update" THEN Mine(w, Row(w)) ELSE OnOffer(Row(w)),
             seen' = [seen EXCEPT ![w] = Row(w)],
             Goto(w, IF job[w].op = "update" THEN "write" ELSE "book"),
             UNCHANGED <<job, answer>>
      PROVE  IInv'
  <2>1. Row(w) \in Rows BY <1>1, <1>3, Busy DEF Mine, OnOffer, Visible
  <2>2. /\ pc' \in [Workers -> Labels]
        /\ \A v \in Workers : job'[v] = NoJob <=> pc'[v] = "free"
        /\ pc'[w] = IF job[w].op = "update" THEN "write" ELSE "book"
        /\ \A v \in Workers \ {w} : pc'[v] = pc[v]
    BY <1>1, <1>3 DEF TypeOK, Goto, Labels
  <2>3. /\ seen' \in [Workers -> Rows \cup {NoRow}]
        /\ seen'[w] = Row(w)
        /\ \A v \in Workers \ {w} : seen'[v] = seen[v]
    BY <1>1, <1>3, <2>1 DEF TypeOK
  <2>4. TypeOK' BY <1>1, <1>2, <1>3, <2>2, <2>3 DEF TypeOK
  <2>5. IsFiniteSet(bookings)' /\ DeleteToldOnce'
    BY <1>2 DEF IInv, DeleteToldOnce
  <2>6. Fresh' BY <1>2, <1>3, <2>2 DEF IInv, Fresh, Row
  <2>7. Watched' BY <1>1, <1>2, <1>3, <2>2 DEF IInv, Watched, Row
  <2>8. Noted'
    <3>1. pc'[w] = "book" => Row(w).price \in offered[w]
      BY <1>1, <1>3, <2>2 DEF IInv, Watched
    <3> QED BY <1>2, <2>1, <2>2, <2>3, <3>1 DEF IInv, Noted
  <2> QED BY <2>4, <2>5, <2>6, <2>7, <2>8 DEF IInv
<1>4. ASSUME NEW a \in Answers, Answer(w, a) PROVE IInv'
  BY <1>4, <1>2, AnswerKeeps DEF tables
<1> QED BY <1>3, <1>4 DEF Read, Answers

LEMMA CreateKeeps == ASSUME IInv, NEW w \in Workers, Create(w) PROVE IInv'
<1>1. TypeOK /\ pc[w] = "create" BY DEF IInv, Create
<1>2. UNCHANGED <<bookings, told>> BY DEF Create
<1>3. CASE job[w].body.price = Keep
  BY <1>2, <1>3, AnswerKeeps DEF Create, Answers, tables
<1>4. CASE job[w].body.price # Keep
  <2> DEFINE row == [owner |-> job[w].user, price |-> job[w].body.price,
                     open |-> job[w].body.open # FALSE, deleted |-> FALSE, version |-> 1]
  <2>1. /\ Put(w, row) /\ Goto(w, "readback") /\ MaxWrites > 0
        /\ UNCHANGED <<job, seen, answer>>
    BY <1>4 DEF Create
  <2>2. row \in Rows /\ ~row.deleted
    BY <1>1, <1>4, <2>1, Busy, MarketAssumption DEF Rows
  <2> HIDE DEF row
  <2>3. Onward(w) BY <1>1, <2>1 DEF Onward, Goto, TypeOK, Labels
  <2>4. \A v \in Workers \ {w} : pc[v] = "create" => job[v].spot # job[w].spot
    BY <1>1 DEF IInv, Fresh, TypeOK
  <2>5. told[job[w].spot] = 0
    <3>1. job[w].spot \in Spots /\ spots[job[w].spot] = NoRow
      BY <1>1, Busy DEF IInv, Fresh, Row
    <3> QED BY <3>1 DEF IInv, DeleteToldOnce
  <2> QED BY <1>1, <1>2, <2>1, <2>2, <2>3, <2>4, <2>5, PutKeeps DEF TypeOK
<1> QED BY <1>3, <1>4

\* The two ways in which a row is rewritten.
LEMMA Rewritten ==
  ASSUME NEW r \in Rows, r.version < MaxWrites, NEW p \in Prices, NEW o \in BOOLEAN
  PROVE  /\ [r EXCEPT !.price = p, !.open = o, !.version = @ + 1] \in Rows
         /\ [r EXCEPT !.price = p, !.open = o, !.version = @ + 1].deleted = r.deleted
         /\ [r EXCEPT !.deleted = TRUE, !.open = FALSE, !.version = @ + 1] \in Rows
         /\ [r EXCEPT !.deleted = TRUE, !.open = FALSE, !.version = @ + 1].deleted
<1>1. r.version + 1 \in 1..MaxWrites BY MarketAssumption DEF Rows
<1> QED BY <1>1 DEF Rows

\* A row that matches the WHERE clause is one, and is not deleted; nobody is about
\* to create it.
LEMMA Matched ==
  ASSUME IInv, NEW w \in Workers, pc[w] # "free", Mine(w, Row(w))
  PROVE  /\ Row(w) \in Rows /\ ~Row(w).deleted
         /\ told[job[w].spot] = 0
         /\ \A v \in Workers \ {w} : pc[v] = "create" => job[v].spot # job[w].spot
<1>1. TypeOK BY DEF IInv
<1>2. job[w].spot \in Spots /\ Row(w) \in Rows /\ ~Row(w).deleted
  BY <1>1, Busy DEF Mine, Visible
<1>3. told[job[w].spot] = 0 BY <1>2 DEF IInv, DeleteToldOnce, Row
<1>4. ASSUME NEW v \in Workers \ {w}, pc[v] = "create"
      PROVE  job[v].spot # job[w].spot
  BY <1>2, <1>4, Markers DEF IInv, Fresh, Row
<1> QED BY <1>2, <1>3, <1>4

LEMMA WriteKeeps == ASSUME IInv, NEW w \in Workers, Write(w) PROVE IInv'
<1>1. TypeOK /\ pc[w] = "write" BY DEF IInv, Write
<1>2. UNCHANGED <<bookings, told>> BY DEF Write
<1>3. CASE ~Mine(w, Row(w))
  BY <1>2, <1>3, AnswerKeeps DEF Write, Answers, tables
<1>4. CASE Mine(w, Row(w))
  <2>1. /\ Put(w, Updated(w)) /\ Goto(w, "readback") /\ Row(w).version < MaxWrites
        /\ UNCHANGED <<job, seen, answer>>
    BY <1>4 DEF Write
  <2>2. Row(w) \in Rows /\ ~Row(w).deleted BY <1>1, <1>4, Matched
  <2>3. PICK row : row = Updated(w) OBVIOUS
  <2>4. row \in Rows /\ ~row.deleted
    <3>1. seen[w] \in Rows BY <1>1 DEF IInv, Noted
    <3>2. /\ Merged(job[w].body, seen[w]).price \in Prices
          /\ Merged(job[w].body, seen[w]).open \in BOOLEAN
      BY <1>1, <3>1, Busy DEF Merged, Rows
    <3>3. PICK m : m = Merged(job[w].body, seen[w]) OBVIOUS
    <3>4. row = [Row(w) EXCEPT !.price = m.price, !.open = m.open, !.version = @ + 1]
      BY <2>3, <3>3 DEF Updated
    <3>5. PICK r \in Rows : r = Row(w) BY <2>2
    <3>6. PICK p \in Prices, o \in BOOLEAN : p = m.price /\ o = m.open
      BY <3>2, <3>3
    <3>7. row = [r EXCEPT !.price = p, !.open = o, !.version = @ + 1]
      BY <3>4, <3>5, <3>6
    <3>8. row \in Rows /\ row.deleted = r.deleted
      <4>1. r.version < MaxWrites BY <2>1, <3>5
      <4> QED BY <4>1, <3>7, Rewritten
    <3> QED BY <2>2, <3>5, <3>8
  <2>5. Onward(w) BY <1>1, <2>1 DEF Onward, Goto, TypeOK, Labels
  <2>6. /\ told[job[w].spot] = 0
        /\ \A v \in Workers \ {w} : pc[v] = "create" => job[v].spot # job[w].spot
    BY <1>1, <1>4, Matched
  <2> QED BY <1>1, <1>2, <2>1, <2>3, <2>4, <2>5, <2>6, PutKeeps DEF TypeOK
<1> QED BY <1>3, <1>4

LEMMA DeleteKeeps == ASSUME IInv, NEW w \in Workers, Delete(w) PROVE IInv'
<1>1. TypeOK /\ pc[w] = "delete" BY DEF IInv, Delete
<1>2. UNCHANGED bookings BY DEF Delete
<1>3. CASE ~Mine(w, Row(w))
  BY <1>2, <1>3, AnswerKeeps DEF Delete, Answers, tables
<1>4. CASE Mine(w, Row(w))
  <2> DEFINE row == [Row(w) EXCEPT !.deleted = TRUE, !.open = FALSE, !.version = @ + 1]
  <2>1. /\ Put(w, row) /\ Answer(w, "done") /\ Row(w).version < MaxWrites
        /\ told' = [told EXCEPT ![job[w].spot] = @ + 1]
    BY <1>4 DEF Delete
  <2>2. /\ Row(w) \in Rows /\ told[job[w].spot] = 0
        /\ \A v \in Workers \ {w} : pc[v] = "create" => job[v].spot # job[w].spot
    BY <1>1, <1>4, Matched
  <2>3. row \in Rows /\ row.deleted
    <3>1. PICK r \in Rows : r = Row(w) BY <2>2
    <3>2. r.price \in Prices BY DEF Rows
    <3>3. row = [r EXCEPT !.deleted = TRUE, !.open = FALSE, !.version = @ + 1] BY <3>1
    <3> QED BY <2>1, <3>1, <3>2, <3>3, Rewritten
  <2> HIDE DEF row
  <2>4. Onward(w)
    <3>1. "done" \in Answers BY DEF Answers
    <3> QED BY <1>1, <2>1, <3>1, Answered DEF Onward
  <2>5. /\ told' \in [Spots -> Nat] /\ told'[job[w].spot] = 1
        /\ \A s \in Spots \ {job[w].spot} : told'[s] = told[s]
    BY <1>1, <2>1, <2>2, Busy DEF TypeOK
  <2> QED BY <1>1, <1>2, <2>1, <2>2, <2>3, <2>4, <2>5, PutKeeps
<1> QED BY <1>3, <1>4

LEMMA BookKeeps == ASSUME IInv, NEW w \in Workers, Book(w) PROVE IInv'
<1>1. TypeOK /\ pc[w] = "book" BY DEF IInv, Book
<1>2. UNCHANGED <<spots, told, offered>> /\ Answer(w, "done") BY DEF Book
<1>3. /\ bookings' \subseteq [id : 1..MaxBookings, spot : Spots, user : Users, price : Prices]
      /\ IsFiniteSet(bookings')
  <2> DEFINE b == [id |-> Cardinality(bookings) + 1, spot |-> job[w].spot,
                   user |-> job[w].user, price |-> seen[w].price]
  <2>1. bookings' = bookings \cup {b} /\ Cardinality(bookings) < MaxBookings
    BY DEF Book
  <2>2. IsFiniteSet(bookings) /\ Cardinality(bookings) \in Nat
    BY FS_CardinalityType DEF IInv
  <2>3. seen[w].price \in Prices BY <1>1 DEF IInv, Noted, Rows
  <2>4. b \in [id : 1..MaxBookings, spot : Spots, user : Users, price : Prices]
    BY <1>1, <2>1, <2>2, <2>3, Busy, MarketAssumption
  <2> HIDE DEF b
  <2>5. IsFiniteSet(bookings') BY <2>1, <2>2, FS_AddElement
  <2> QED BY <1>1, <2>1, <2>4, <2>5 DEF TypeOK
<1>4. /\ pc' \in [Workers -> Labels]
      /\ job' \in [Workers -> Jobs \cup {NoJob}]
      /\ \A v \in Workers : job'[v] = NoJob <=> pc'[v] = "free"
      /\ seen' \in [Workers -> Rows \cup {NoRow}]
      /\ answer' \in [Workers -> Answers]
      /\ pc'[w] = "free" /\ job'[w] = NoJob
      /\ \A v \in Workers \ {w} : /\ pc'[v] = pc[v] /\ job'[v] = job[v]
                                  /\ seen'[v] = seen[v]
  <2>1. "done" \in Answers BY DEF Answers
  <2> QED BY <1>1, <1>2, <2>1, Answered
<1>5. TypeOK' BY <1>1, <1>2, <1>3, <1>4 DEF TypeOK
<1>6. DeleteToldOnce' BY <1>2 DEF IInv, DeleteToldOnce
<1>7. Fresh' BY <1>2, <1>4 DEF IInv, Fresh, Row
<1>8. Watched' BY <1>2, <1>4 DEF IInv, Watched, Row
<1>9. Noted' BY <1>2, <1>4 DEF IInv, Noted
<1> QED BY <1>3, <1>5, <1>6, <1>7, <1>8, <1>9 DEF IInv

LEMMA Inductive == Spec => []IInv
<1>1. IInv /\ [Next]_vars => IInv'
  <2>1. ASSUME IInv, Next PROVE IInv'
    <3>1. PICK w \in Workers : Step(w) \/ \E j \in Jobs : Accept(w, j)
      BY <2>1 DEF Next
    <3> QED BY <2>1, <3>1, CreateKeeps, ReadKeeps, WriteKeeps, ReadBackKeeps,
               DeleteKeeps, BookKeeps, FailKeeps, AcceptKeeps DEF Step
  <2>2. ASSUME IInv, UNCHANGED vars PROVE IInv'
    BY <2>2 DEF vars, tables, IInv, TypeOK, DeleteToldOnce, Fresh, Watched, Noted, Row
  <2> QED BY <2>1, <2>2
<1> QED BY InitInv, <1>1, PTL DEF Spec
-----------------------------------------------------------------------------
(* What the handlers promise                                               *)

\* Every row, request and booking keeps its shape: no row is ever stored without
\* a price, and no booking without one.
THEOREM TypeCorrect == Spec => []TypeOK
<1>1. IInv => TypeOK BY DEF IInv
<1> QED BY Inductive, <1>1, PTL

\* However many owners' requests delete a spot, one of them is told so.
THEOREM DeletionToldOnce == Spec => []DeleteToldOnce
<1>1. IInv => DeleteToldOnce BY DEF IInv
<1> QED BY Inductive, <1>1, PTL

\* A statement that writes the table is one of these three, and each changes the
\* row of its request and no other.
LEMMA Writes ==
  ASSUME IInv, Next, NEW s \in Spots, spots'[s] # spots[s]
  PROVE  \E w \in Workers : /\ Create(w) \/ Write(w) \/ Delete(w)
                            /\ job[w].spot = s /\ pc[w] # "free" /\ pc'[w] # pc[w]
                            /\ Create(w) \/ Mine(w, Row(w))
<1>1. TypeOK BY DEF IInv
<1>2. PICK w \in Workers : Step(w) \/ \E j \in Jobs : Accept(w, j)
  BY DEF Next
<1>3. Create(w) \/ Write(w) \/ Delete(w)
  BY <1>2 DEF Step, Read, ReadBack, Book, Fail, Accept, tables
<1>4. pc[w] # "free" /\ pc'[w] # pc[w]
  BY <1>1, <1>3 DEF Create, Write, Delete, Answer, Goto, TypeOK
<1>5. job[w].spot = s /\ (Create(w) \/ Mine(w, Row(w)))
  BY <1>1, <1>3 DEF Create, Write, Delete, Put, TypeOK
<1> QED BY <1>3, <1>4, <1>5

\* Nobody but its owner changes a spot, and nobody changes a deleted one.
THEOREM OwnersOnly == Spec => OnlyOwnerOnlyLive
<1> DEFINE Owned == \A s \in Spots : spots[s] # NoRow /\ spots'[s] # spots[s] =>
                       /\ ~spots[s].deleted
                       /\ \E w \in Workers : /\ job[w] # NoJob /\ job[w].spot = s
                                             /\ job[w].user = spots[s].owner
                                             /\ pc'[w] # pc[w]
<1>1. IInv /\ [Next]_vars => [Owned]_vars
  <2> SUFFICES ASSUME IInv, Next, NEW s \in Spots, spots[s] # NoRow, spots'[s] # spots[s]
               PROVE  /\ ~spots[s].deleted
                      /\ \E w \in Workers : /\ job[w] # NoJob /\ job[w].spot = s
                                            /\ job[w].user = spots[s].owner
                                            /\ pc'[w] # pc[w]
    OBVIOUS
  <2>1. PICK w \in Workers : /\ job[w].spot = s /\ pc[w] # "free" /\ pc'[w] # pc[w]
                             /\ Create(w) \/ Mine(w, Row(w))
    BY Writes
  <2>2. ~Create(w) BY <2>1 DEF Create, IInv, Fresh, Row
  <2>3. Visible(spots[s]) /\ spots[s].owner = job[w].user
    BY <2>1, <2>2 DEF Mine, Row
  <2>4. job[w] # NoJob BY <2>1, Busy DEF IInv
  <2> QED BY <2>1, <2>3, <2>4 DEF Visible
<1>2. Spec => [][Owned]_vars BY Inductive, <1>1, PTL DEF Spec
<1> QED BY <1>2 DEF OnlyOwnerOnlyLive

\* An update that nothing overtook leaves alone what its body does not name.
THEOREM MergeExact == Spec => MergeIsExact
<1> DEFINE Exact == \A w \in Workers :
                       pc[w] = "write" /\ pc'[w] = "readback" /\ seen[w] = Row(w) =>
                          LET new == spots'[job[w].spot] IN
                          /\ job[w].body.price = Keep => new.price = Row(w).price
                          /\ job[w].body.open = Keep => new.open = Row(w).open
<1>1. IInv /\ [Next]_vars => [Exact]_vars
  <2> SUFFICES ASSUME IInv, Next, NEW w \in Workers,
                      pc[w] = "write", pc'[w] = "readback", seen[w] = Row(w)
               PROVE  LET new == spots'[job[w].spot] IN
                      /\ job[w].body.price = Keep => new.price = Row(w).price
                      /\ job[w].body.open = Keep => new.open = Row(w).open
    OBVIOUS
  <2>1. TypeOK BY DEF IInv
  <2>2. PICK v \in Workers : Step(v) \/ \E j \in Jobs : Accept(v, j)
    BY DEF Next
  <2>3. v = w
    BY <2>1, <2>2 DEF Step, Create, Read, Write, ReadBack, Delete, Book, Fail, Accept,
                      Answer, Goto, TypeOK
  <2>4. Write(w)
    BY <2>1, <2>2, <2>3 DEF Step, Create, Read, Write, ReadBack, Delete, Book, Fail,
                            Accept, Answer, Goto, TypeOK
  <2>5. Put(w, Updated(w)) /\ Mine(w, Row(w))
    BY <2>1, <2>4 DEF Write, Answer, Goto, TypeOK
  <2>6. spots'[job[w].spot] = Updated(w) BY <2>1, <2>5, Busy DEF Put, TypeOK
  <2>7. PICK r \in Rows : r = Row(w) BY <2>1, <2>5, Matched
  <2>8. PICK m : m = Merged(job[w].body, r) OBVIOUS
  <2>9. Updated(w) = [r EXCEPT !.price = m.price, !.open = m.open, !.version = @ + 1]
    BY <2>7, <2>8 DEF Updated
  <2>10. /\ job[w].body.price = Keep => m.price = r.price
         /\ job[w].body.open = Keep => m.open = r.open
    BY <2>8 DEF Merged
  <2>11. PICK p, o : p = m.price /\ o = m.open OBVIOUS
  <2>12. /\ [r EXCEPT !.price = p, !.open = o, !.version = @ + 1].price = p
         /\ [r EXCEPT !.price = p, !.open = o, !.version = @ + 1].open = o
    BY DEF Rows
  <2> QED BY <2>6, <2>7, <2>9, <2>10, <2>11, <2>12
<1>2. Spec => [][Exact]_vars BY Inductive, <1>1, PTL DEF Spec
<1> QED BY <1>2 DEF MergeIsExact

\* A booking is made at a price that was on offer while its request ran.
THEOREM BookedTermsWereOffered == Spec => BookedOnOffer
<1> DEFINE Offered == \A b \in bookings' \ bookings :
                         \E w \in Workers : /\ pc[w] = "book" /\ job[w].user = b.user
                                            /\ job[w].spot = b.spot /\ b.price \in offered[w]
<1>1. IInv /\ [Next]_vars => [Offered]_vars
  <2> SUFFICES ASSUME IInv, Next, NEW b \in bookings' \ bookings
               PROVE  \E w \in Workers : /\ pc[w] = "book" /\ job[w].user = b.user
                                         /\ job[w].spot = b.spot /\ b.price \in offered[w]
    OBVIOUS
  <2>1. PICK w \in Workers : Step(w) \/ \E j \in Jobs : Accept(w, j)
    BY DEF Next
  <2>2. Book(w)
    BY <2>1 DEF Step, Create, Read, Write, ReadBack, Delete, Fail, Accept, tables
  <2>3. pc[w] = "book" /\ seen[w].price \in offered[w]
    BY <2>2 DEF Book, IInv, Noted
  <2>4. b.user = job[w].user /\ b.spot = job[w].spot /\ b.price = seen[w].price
    BY <2>2 DEF Book
  <2> QED BY <2>3, <2>4
<1>2. Spec => [][Offered]_vars BY Inductive, <1>1, PTL DEF Spec
<1> QED BY <1>2 DEF BookedOnOffer

\* Who is told 404 has no such spot, at the moment he is told.
THEOREM NotFoundTrue == Spec => NotFoundIsTrue
<1> DEFINE True404 == \A w \in Workers :
                         pc[w] # "free" /\ pc'[w] = "free" /\ answer'[w] = "missing"
                            => ~Mine(w, Row(w))
<1>1. IInv /\ [Next]_vars => [True404]_vars
  <2> SUFFICES ASSUME IInv, Next, NEW w \in Workers,
                      pc[w] # "free", pc'[w] = "free", answer'[w] = "missing"
               PROVE  ~Mine(w, Row(w))
    OBVIOUS
  <2>1. TypeOK BY DEF IInv
  <2>2. PICK v \in Workers : Step(v) \/ \E j \in Jobs : Accept(v, j)
    BY DEF Next
  <2>3. v = w
    BY <2>1, <2>2 DEF Step, Create, Read, Write, ReadBack, Delete, Book, Fail, Accept,
                      Answer, Goto, TypeOK
  <2>4. Read(w) \/ Write(w) \/ ReadBack(w) \/ Delete(w)
    BY <2>1, <2>2, <2>3 DEF Step, Create, Book, Fail, Accept, Answer, Goto, TypeOK
  <2>5. CASE Read(w) BY <2>1, <2>5 DEF Read, Answer, Goto, TypeOK
  <2>6. CASE Write(w) BY <2>1, <2>6 DEF Write, Answer, Goto, TypeOK
  <2>7. CASE ReadBack(w) BY <2>1, <2>7 DEF ReadBack, Answer, TypeOK, Mine
  <2>8. CASE Delete(w) BY <2>1, <2>8 DEF Delete, Answer, TypeOK
  <2> QED BY <2>4, <2>5, <2>6, <2>7, <2>8
<1>2. Spec => [][True404]_vars BY Inductive, <1>1, PTL DEF Spec
<1> QED BY <1>2 DEF NotFoundIsTrue
=============================================================================
