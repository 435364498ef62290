----------------------------- MODULE Marketplace -----------------------------
(***************************************************************************)
(* Parking spots and bookings: the handlers spots_create, spots_update,    *)
(* spots_delete and bookings_create of routes.rs and their statements in   *)
(* db.rs.                                                                  *)
(*                                                                         *)
(* Each of them issues one to three statements, none in a transaction, so  *)
(* other requests run in between: an update merges its body into the row   *)
(* it read before, a booking is made on the terms it read before, and a    *)
(* written row is read back in a statement of its own.  A row is reduced   *)
(* to its owner, a price (which stands for all data fields), whether it    *)
(* is available and whether it is deleted.                                 *)
(***************************************************************************)
EXTENDS Naturals, FiniteSets

CONSTANTS Workers,
          Users,
          Spots,        \* the ids create may draw
          Prices,
          Keep,         \* a field that the body does not name
          MaxWrites,    \* bound on the writes to a row
          MaxBookings   \* bound on the bookings

ASSUME MarketAssumption == /\ Keep \notin Prices \cup BOOLEAN
                           /\ MaxWrites \in Nat
                           /\ MaxBookings \in Nat

VARIABLES spots,        \* the Spots table
          bookings,     \* the Bookings table
          pc,           \* where each worker stands
          job,          \* the request it serves
          seen,         \* the row it has read
          answer,       \* what it answered last
          told,         \* history: how many deletions of each spot answered 204
          offered       \* history: the prices at which the spot of each request
                        \* was on offer since the request came in

tables == <<spots, bookings>>
vars == <<tables, pc, job, seen, answer, told, offered>>

Ops == {"create", "update", "delete", "book"}
Bodies == [price : Prices \cup {Keep}, open : BOOLEAN \cup {Keep}]
NoBody == [price |-> Keep, open |-> Keep]
Jobs == [op : Ops, user : Users, spot : Spots, body : Bodies]
NoJob == [op |-> "none"]

\* "version" counts the writes to a row.
Rows == [owner : Users, price : Prices, open : BOOLEAN, deleted : BOOLEAN,
         version : 1..MaxWrites]
NoRow == [version |-> 0]

\* 2xx, 404, refused for its content or the spot's state (400; 500 for a bad zip
\* code in an update), 500 for a statement that failed.
Answers == {"none", "done", "missing", "refused", "error"}
Labels == {"free", "create", "read", "write", "readback", "delete", "book"}

Goto(w, l) == pc' = [pc EXCEPT ![w] = l]
Row(w) == spots[job[w].spot]

\* What get_spot finds.
Visible(row) == row # NoRow /\ ~row.deleted
\* The WHERE clause of update_spot and delete_spot.
Mine(w, row) == Visible(row) /\ row.owner = job[w].user
OnOffer(row) == Visible(row) /\ row.open

Answer(w, a) == /\ Goto(w, "free")
                /\ answer' = [answer EXCEPT ![w] = a]
                /\ job' = [job EXCEPT ![w] = NoJob]
                /\ seen' = [seen EXCEPT ![w] = NoRow]

\* The row of w's spot is replaced; requests for it in flight see the new terms.
Put(w, row) ==
    /\ spots' = [spots EXCEPT ![job[w].spot] = row]
    /\ offered' = [v \in Workers |->
                     IF pc[v] # "free" /\ job[v].spot = job[w].spot /\ OnOffer(row)
                     THEN offered[v] \cup {row.price} ELSE offered[v]]

Init == /\ spots = [s \in Spots |-> NoRow]
        /\ bookings = {}
        /\ pc = [w \in Workers |-> "free"]
        /\ job = [w \in Workers |-> NoJob]
        /\ seen = [w \in Workers |-> NoRow]
        /\ answer = [w \in Workers |-> "none"]
        /\ told = [s \in Spots |-> 0]
        /\ offered = [w \in Workers |-> {}]

\* Any statement may fail: the pool is closed, the lock is busy, I/O.
Fail(w) == /\ pc[w] # "free"
           /\ Answer(w, "error")
           /\ UNCHANGED <<tables, told, offered>>

-----------------------------------------------------------------------------
(* Requests                                                                *)

FirstStep == [create |-> "create", update |-> "read", delete |-> "delete", book |-> "read"]

\* A request comes in.  A new spot draws an id nobody has; the others name a
\* spot that exists or existed.
Accept(w, j) ==
    /\ pc[w] = "free"
    /\ j.op \in {"delete", "book"} => j.body = NoBody
    /\ IF j.op = "create"
       THEN /\ spots[j.spot] = NoRow
            /\ \A v \in Workers : job[v] # NoJob => job[v].spot # j.spot
       ELSE spots[j.spot] # NoRow
    /\ Goto(w, FirstStep[j.op])
    /\ job' = [job EXCEPT ![w] = j]
    /\ answer' = [answer EXCEPT ![w] = "none"]
    /\ offered' = [offered EXCEPT ![w] = IF OnOffer(spots[j.spot])
                                         THEN {spots[j.spot].price} ELSE {}]
    /\ UNCHANGED <<tables, seen, told>>

\* insert_spot, once the body has been found complete; a new spot is available
\* unless the body says otherwise.
Create(w) ==
    /\ pc[w] = "create"
    /\ \/ /\ job[w].body.price # Keep
          /\ MaxWrites > 0
          /\ Put(w, [owner |-> job[w].user, price |-> job[w].body.price,
                     open |-> job[w].body.open # FALSE, deleted |-> FALSE, version |-> 1])
          /\ Goto(w, "readback")
          /\ UNCHANGED <<job, seen, answer>>
       \/ job[w].body.price = Keep /\ Answer(w, "refused") /\ UNCHANGED <<spots, offered>>
    /\ UNCHANGED <<bookings, told>>

\* Faulty variant: a booking looks only whether the spot exists.
ReadIgnoresOpen(w) ==
    /\ pc[w] = "read"
    /\ IF Visible(Row(w)) /\ (job[w].op = "update" => Mine(w, Row(w)))
       THEN /\ seen' = [seen EXCEPT ![w] = Row(w)]
            /\ Goto(w, IF job[w].op = "update" THEN "write" ELSE "book")
            /\ UNCHANGED <<job, answer>>
       ELSE Answer(w, IF job[w].op = "update" THEN "missing" ELSE "refused")
    /\ UNCHANGED <<tables, told, offered>>

\* get_spot and what follows it: an update is for the owner, and may be invalid;
\* a booking is for an available spot.
Read(w) ==
    /\ pc[w] = "read"
    /\ \/ /\ IF job[w].op = "update" THEN Mine(w, Row(w)) ELSE OnOffer(Row(w))
          /\ seen' = [seen EXCEPT ![w] = Row(w)]
          /\ Goto(w, IF job[w].op = "update" THEN "write" ELSE "book")
          /\ UNCHANGED <<job, answer>>
       \/ job[w].op = "update" /\ ~Mine(w, Row(w)) /\ Answer(w, "missing")
       \/ job[w].op = "update" /\ Mine(w, Row(w)) /\ Answer(w, "refused")
       \/ job[w].op = "book" /\ ~OnOffer(Row(w)) /\ Answer(w, "refused")
    /\ UNCHANGED <<tables, told, offered>>

\* spot_from_body over the row that was read: the body's fields, and the row's
\* where the body names none.
MergedOpenDefault(b, row) ==
    [price |-> IF b.price = Keep THEN row.price ELSE b.price, open |-> b.open # FALSE]

Merged(b, row) ==
    [price |-> IF b.price = Keep THEN row.price ELSE b.price,
     open |-> IF b.open = Keep THEN row.open ELSE b.open]

\* The row that w's update leaves behind where its WHERE clause matches.
Updated(w) ==
    LET m == Merged(job[w].body, seen[w]) IN
    [Row(w) EXCEPT !.price = m.price, !.open = m.open, !.version = @ + 1]

\* Faulty variant: rows that keep their values are not counted as changed.
WriteCountsChanges(w) ==
    /\ pc[w] = "write"
    /\ \/ /\ Mine(w, Row(w)) /\ Row(w).version < MaxWrites
          /\ [Updated(w) EXCEPT !.version = Row(w).version] # Row(w)
          /\ Put(w, Updated(w))
          /\ Goto(w, "readback")
          /\ UNCHANGED <<job, seen, answer>>
       \/ /\ Mine(w, Row(w))
             => [Updated(w) EXCEPT !.version = Row(w).version] = Row(w)
          /\ Answer(w, "missing")
          /\ UNCHANGED <<spots, offered>>
    /\ UNCHANGED <<bookings, told>>

\* update_spot: the UPDATE.
Write(w) ==
    /\ pc[w] = "write"
    /\ \/ /\ Mine(w, Row(w)) /\ Row(w).version < MaxWrites
          /\ Put(w, Updated(w))
          /\ Goto(w, "readback")
          /\ UNCHANGED <<job, seen, answer>>
       \/ /\ ~Mine(w, Row(w))
          /\ Answer(w, "missing")
          /\ UNCHANGED <<spots, offered>>
    /\ UNCHANGED <<bookings, told>>

\* insert_spot and update_spot end with reading the row back, which a deletion
\* may have overtaken.
ReadBack(w) ==
    /\ pc[w] = "readback"
    /\ Answer(w, IF Visible(Row(w)) THEN "done"
                 ELSE IF job[w].op = "create" THEN "error" ELSE "missing")
    /\ UNCHANGED <<tables, told, offered>>

\* Faulty variant: no `deleted_at IS NULL` in the WHERE clause.
DeleteAgain(w) ==
    /\ pc[w] = "delete"
    /\ \/ /\ Row(w).owner = job[w].user /\ Row(w).version < MaxWrites
          /\ Put(w, [Row(w) EXCEPT !.deleted = TRUE, !.open = FALSE, !.version = @ + 1])
          /\ told' = [told EXCEPT ![job[w].spot] = @ + 1]
          /\ Answer(w, "done")
       \/ /\ Row(w).owner # job[w].user
          /\ Answer(w, "missing")
          /\ UNCHANGED <<spots, told, offered>>
    /\ UNCHANGED bookings

\* Faulty variant: no `user_id = ?` in the WHERE clause.
DeleteAny(w) ==
    /\ pc[w] = "delete"
    /\ \/ /\ Visible(Row(w)) /\ Row(w).version < MaxWrites
          /\ Put(w, [Row(w) EXCEPT !.deleted = TRUE, !.open = FALSE, !.version = @ + 1])
          /\ told' = [told EXCEPT ![job[w].spot] = @ + 1]
          /\ Answer(w, "done")
       \/ /\ ~Visible(Row(w))
          /\ Answer(w, "missing")
          /\ UNCHANGED <<spots, told, offered>>
    /\ UNCHANGED bookings

\* delete_spot: the row stays, marked and unavailable.
Delete(w) ==
    /\ pc[w] = "delete"
    /\ \/ /\ Mine(w, Row(w)) /\ Row(w).version < MaxWrites
          /\ Put(w, [Row(w) EXCEPT !.deleted = TRUE, !.open = FALSE, !.version = @ + 1])
          /\ told' = [told EXCEPT ![job[w].spot] = @ + 1]
          /\ Answer(w, "done")
       \/ /\ ~Mine(w, Row(w))
          /\ Answer(w, "missing")
          /\ UNCHANGED <<spots, told, offered>>
    /\ UNCHANGED bookings

\* insert_booking, on the terms that were read.
Book(w) ==
    /\ pc[w] = "book"
    /\ Cardinality(bookings) < MaxBookings
    /\ bookings' = bookings \cup {[id |-> Cardinality(bookings) + 1, spot |-> job[w].spot,
                                   user |-> job[w].user, price |-> seen[w].price]}
    /\ Answer(w, "done")
    /\ UNCHANGED <<spots, told, offered>>

-----------------------------------------------------------------------------
Step(w) == \/ Create(w) \/ Read(w) \/ Write(w) \/ ReadBack(w)
           \/ Delete(w) \/ Book(w) \/ Fail(w)

Next == \E w \in Workers : Step(w) \/ \E j \in Jobs : Accept(w, j)

Spec == Init /\ [][Next]_vars

-----------------------------------------------------------------------------
(* Properties                                                              *)

\* The shape of the state.
TypeOK == /\ spots \in [Spots -> Rows \cup {NoRow}]
          /\ bookings \subseteq [id : 1..MaxBookings, spot : Spots, user : Users, price : Prices]
          /\ pc \in [Workers -> Labels]
          /\ job \in [Workers -> Jobs \cup {NoJob}]
          /\ \A w \in Workers : job[w] = NoJob <=> pc[w] = "free"
          /\ seen \in [Workers -> Rows \cup {NoRow}]
          /\ answer \in [Workers -> Answers]
          /\ told \in [Spots -> Nat]
          /\ offered \in [Workers -> SUBSET Prices]

\* Only a request of its owner changes a spot, and nobody changes it once it is
\* deleted, however late an update arrives that has read it before.
OnlyOwnerOnlyLive ==
    [][\A s \in Spots : spots[s] # NoRow /\ spots'[s] # spots[s] =>
          /\ ~spots[s].deleted
          /\ \E w \in Workers : /\ job[w] # NoJob /\ job[w].spot = s
                                /\ job[w].user = spots[s].owner
                                /\ pc'[w] # pc[w]]_vars

\* Concurrent deletions of one spot: exactly one of them is told 204.
DeleteToldOnce ==
    \A s \in Spots : told[s] = IF spots[s] # NoRow /\ spots[s].deleted THEN 1 ELSE 0

\* An update that nothing overtook (the row is as it was read) changes just the
\* fields that its body names: a price change does not put a withdrawn spot back
\* on the market.  A row that did change in between is overwritten with what was
\* read: that the code does not prevent.
MergeIsExact ==
    [][\A w \in Workers : pc[w] = "write" /\ pc'[w] = "readback" /\ seen[w] = Row(w) =>
          LET new == spots'[job[w].spot] IN
          /\ job[w].body.price = Keep => new.price = Row(w).price
          /\ job[w].body.open = Keep => new.open = Row(w).open]_vars

\* A booking may be entered for a spot that has meanwhile been withdrawn, deleted
\* or repriced, but its price was on offer while the request ran.
BookedOnOffer ==
    [][\A b \in bookings' \ bookings :
          \E w \in Workers : /\ pc[w] = "book" /\ job[w].user = b.user
                             /\ job[w].spot = b.spot /\ b.price \in offered[w]]_vars

\* A caller is told 404 only for a spot that is not his, or not any more (his
\* update may have been made all the same, if the deletion came after it).
NotFoundIsTrue ==
    [][\A w \in Workers : pc[w] # "free" /\ pc'[w] = "free" /\ answer'[w] = "missing"
                          => ~Mine(w, Row(w))]_vars
=============================================================================
