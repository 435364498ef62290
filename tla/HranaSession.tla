---------------------------- MODULE HranaSession ----------------------------
(***************************************************************************)
(* hrana.rs: pooled connections to a shared libSQL server, over HTTP.      *)
(*                                                                         *)
(* Each statement is one request.  Outside a transaction the request also  *)
(* closes its stream; BEGIN leaves the stream open, and every answer from  *)
(* then on hands out a new baton, which the next request must carry and    *)
(* the server accepts once.  An answer can be lost, or come too late: the  *)
(* session then has no baton, and the server has a stream nobody can name, *)
(* with the write lock, until it expires.                                  *)
(*                                                                         *)
(* The server is modelled from what the code and its test's stand-in       *)
(* expect of it.  The database is the set of the things it holds.          *)
(***************************************************************************)
EXTENDS Integers, FiniteSets

CONSTANTS Sessions,
          None,           \* no baton, transaction, request or answer
          ServerCloses,   \* may the server end a stream in mid-transaction?
          MaxFaults       \* bound on timeouts, expiries and crashes

ASSUME HranaAssumption == /\ ServerCloses \in BOOLEAN /\ MaxFaults \in Nat
                          /\ IsFiniteSet(Sessions) /\ None \notin Nat

VARIABLES baton,          \* each session's baton
          sent,           \* the request each session waits for
          answer,         \* its answer, on the way back
          wire,           \* requests on the way to the server
          db,             \* what is committed
          tx,             \* the open transaction: its baton, its session, its writes
          faults

server == <<db, tx>>
hranaVars == <<baton, sent, answer, wire, server, faults>>

\* What a database holds: each thing is a tuple.
Table == <<"table">>
Index == <<"index">>
Duplicates == <<"duplicates">>  \* rows that a unique index would not allow

\* A statement.  A "fresh" write fails when its item is there (INSERT, ALTER
\* TABLE); any other is CREATE ... IF NOT EXISTS.  What it adds is the item and,
\* for a new table, its columns.
Begin == [kind |-> "begin"]
Commit == [kind |-> "commit"]
Rollback == [kind |-> "rollback"]
Read == [kind |-> "read"]
Insert(i) == [kind |-> "write", item |-> i, adds |-> {i}, fresh |-> TRUE]
Create(i, adds) == [kind |-> "write", item |-> i, adds |-> adds, fresh |-> FALSE]

-----------------------------------------------------------------------------
(* Deviations from the code, each of which breaks a property.              *)

\* Every statement closes its stream.
ClosesAlways(stmt, b) == stmt.kind # "begin"

\* The baton of a stream whose BEGIN failed is kept.
NextBatonKept(q, a) == IF q.close \/ a = None THEN None ELSE a.baton

-----------------------------------------------------------------------------
(* The session                                                             *)

\* statement_kind and execute: does the request close its stream?
Closes(stmt, b) == \/ stmt.kind \in {"commit", "rollback"}
                   \/ stmt.kind \in {"read", "write"} /\ b = None

\* next_baton.  The answer is None when the request failed, and refused answers
\* (a status other than 200) count as failed requests.
NextBaton(q, a) ==
    IF q.close \/ a = None THEN None
    ELSE IF q.stmt.kind = "begin" /\ ~a.ok THEN None
    ELSE a.baton

\* pipeline_body, post_json
Send(s, stmt) ==
    LET q == [from |-> s, stmt |-> stmt, baton |-> baton[s], late |-> FALSE,
              close |-> Closes(stmt, baton[s])]
    IN /\ sent[s] = None
       /\ sent' = [sent EXCEPT ![s] = q]
       /\ wire' = wire \cup {q}
       /\ UNCHANGED <<baton, answer, server, faults>>

\* What execute returns: a BEGIN that brought no baton is an error.
Succeeded(q, a) == /\ a # None /\ a.ok
                   /\ q.stmt.kind = "begin" => NextBaton(q, a) # None

\* The answer arrives (None: it will not, curl gives up) and the new baton is
\* stored, before any error is returned.
Settle(s, a) ==
    /\ baton' = [baton EXCEPT ![s] = NextBaton(sent[s], a)]
    /\ sent' = [sent EXCEPT ![s] = None]
    /\ answer' = [answer EXCEPT ![s] = None]

Receive(s) == /\ answer[s] # None
              /\ Settle(s, IF answer[s].refused THEN None ELSE answer[s])
              /\ UNCHANGED <<wire, server, faults>>

Fault == faults < MaxFaults /\ faults' = faults + 1

\* TIMEOUT_MS: the request is lost, late, or served and its answer is lost.
Late(q) == [q EXCEPT !.late = TRUE]
TimeOut(s) ==
    /\ sent[s] # None /\ Fault
    /\ Settle(s, None)
    /\ \/ wire' = wire \ {sent[s]}
       \/ sent[s] \in wire /\ wire' = (wire \ {sent[s]}) \cup {Late(sent[s])}
    /\ UNCHANGED server

-----------------------------------------------------------------------------
(* The server                                                              *)

InTx(q) == tx # None /\ q.baton # None /\ q.baton = tx.baton
Seen(q) == IF InTx(q) THEN db \cup tx.writes ELSE db

\* The bound on batons: those of the sessions, of the answers, of the requests on
\* their way, of which only a fault leaves more than one for a session, and one more.
Batons == 1..(3 * Cardinality(Sessions) + MaxFaults + 2)

\* The server hands out a baton that is in nobody's hands.
Unused == {b \in Batons : /\ tx # None => b # tx.baton
                          /\ \A s \in Sessions : /\ b # baton[s]
                                                 /\ answer[s] # None => b # answer[s].baton
                          /\ \A q \in wire : b # q.baton}
NewBaton == CHOOSE b \in Unused : TRUE

Reply(q, ok, b, why) ==
    /\ wire' = wire \ {q}
    /\ answer' = IF q.late THEN answer
                 ELSE [answer EXCEPT ![q.from] = [ok |-> ok, baton |-> b, saw |-> Seen(q),
                                                  why |-> why, refused |-> why = "refused"]]

Handed(q) == IF q.close THEN None ELSE NewBaton
Fails(q, why) == Reply(q, FALSE, Handed(q), why)

\* A statement inside a transaction: its stream has a new baton, or is closed
\* and rolled back, because it was asked to or because the server decides so.
Continue(q, ok, writes) ==
    \E b \in {Handed(q)} \cup (IF ServerCloses /\ ok THEN {None} ELSE {}) :
        /\ Reply(q, ok, b, IF ok THEN "" ELSE "unique")
        /\ tx' = IF b = None THEN None ELSE [tx EXCEPT !.baton = b, !.writes = writes]

\* The write lock is another stream's.  The server lets a statement wait for it,
\* and fails it when that takes too long.
Busy(q) == /\ tx # None /\ Fault
           /\ Fails(q, "busy") /\ UNCHANGED server

\* The baton is unknown, or was used before.
Refuse(q) == /\ q.baton # None /\ ~InTx(q)
             /\ Reply(q, FALSE, None, "refused")
             /\ UNCHANGED <<server, faults>>

ServeBegin(q) ==
    /\ q.stmt.kind = "begin" /\ q.baton = None
    /\ \/ Busy(q)
       \/ /\ tx = None
          /\ tx' = [baton |-> NewBaton, owner |-> q.from, writes |-> {}]
          /\ Reply(q, TRUE, NewBaton, "") /\ UNCHANGED <<db, faults>>

\* COMMIT or ROLLBACK, with no transaction on its stream, then in its own.
ServeEnd(q) ==
    /\ q.stmt.kind \in {"commit", "rollback"} /\ UNCHANGED faults
    /\ \/ /\ q.baton = None
          /\ Fails(q, "no transaction") /\ UNCHANGED server
       \/ /\ InTx(q) /\ tx' = None
          /\ \/ Reply(q, TRUE, None, "")
                /\ db' = IF q.stmt.kind = "commit" THEN db \cup tx.writes ELSE db
             \/ Fails(q, "failed") /\ UNCHANGED db

ServeRead(q) ==
    /\ q.stmt.kind = "read" /\ UNCHANGED faults
    /\ \/ q.baton = None /\ Reply(q, TRUE, None, "") /\ UNCHANGED server
       \/ InTx(q) /\ Continue(q, TRUE, tx.writes) /\ UNCHANGED db

\* A write that has something to do needs the write lock.
Idle(q) == ~q.stmt.fresh /\ q.stmt.item \in Seen(q)
Conflict(q) == \/ q.stmt.fresh /\ q.stmt.item \in Seen(q)
               \/ q.stmt.item = Index /\ Duplicates \in Seen(q)
ServeWrite(q) ==
    /\ q.stmt.kind = "write"
    /\ \/ q.baton = None /\ ~Idle(q) /\ Busy(q)
       \/ q.baton = None /\ (tx # None => Idle(q)) /\ UNCHANGED <<tx, faults>>
          /\ IF Conflict(q) THEN Fails(q, "unique") /\ UNCHANGED db
             ELSE Reply(q, TRUE, None, "") /\ db' = IF Idle(q) THEN db ELSE db \cup q.stmt.adds
       \/ InTx(q) /\ UNCHANGED <<db, faults>>
          /\ \/ Continue(q, FALSE, tx.writes)
             \/ ~Conflict(q) /\ Continue(q, TRUE, tx.writes \cup q.stmt.adds)

Serve == /\ Unused # {}
         /\ \E q \in wire : \/ Refuse(q) \/ ServeBegin(q) \/ ServeEnd(q)
                            \/ ServeRead(q) \/ ServeWrite(q)
         /\ UNCHANGED <<baton, sent>>

\* A stream that waits too long for its next request is rolled back.  It is an
\* orphan when its session no longer knows its baton.
Orphan == /\ tx # None
          /\ baton[tx.owner] # tx.baton
          /\ answer[tx.owner] # None => answer[tx.owner].baton # tx.baton
          /\ \A q \in wire : q.baton # tx.baton
Expire == /\ tx # None /\ \A q \in wire : q.baton # tx.baton
          /\ tx' = None
          /\ IF Orphan THEN UNCHANGED faults ELSE Fault
          /\ UNCHANGED <<baton, sent, answer, wire, db>>

HranaInit == /\ baton = [s \in Sessions |-> None]
             /\ sent = [s \in Sessions |-> None]
             /\ answer = [s \in Sessions |-> None]
             /\ wire = {} /\ tx = None /\ faults = 0
=============================================================================
