------------------------------- MODULE DbPool -------------------------------
(***************************************************************************)
(* The connection pool of db.rs and the transactions run on it.            *)
(*                                                                         *)
(* A caller thread checks a connection out of the pool, blocking on a      *)
(* condition variable while none is idle, runs one operation on it         *)
(* (Pool::with: a statement, or a statement and a query that reads back    *)
(* what it wrote; Pool::transaction: BEGIN IMMEDIATE ... COMMIT) and gives  *)
(* it back when the Checkout guard is dropped on a normal return, an error *)
(* or a panic.  close_all may come at any     *)
(* time.  Every critical section of the pool's mutex is one action; the    *)
(* notify that follows the unlock is an action of its own, because other   *)
(* threads run in between.  The stack of idle connections is a set: nothing *)
(* depends on which idle connection a caller gets.                         *)
(* The connections are local SQLite handles (Pool::open): one statement on  *)
(* one is a step that happens or fails.  One connection at a time is in a  *)
(* write transaction, and a closed connection leaves none behind.          *)
(***************************************************************************)
EXTENDS Naturals, FiniteSets

CONSTANTS Threads,      \* caller threads: HTTP workers and cleanup threads
          Conns,        \* the connections the pool opened
          None          \* no connection

ASSUME DbPoolAssumption ==
    /\ IsFiniteSet(Threads)
    /\ IsFiniteSet(Conns)
    /\ None \notin Conns

VARIABLES idle,         \* PoolState.idle
          closed,       \* PoolState.closed
          waiting,      \* threads blocked in the condition variable
          closer,       \* progress of close_all: "no", "drain", "wake", "done"
          pc,           \* where each thread stands
          op,           \* what it runs, see Ops, or "none"
          conn,         \* the connection in its Checkout guard
          writer,       \* the connection in an open write transaction
          pending,      \* threads with uncommitted writes in that transaction
          stuck,        \* its ROLLBACK has failed and left it open
          result,       \* what the caller of each thread was told
          durable       \* threads whose operation is committed

poolVars == <<idle, closed, waiting, closer>>
txVars == <<writer, pending, stuck>>
dbVars == <<txVars, durable>>
vars == <<poolVars, dbVars, pc, op, conn, result>>

\* "with": one statement.  "echo": a statement and a query of the row it wrote
\* (insert_spot, update_spot).  "tx": a transaction.
Ops == {"with", "echo", "tx"}
Labels == {"free", "checkout", "wait", "exec", "reread", "begin", "body", "commit",
           "rollback", "return", "notify"}
\* The part of Pool::transaction in which a transaction is open.
InTx == {"body", "commit", "rollback"}

Goto(t, l) == pc' = [pc EXCEPT ![t] = l]
Leave(t, l) == Goto(t, l) /\ op' = [op EXCEPT ![t] = "none"]
Report(t, r) == result' = [result EXCEPT ![t] = r]

Held == {conn[t] : t \in Threads} \ {None}

\* The open transaction ends without a commit.
Discard == writer' = None /\ pending' = {} /\ stuck' = FALSE

\* A failing statement leaves the transaction of its connection as it was, or
\* SQLite rolls that back by itself.
Spoil(c) == UNCHANGED txVars \/ (writer = c /\ Discard)

\* sqlite3_close ends what is open on these connections.
Close(cs) == IF writer \in cs THEN Discard ELSE UNCHANGED txVars

Init == /\ idle = Conns
        /\ closed = FALSE
        /\ waiting = {}
        /\ closer = "no"
        /\ pc = [t \in Threads |-> "free"]
        /\ op = [t \in Threads |-> "none"]
        /\ conn = [t \in Threads |-> None]
        /\ writer = None
        /\ pending = {}
        /\ stuck = FALSE
        /\ result = [t \in Threads |-> "err"]
        /\ durable = {}

-----------------------------------------------------------------------------
(* Checkout                                                                *)

\* A caller enters Pool::with or Pool::transaction.
Start(t) == /\ pc[t] = "free"
            /\ \E k \in Ops : op' = [op EXCEPT ![t] = k]
            /\ Goto(t, "checkout")
            /\ Report(t, "none")
            /\ durable' = durable \ {t}
            /\ pending' = pending \ {t}
            /\ UNCHANGED <<poolVars, conn, writer, stuck>>

\* One turn of the loop in Pool::checkout, under the mutex.
Checkout(t) ==
    /\ pc[t] = "checkout"
    /\ \/ /\ closed
          /\ Report(t, "err")
          /\ Leave(t, "free")
          /\ UNCHANGED <<idle, waiting, conn>>
       \/ /\ ~closed
          /\ \E c \in idle : /\ idle' = idle \ {c}
                             /\ conn' = [conn EXCEPT ![t] = c]
          /\ Goto(t, IF op[t] = "tx" THEN "begin" ELSE "exec")
          /\ UNCHANGED <<waiting, op, result>>
       \/ /\ ~closed
          /\ idle = {}
          /\ waiting' = waiting \cup {t}
          /\ Goto(t, "wait")
          /\ UNCHANGED <<idle, op, conn, result>>
    /\ UNCHANGED <<closed, closer, dbVars>>

\* A condition variable may wake a waiter for no reason.
Spurious(t) == /\ t \in waiting
               /\ waiting' = waiting \ {t}
               /\ Goto(t, "checkout")
               /\ UNCHANGED <<idle, closed, closer, op, conn, result, dbVars>>

-----------------------------------------------------------------------------
(* One operation on the connection                                         *)

\* The statement of a Pool::with closure.  It commits by itself, unless the
\* connection is inside a transaction, which it then silently joins.
\* SQLITE_BUSY after the busy timeout, any other error and a panic of the
\* closure end the same way.
Exec(t) ==
    /\ pc[t] = "exec"
    /\ \/ /\ \/ writer = conn[t] /\ pending' = pending \cup {t} /\ UNCHANGED durable
             \/ writer = None /\ durable' = durable \cup {t} /\ UNCHANGED pending
          /\ IF op[t] = "echo" THEN Goto(t, "reread") /\ UNCHANGED result
                               ELSE Goto(t, "return") /\ Report(t, "ok")
          /\ UNCHANGED <<writer, stuck>>
       \/ /\ Spoil(conn[t])
          /\ Goto(t, "return")
          /\ Report(t, "err")
          /\ UNCHANGED durable
    /\ UNCHANGED <<poolVars, op, conn>>

\* The query that follows it in insert_spot and update_spot.  When that fails,
\* or insert_spot does not find its row, the caller is told of an error although
\* the write stands.
Reread(t) ==
    /\ pc[t] = "reread"
    /\ \/ Report(t, "ok") /\ UNCHANGED txVars
       \/ Report(t, "err") /\ Spoil(conn[t])
    /\ Goto(t, "return")
    /\ UNCHANGED <<poolVars, op, conn, durable>>

\* BEGIN IMMEDIATE takes the write lock up front or fails: busy for longer
\* than the timeout, an I/O error, or a transaction already open here.
Begin(t) ==
    /\ pc[t] = "begin"
    /\ \/ /\ writer = None
          /\ writer' = conn[t]
          /\ Goto(t, "body")
          /\ UNCHANGED result
       \/ /\ Report(t, "err")
          /\ Goto(t, "return")
          /\ UNCHANGED writer
    /\ UNCHANGED <<poolVars, op, conn, pending, stuck, durable>>

\* The closure: it may write, then returns, fails or panics.
Body(t) ==
    /\ pc[t] = "body"
    /\ \/ /\ pending' = pending \cup {t}
          /\ Goto(t, "commit")
          /\ UNCHANGED <<writer, stuck>>
       \/ /\ \/ pending' = pending \cup {t} /\ UNCHANGED <<writer, stuck>>
             \/ Spoil(conn[t])
          /\ Goto(t, "rollback")
    /\ UNCHANGED <<poolVars, op, conn, result, durable>>

\* Faulty variant: `committed = true` is set before the COMMIT is issued, so a
\* failed COMMIT no longer rolls back.
CommitFlaggedEarly(t) ==
    /\ pc[t] = "commit"
    /\ \/ Discard /\ durable' = durable \cup pending /\ Report(t, "ok")
       \/ Report(t, "err") /\ UNCHANGED dbVars
    /\ Goto(t, "return")
    /\ UNCHANGED <<poolVars, op, conn>>

\* COMMIT makes every pending write durable and ends the transaction, or fails.
Commit(t) ==
    /\ pc[t] = "commit"
    /\ \/ /\ durable' = durable \cup pending
          /\ Discard
          /\ Report(t, "ok")
          /\ Goto(t, "return")
       \/ /\ Spoil(conn[t])
          /\ Goto(t, "rollback")
          /\ UNCHANGED <<result, durable>>
    /\ UNCHANGED <<poolVars, op, conn>>

\* Faulty variant: no TxGuard, an error or a panic just unwinds.
NoRollback(t) == /\ pc[t] = "rollback"
                 /\ Report(t, "err")
                 /\ Goto(t, "return")
                 /\ UNCHANGED <<poolVars, op, conn, dbVars>>

\* TxGuard::drop.  A ROLLBACK that fails is only logged: it finds no transaction
\* when SQLite already ended it, or it leaves the transaction open.
Rollback(t) ==
    /\ pc[t] = "rollback"
    /\ \/ writer # conn[t] /\ UNCHANGED txVars
       \/ writer = conn[t] /\ Discard
       \/ writer = conn[t] /\ stuck' = TRUE /\ UNCHANGED <<writer, pending>>
    /\ Report(t, "err")
    /\ Goto(t, "return")
    /\ UNCHANGED <<poolVars, op, conn, durable>>

-----------------------------------------------------------------------------
(* Giving the connection back                                              *)

\* Faulty variant: the connection is pushed back without looking at `closed`.
ReturnAlways(t) ==
    /\ pc[t] = "return"
    /\ conn' = [conn EXCEPT ![t] = None]
    /\ idle' = idle \cup {conn[t]}
    /\ Leave(t, "notify")
    /\ UNCHANGED <<closed, waiting, closer, result, dbVars>>

\* Faulty variant: the notify is skipped unless the pool had run empty.
ReturnNotifyIfEmpty(t) ==
    /\ pc[t] = "return"
    /\ conn' = [conn EXCEPT ![t] = None]
    /\ \/ closed /\ Close({conn[t]}) /\ Leave(t, "free") /\ UNCHANGED idle
       \/ /\ ~closed
          /\ idle' = idle \cup {conn[t]}
          /\ Leave(t, IF idle = {} THEN "notify" ELSE "free")
          /\ UNCHANGED txVars
    /\ UNCHANGED <<closed, waiting, closer, result, durable>>

\* Checkout::drop: close the connection if the pool is closed, else push it.
Return(t) ==
    /\ pc[t] = "return"
    /\ conn' = [conn EXCEPT ![t] = None]
    /\ \/ closed /\ Close({conn[t]}) /\ Leave(t, "free") /\ UNCHANGED idle
       \/ ~closed /\ idle' = idle \cup {conn[t]} /\ Leave(t, "notify") /\ UNCHANGED txVars
    /\ UNCHANGED <<closed, waiting, closer, result, durable>>

\* notify_one, after the mutex was released.
Notify(t) ==
    /\ pc[t] = "notify"
    /\ \/ /\ waiting = {}
          /\ Goto(t, "free")
          /\ UNCHANGED waiting
       \/ \E w \in waiting :
             /\ waiting' = waiting \ {w}
             /\ pc' = [pc EXCEPT ![t] = "free", ![w] = "checkout"]
    /\ UNCHANGED <<idle, closed, closer, op, conn, result, dbVars>>

-----------------------------------------------------------------------------
(* Shutdown                                                                *)

\* close_all, under the mutex: refuse checkouts and drain the idle stack.
CloseAll == /\ closer = "no"
            /\ closer' = "drain"
            /\ closed' = TRUE
            /\ idle' = {}
            /\ UNCHANGED <<waiting, pc, op, conn, result, dbVars>>

\* drop(drained), after the mutex was released: what nobody holds is closed.
Drain == /\ closer = "drain"
         /\ closer' = "wake"
         /\ Close(Conns \ Held)
         /\ UNCHANGED <<idle, closed, waiting, pc, op, conn, result, durable>>

\* Faulty variant: close_all wakes nobody.
WakeNobody == /\ closer = "wake"
              /\ closer' = "done"
              /\ UNCHANGED <<idle, closed, waiting, pc, op, conn, result, dbVars>>

\* notify_all.
WakeAll ==
    /\ closer = "wake"
    /\ closer' = "done"
    /\ waiting' = {}
    /\ pc' = [t \in Threads |-> IF t \in waiting THEN "checkout" ELSE pc[t]]
    /\ UNCHANGED <<idle, closed, op, conn, result, dbVars>>

-----------------------------------------------------------------------------
\* What a thread does by itself once it has been called.
Step(t) == \/ Checkout(t) \/ Exec(t) \/ Reread(t) \/ Begin(t) \/ Body(t) \/ Commit(t)
           \/ Rollback(t) \/ Return(t) \/ Notify(t)

Next == \/ \E t \in Threads : Start(t) \/ Spurious(t) \/ Step(t)
        \/ CloseAll
        \/ Drain
        \/ WakeAll

Spec == Init /\ [][Next]_vars

\* The scheduler keeps running every thread, the closing one included; nobody
\* has to call the database, to close it or to wake a waiter spuriously.
Fairness == /\ \A t \in Threads : WF_vars(Step(t))
            /\ WF_vars(Drain)
            /\ WF_vars(WakeAll)

FairSpec == Spec /\ Fairness

-----------------------------------------------------------------------------
(* Properties                                                              *)

\* The shape of the state of the pool, the threads and the store.
TypeOK == /\ idle \subseteq Conns
          /\ closed \in BOOLEAN
          /\ waiting \subseteq Threads
          /\ closer \in {"no", "drain", "wake", "done"}
          /\ pc \in [Threads -> Labels]
          /\ op \in [Threads -> Ops \cup {"none"}]
          /\ conn \in [Threads -> Conns \cup {None}]
          /\ writer \in Conns \cup {None}
          /\ pending \subseteq Threads
          /\ stuck \in BOOLEAN
          /\ result \in [Threads -> {"none", "ok", "err"}]
          /\ durable \subseteq Threads

\* Connections are conserved: no two threads ever hold the same one and none is
\* held while idle; an open pool has lost none of them, and a closed pool never
\* takes one back (Checkout::drop against close_all).
Conservation ==
    /\ \A s, t \in Threads : conn[s] = conn[t] /\ conn[s] # None => s = t
    /\ idle \cap Held = {}
    /\ IF closed THEN idle = {} ELSE idle \cup Held = Conns

\* The doc of Pool::transaction says "a connection is never returned to the pool
\* with a transaction still open".  What holds, whatever failed: an open
\* transaction is that of a thread still inside Pool::transaction, on the
\* connection this thread holds, or its ROLLBACK has failed; and no transaction
\* ever runs inside one that was left open.
Insiders == {t \in Threads : pc[t] \in InTx /\ conn[t] = writer}
StrayOnlyIfStuck == writer # None => (stuck <=> Insiders = {})

\* No lost wakeup: when threads wait although connections are idle, there are
\* at least as many threads about to notify or to look again as connections
\* idle, so every one of these connections is still going to be taken; and a
\* closed pool with waiters has its notify_all ahead of it.
Active == {t \in Threads : pc[t] \in {"notify", "checkout"}}
NoLostWakeup ==
    waiting # {} => /\ Cardinality(idle) <= Cardinality(Active)
                    /\ closed => closer \in {"drain", "wake"}

\* The pool implements the store: what a caller is told is what happened to its
\* writes, and nobody else's, but for what AtomicStore names: an operation that
\* reads back, and the time while a transaction is stuck.
Store == INSTANCE AtomicStore WITH
           echoes <- {t \in Threads : op[t] = "echo" /\ result[t] = "none"},
           jammed <- stuck
StoreSpec == Store!Spec

\* close_all blocks nobody forever: every call in flight, waiting ones included,
\* returns once the pool is closed.
CloseReleases == \A t \in Threads : closed /\ pc[t] # "free" ~> pc[t] = "free"
=============================================================================
