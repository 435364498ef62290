------------------------------ MODULE HttpServer ------------------------------
(***************************************************************************)
(* The HTTP server (http.rs) and its end (main.rs): an acceptor thread     *)
(* hands connections through a bounded channel to a fixed set of workers,  *)
(* each of which serves one connection until it ends.  A signal stops the  *)
(* acceptor; the channel closes behind it, the workers drain what it still *)
(* holds, and main closes the database pool when all of them are gone or   *)
(* the grace period is over.                                               *)
(*                                                                         *)
(* Requests are reduced to whether the client wants the connection kept    *)
(* alive.  How a handler interacts with the pool that main closes is the   *)
(* subject of DbPool.                                                      *)
(***************************************************************************)
EXTENDS Naturals, Sequences, FiniteSets, Functions

CONSTANTS Workers,
          Conns,        \* the clients' connections
          Cap,          \* max_queued_connections
          Backlog,      \* the length of the kernel's listen queue
          Wake,         \* the connection trigger makes to its own listener
          None

ASSUME ServerAssumption == /\ IsFiniteSet(Workers) /\ Workers # {}
                           /\ Cap \in Nat \ {0}
                           /\ Backlog \in Nat
                           /\ Wake \notin Conns /\ None \notin Conns \cup {Wake}

VARIABLES backlog,      \* connections the kernel has accepted
          acceptor,     \* where the acceptor stands
          hand,         \* the connection it has in hand
          queue,        \* the channel
          pc,           \* where each worker stands
          serving,      \* the connection it serves
          keep,         \* whether that connection is to be kept alive
          live,         \* Inner::live
          stop,         \* Inner::stop
          main,         \* where the main thread stands
          woken,        \* history: the wake-up connection came through
          expired       \* history: the grace period ran out

intake == <<backlog, acceptor, hand>>
pool == <<pc, serving, keep, live>>
shutdown == <<stop, main, woken, expired>>
vars == <<intake, queue, pool, shutdown>>

Init == /\ backlog = <<>> /\ acceptor = "accept" /\ hand = None
        /\ queue = <<>>
        /\ pc = [w \in Workers |-> "lock"]
        /\ serving = [w \in Workers |-> None]
        /\ keep = [w \in Workers |-> FALSE]
        /\ live = Cardinality(Workers)
        /\ stop = FALSE /\ main = "run" /\ woken = FALSE /\ expired = FALSE

-----------------------------------------------------------------------------
(* Clients and the acceptor                                                *)

\* A client connects, if its earlier connection has ended.
Connect(c) == /\ acceptor # "gone"
              /\ c \notin Range(backlog) \cup Range(queue) \cup {hand}
              /\ \A w \in Workers : serving[w] # c
              /\ Len(backlog) < Backlog
              /\ backlog' = Append(backlog, c)
              /\ UNCHANGED <<acceptor, hand, queue, pool, shutdown>>

\* The acceptor ends: the channel loses its sender, the listener closes.
Leave == acceptor' = "gone" /\ hand' = None /\ backlog' = <<>>

\* accept returns the next connection, or an error, of the connection or of the
\* process, that leaves the acceptor empty-handed.
Accept == /\ acceptor = "accept" /\ backlog # <<>>
          /\ \/ hand' = Head(backlog) /\ backlog' = Tail(backlog)
             \/ hand' = None /\ backlog' \in {backlog, Tail(backlog)}
          /\ acceptor' = "check"
          /\ UNCHANGED <<queue, pool, shutdown>>

\* The flag is looked at each time; a connection in hand is dropped if it is set.
Check == /\ acceptor = "check"
         /\ \/ stop /\ Leave
            \/ /\ ~stop
               /\ acceptor' = IF hand = None THEN "accept" ELSE "send"
               /\ UNCHANGED <<hand, backlog>>
         /\ UNCHANGED <<queue, pool, shutdown>>

\* Faulty variant: an unbounded channel.
SendUnbounded == /\ acceptor = "send"
                 /\ queue' = Append(queue, hand)
                 /\ acceptor' = "accept" /\ hand' = None
                 /\ UNCHANGED <<backlog, pool, shutdown>>

\* try_send: a connection that does not fit is shed.  (Its Disconnected case would
\* need every worker gone before the acceptor: see WorkersSurvive.)
Send == /\ acceptor = "send"
        /\ \/ Len(queue) < Cap /\ queue' = Append(queue, hand)
           \/ Len(queue) = Cap /\ UNCHANGED queue
        /\ acceptor' = "accept" /\ hand' = None
        /\ UNCHANGED <<backlog, pool, shutdown>>

-----------------------------------------------------------------------------
(* Workers                                                                 *)

Goto(w, l) == pc' = [pc EXCEPT ![w] = l]

\* The thread ends; LiveGuard counts it out.
Exit(w) == /\ Goto(w, "exited")
           /\ serving' = [serving EXCEPT ![w] = None]
           /\ live' = live - 1
           /\ UNCHANGED keep

\* Back to the channel, the connection closed.
Finish(w) == /\ Goto(w, "lock")
             /\ serving' = [serving EXCEPT ![w] = None]
             /\ UNCHANGED <<keep, live>>

\* The lock on the receiver is held while its holder waits in recv.
Lock(w) == /\ pc[w] = "lock"
           /\ \A v \in Workers : pc[v] # "recv"
           /\ Goto(w, "recv")
           /\ UNCHANGED <<intake, queue, serving, keep, live, shutdown>>

\* Faulty variant: a worker that sees the flag leaves the rest of the queue.
RecvUnlessStopped(w) ==
    /\ pc[w] = "recv"
    /\ \/ /\ queue # <<>> /\ ~stop
          /\ queue' = Tail(queue)
          /\ serving' = [serving EXCEPT ![w] = Head(queue)]
          /\ Goto(w, "read")
          /\ UNCHANGED <<keep, live>>
       \/ (stop \/ acceptor = "gone") /\ Exit(w) /\ UNCHANGED queue
    /\ UNCHANGED <<intake, shutdown>>

\* recv: a connection, or an error once the sender is gone and nothing is left.
Recv(w) ==
    /\ pc[w] = "recv"
    /\ \/ /\ queue # <<>>
          /\ queue' = Tail(queue)
          /\ serving' = [serving EXCEPT ![w] = Head(queue)]
          /\ Goto(w, "read")
          /\ UNCHANGED <<keep, live>>
       \/ queue = <<>> /\ acceptor = "gone" /\ Exit(w) /\ UNCHANGED queue
    /\ UNCHANGED <<intake, shutdown>>

\* Faulty variant: no catch_unwind around handle_connection.
ReadPanics(w) ==
    /\ pc[w] = "read"
    /\ \/ /\ \E k \in BOOLEAN : keep' = [keep EXCEPT ![w] = k]
          /\ Goto(w, "handle")
          /\ UNCHANGED <<serving, live>>
       \/ Finish(w)
       \/ Exit(w)
    /\ UNCHANGED <<intake, queue, shutdown>>

\* read_request: a request, or the end of the connection: the client hung up or was
\* silent for too long, sent what is answered with 4xx or 5xx, or a panic was caught.
Read(w) ==
    /\ pc[w] = "read"
    /\ \/ /\ \E k \in BOOLEAN : keep' = [keep EXCEPT ![w] = k]
          /\ Goto(w, "handle")
          /\ UNCHANGED <<serving, live>>
       \/ Finish(w)
    /\ UNCHANGED <<intake, queue, shutdown>>

\* Faulty variant: only the client decides how long a connection lives.
HandleKeeps(w) == /\ pc[w] = "handle"
                  /\ Goto(w, "write")
                  /\ UNCHANGED <<keep, intake, queue, serving, live, shutdown>>

\* The handler has returned or panicked (500); the connection is kept for another
\* request unless the server is stopping.
Handle(w) == /\ pc[w] = "handle"
             /\ keep' = [keep EXCEPT ![w] = @ /\ ~stop]
             /\ Goto(w, "write")
             /\ UNCHANGED <<intake, queue, serving, live, shutdown>>

\* write_response, which may fail.
Write(w) == /\ pc[w] = "write"
            /\ \/ keep[w] /\ Goto(w, "read") /\ UNCHANGED <<serving, keep, live>>
               \/ Finish(w)
            /\ UNCHANGED <<intake, queue, shutdown>>

-----------------------------------------------------------------------------
(* The main thread                                                         *)

\* SIGTERM or SIGINT, noticed by main: trigger sets the flag.
Signal == /\ main = "run"
          /\ stop' = TRUE /\ main' = "wake"
          /\ UNCHANGED <<intake, queue, pool, woken, expired>>

\* trigger connects to the listener to get the acceptor out of accept.  That fails
\* where the listener is gone or its queue is full, and may fail for want of a
\* descriptor.
WakeUp == /\ main = "wake"
          /\ \/ /\ acceptor # "gone" /\ Len(backlog) < Backlog
                /\ backlog' = Append(backlog, Wake)
                /\ woken' = TRUE
             \/ UNCHANGED <<backlog, woken>>
          /\ main' = "wait"
          /\ UNCHANGED <<acceptor, hand, queue, pool, stop, expired>>

\* Faulty variant: one wait on the condition variable, which every exit notifies.
DrainedOnce == /\ main = "wait" /\ live < Cardinality(Workers)
               /\ main' = "closed"
               /\ UNCHANGED <<intake, queue, pool, stop, woken, expired>>

\* shutdown returns once no worker is left, and main closes the pool.  The count is
\* read, and its change notified, under one mutex.
Drained == /\ main = "wait" /\ live = 0
           /\ main' = "closed"
           /\ UNCHANGED <<intake, queue, pool, stop, woken, expired>>

\* Or once the grace period is over, abandoning the workers.
GraceOver == /\ main = "wait"
             /\ main' = "closed" /\ expired' = TRUE
             /\ UNCHANGED <<intake, queue, pool, stop, woken>>

-----------------------------------------------------------------------------
Acceptor == Accept \/ Check \/ Send
Worker(w) == Lock(w) \/ Recv(w) \/ Read(w) \/ Handle(w) \/ Write(w)

Next == \/ \E c \in Conns : Connect(c)
        \/ Acceptor
        \/ \E w \in Workers : Worker(w)
        \/ Signal \/ WakeUp \/ Drained \/ GraceOver

\* Threads that can run do, reads and writes time out and handlers return.  Nothing
\* is assumed of the clients, nor of the grace period: the server is to end by itself.
Fairness == /\ WF_vars(Acceptor)
            /\ \A w \in Workers : WF_vars(Worker(w))
            /\ WF_vars(WakeUp) /\ WF_vars(Drained)

Spec == Init /\ [][Next]_vars /\ Fairness

-----------------------------------------------------------------------------
(* Properties                                                              *)

\* The shape of the state; the channel keeps to its bound.
TypeOK == /\ backlog \in Seq(Conns \cup {Wake})
          /\ acceptor \in {"accept", "check", "send", "gone"}
          /\ hand \in Conns \cup {Wake, None}
          /\ queue \in Seq(Conns) /\ Len(queue) <= Cap
          /\ pc \in [Workers -> {"lock", "recv", "read", "handle", "write", "exited"}]
          /\ serving \in [Workers -> Conns \cup {None}]
          /\ keep \in [Workers -> BOOLEAN]
          /\ live \in 0..Cardinality(Workers)
          /\ stop \in BOOLEAN /\ woken \in BOOLEAN /\ expired \in BOOLEAN
          /\ main \in {"run", "wake", "wait", "closed"}

\* No panic and no connection costs the server a worker: one leaves only when the
\* server is stopping and everything that was accepted has found a worker.
WorkersSurvive == \A w \in Workers : pc[w] = "exited" =>
                     stop /\ acceptor = "gone" /\ queue = <<>>

\* Within the grace period the pool is not closed under a request: by then every
\* connection that was accepted has been served to its end.
ServedBeforeClose == main = "closed" /\ ~expired =>
                        /\ hand = None /\ queue = <<>>
                        /\ \A w \in Workers : serving[w] = None

\* Once the acceptor has been woken (or has left), the server ends without the help
\* of the grace period, though clients send one request after another on connections
\* that they never close.
ShutdownEnds == stop /\ (woken \/ acceptor = "gone") ~> main = "closed"
=============================================================================
