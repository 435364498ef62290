----------------------------- MODULE ServerProofs -----------------------------
(***************************************************************************)
(* Proofs about the server: HttpServer, for any number of workers and      *)
(* connections and any lengths of the two queues; the time Connection      *)
(* takes, for any client and any timeouts; what the handlers of Service    *)
(* store, for any clients, tokens, bodies and databases; and that the      *)
(* requests that come out of a connection are those that a client meant.   *)
(*                                                                         *)
(* That nothing is left behind when the count of live workers is zero      *)
(* needs to know that the count is right (Count), that a worker leaves     *)
(* only behind the acceptor (WorkersSurvive) and that the acceptor leaves  *)
(* with empty hands (Intake).  That a write is earned needs to know that   *)
(* the lines of a head are those that came (Carried), and that the state   *)
(* of the server is one it starts with; the rest is one lemma for each     *)
(* table and one for each handler.  That requests arrive as they were      *)
(* meant needs to know, in every stage, how much of the message under way  *)
(* has been consumed and what has been kept of it (Place); the messages    *)
(* before it are the requests handled (Told).  The induction over the      *)
(* messages is one over a set of numbers (Induction).                      *)
(***************************************************************************)
EXTENDS HttpServer, Service, SequenceTheorems, FiniteSetTheorems, WellFoundedInduction, TLAPS

Labels == {"lock", "recv", "read", "handle", "write", "exited"}
Busy == {"read", "handle", "write"}
Remaining == {w \in Workers : pc[w] # "exited"}

Intake == /\ acceptor = "send" => hand \in Conns
          /\ acceptor \in {"accept", "gone"} => hand = None
          /\ acceptor = "gone" => stop
          /\ ~stop => backlog \in Seq(Conns) /\ hand # Wake

Phase == main = "run" <=> ~stop

Idle == \A w \in Workers : serving[w] # None => pc[w] \in Busy

Count == live = Cardinality(Remaining)

Settled == main = "closed" /\ ~expired => live = 0

IInv == TypeOK /\ Intake /\ Phase /\ Idle /\ Count /\ WorkersSurvive /\ Settled

LEMMA InitInv == Init => IInv
<1> SUFFICES ASSUME Init PROVE IInv OBVIOUS
<1> USE DEF Init
<1>1. Remaining = Workers BY DEF Remaining
<1>2. Cardinality(Workers) \in Nat BY FS_CardinalityType, ServerAssumption
<1>3. backlog \in Seq(Conns) /\ backlog \in Seq(Conns \cup {Wake}) /\ queue \in Seq(Conns)
  BY EmptySeq
<1>4. Len(queue) <= Cap BY EmptySeq, ServerAssumption
<1>5. live \in 0..Cardinality(Workers)
  <2>1. \A n \in Nat : n \in 0..n OBVIOUS
  <2> QED BY <1>2, <2>1
<1>6. TypeOK BY <1>3, <1>4, <1>5 DEF TypeOK
<1>7. Intake /\ Phase /\ Idle /\ WorkersSurvive /\ Settled
  BY <1>3, ServerAssumption DEF Intake, Phase, Idle, WorkersSurvive, Settled
<1>8. Count BY <1>1 DEF Count
<1> QED BY <1>6, <1>7, <1>8 DEF IInv
-----------------------------------------------------------------------------
(* Steps that leave the workers alone                                      *)

\* The invariants about workers depend on the workers, the queue's emptiness behind
\* the acceptor, and the flag.
LEMMA Elsewhere ==
  ASSUME IInv, UNCHANGED pool, stop => stop',
         acceptor = "gone" => acceptor' = "gone" /\ queue' = queue
  PROVE  (Idle /\ Count /\ WorkersSurvive)'
<1>1. UNCHANGED <<pc, serving, keep, live>> BY DEF pool
<1> QED BY <1>1 DEF IInv, Idle, Count, Remaining, WorkersSurvive

LEMMA ConnectKeeps == ASSUME IInv, NEW c \in Conns, Connect(c) PROVE IInv'
<1>1. /\ acceptor # "gone" /\ backlog' = Append(backlog, c)
      /\ UNCHANGED <<acceptor, hand, queue, pool, stop, main, woken, expired>>
  BY DEF Connect, shutdown
<1>2. (Idle /\ Count /\ WorkersSurvive)' BY <1>1, Elsewhere
<1>3. backlog' \in Seq(Conns \cup {Wake}) BY <1>1, AppendProperties DEF IInv, TypeOK
<1>4. ~stop => backlog' \in Seq(Conns) BY <1>1, AppendProperties DEF IInv, Intake
<1>5. TypeOK' BY <1>1, <1>3 DEF IInv, TypeOK, pool
<1>6. (Intake /\ Phase /\ Settled)'
  BY <1>1, <1>4 DEF IInv, Intake, Phase, Settled, pool
<1> QED BY <1>2, <1>5, <1>6 DEF IInv

LEMMA AcceptKeeps == ASSUME IInv, Accept PROVE IInv'
<1>1. /\ acceptor = "accept" /\ acceptor' = "check" /\ backlog # <<>>
      /\ UNCHANGED <<queue, pool, stop, main, woken, expired>>
  BY DEF Accept, shutdown
<1>2. (Idle /\ Count /\ WorkersSurvive)' BY <1>1, Elsewhere
<1>3. /\ backlog' \in {backlog, Tail(backlog)}
      /\ hand' \in {None, Head(backlog)}
  BY DEF Accept
<1>4. backlog' \in Seq(Conns \cup {Wake}) /\ hand' \in Conns \cup {Wake, None}
  BY <1>1, <1>3, HeadTailProperties DEF IInv, TypeOK
<1>5. ~stop => backlog' \in Seq(Conns) /\ hand' # Wake
  <2>1. SUFFICES ASSUME ~stop PROVE backlog' \in Seq(Conns) /\ hand' # Wake
    OBVIOUS
  <2>2. backlog \in Seq(Conns) BY <2>1 DEF IInv, Intake
  <2>3. Head(backlog) \in Conns /\ Tail(backlog) \in Seq(Conns)
    BY <1>1, <2>2, HeadTailProperties
  <2> QED BY <1>3, <2>2, <2>3, ServerAssumption
<1>6. TypeOK' BY <1>1, <1>4 DEF IInv, TypeOK, pool
<1>7. (Intake /\ Phase /\ Settled)'
  BY <1>1, <1>5 DEF IInv, Intake, Phase, Settled, pool
<1> QED BY <1>2, <1>6, <1>7 DEF IInv

LEMMA CheckKeeps == ASSUME IInv, Check PROVE IInv'
<1>1. acceptor = "check" /\ UNCHANGED <<queue, pool, stop, main, woken, expired>>
  BY DEF Check, shutdown
<1>2. (Idle /\ Count /\ WorkersSurvive)' BY <1>1, Elsewhere
<1>3. CASE stop /\ Leave
  <2>1. backlog' \in Seq(Conns) /\ backlog' \in Seq(Conns \cup {Wake})
    BY <1>3, EmptySeq DEF Leave
  <2>2. TypeOK' BY <1>1, <1>3, <2>1 DEF IInv, TypeOK, Leave, pool
  <2>3. (Intake /\ Phase /\ Settled)'
    BY <1>1, <1>3, <2>1 DEF IInv, Intake, Phase, Settled, Leave, pool
  <2> QED BY <1>2, <2>2, <2>3 DEF IInv
<1>4. CASE ~stop /\ acceptor' = (IF hand = None THEN "accept" ELSE "send")
           /\ UNCHANGED <<hand, backlog>>
  <2>1. hand \in Conns \cup {None} BY <1>4 DEF IInv, TypeOK, Intake
  <2>2. TypeOK' BY <1>1, <1>4 DEF IInv, TypeOK, pool
  <2>3. (Intake /\ Phase /\ Settled)'
    BY <1>1, <1>4, <2>1 DEF IInv, Intake, Phase, Settled, pool
  <2> QED BY <1>2, <2>2, <2>3 DEF IInv
<1> QED BY <1>3, <1>4 DEF Check

LEMMA SendKeeps == ASSUME IInv, Send PROVE IInv'
<1>1. /\ acceptor = "send" /\ acceptor' = "accept" /\ hand' = None
      /\ UNCHANGED <<backlog, pool, stop, main, woken, expired>>
  BY DEF Send, shutdown
<1>2. (Idle /\ Count /\ WorkersSurvive)' BY <1>1, Elsewhere
<1>3. queue' \in Seq(Conns) /\ Len(queue') <= Cap
  <2>1. queue \in Seq(Conns) /\ Len(queue) \in Nat /\ hand \in Conns /\ Len(queue) <= Cap
    BY <1>1, LenProperties DEF IInv, TypeOK, Intake
  <2>2. CASE Len(queue) < Cap /\ queue' = Append(queue, hand)
    BY <2>1, <2>2, AppendProperties, ServerAssumption
  <2>3. CASE UNCHANGED queue BY <2>1, <2>3
  <2> QED BY <2>2, <2>3 DEF Send
<1>4. TypeOK' BY <1>1, <1>3 DEF IInv, TypeOK, pool
<1>5. (Intake /\ Phase /\ Settled)'
  BY <1>1, ServerAssumption DEF IInv, Intake, Phase, Settled, pool
<1> QED BY <1>2, <1>4, <1>5 DEF IInv

LEMMA MainKeeps ==
  ASSUME IInv, Signal \/ WakeUp \/ Drained \/ GraceOver PROVE IInv'
<1>1. UNCHANGED <<acceptor, hand, queue, pool>> /\ (stop => stop')
  BY DEF Signal, WakeUp, Drained, GraceOver, intake
<1>2. (Idle /\ Count /\ WorkersSurvive)' BY <1>1, Elsewhere
<1>3. UNCHANGED backlog \/ backlog' = Append(backlog, Wake)
  BY DEF Signal, WakeUp, Drained, GraceOver, intake
<1>4. backlog' \in Seq(Conns \cup {Wake})
  <2>1. backlog \in Seq(Conns \cup {Wake}) /\ Wake \in Conns \cup {Wake}
    BY DEF IInv, TypeOK
  <2>2. Append(backlog, Wake) \in Seq(Conns \cup {Wake})
    BY <2>1, AppendProperties, Zenon
  <2> QED BY <1>3, <2>1, <2>2
<1>5. stop' \/ UNCHANGED <<backlog, stop>>
  BY DEF Signal, WakeUp, Drained, GraceOver, intake, IInv, Phase
<1>6. TypeOK'
  BY <1>1, <1>4 DEF IInv, TypeOK, pool, Signal, WakeUp, Drained, GraceOver
<1>7. Intake' BY <1>1, <1>5 DEF IInv, Intake
<1>8. (Phase /\ Settled)'
  BY <1>1 DEF IInv, Phase, Settled, pool, Signal, WakeUp, Drained, GraceOver
<1> QED BY <1>2, <1>6, <1>7, <1>8 DEF IInv
-----------------------------------------------------------------------------
(* Steps of a worker                                                       *)

\* A worker goes on; at most it takes something out of the queue.
LEMMA GoesOn ==
  ASSUME IInv, NEW w \in Workers, pc[w] # "exited", UNCHANGED <<intake, live, shutdown>>,
         NEW l \in Labels \ {"exited"}, Goto(w, l),
         serving' \in [Workers -> Conns \cup {None}],
         \A v \in Workers \ {w} : serving'[v] = serving[v],
         serving'[w] # None => l \in Busy,
         keep' \in [Workers -> BOOLEAN],
         queue' \in Seq(Conns), Len(queue') <= Cap, queue = <<>> => queue' = <<>>
  PROVE  IInv'
<1>1. /\ pc' \in [Workers -> Labels] /\ pc'[w] = l
      /\ \A v \in Workers \ {w} : pc'[v] = pc[v]
  BY DEF IInv, TypeOK, Goto, Labels
<1>2. UNCHANGED <<backlog, acceptor, hand, live, stop, main, woken, expired>>
  BY DEF intake, shutdown
<1>3. TypeOK' BY <1>1, <1>2 DEF IInv, TypeOK, Labels
<1>4. (Intake /\ Phase /\ Settled)' BY <1>2 DEF IInv, Intake, Phase, Settled
<1>5. Idle' BY <1>1 DEF IInv, Idle
<1>6. Count'
  <2>1. Remaining' = Remaining BY <1>1 DEF Remaining
  <2> QED BY <1>2, <2>1 DEF IInv, Count
<1>7. WorkersSurvive' BY <1>1, <1>2 DEF IInv, WorkersSurvive
<1> QED BY <1>3, <1>4, <1>5, <1>6, <1>7 DEF IInv

\* Or it leaves, which it may do only behind the acceptor and the queue.
LEMMA Exits ==
  ASSUME IInv, NEW w \in Workers, pc[w] # "exited", Exit(w),
         queue = <<>>, acceptor = "gone", UNCHANGED <<intake, queue, shutdown>>
  PROVE  IInv'
<1>1. /\ pc' \in [Workers -> Labels] /\ pc'[w] = "exited"
      /\ \A v \in Workers \ {w} : pc'[v] = pc[v]
  BY DEF IInv, TypeOK, Exit, Goto, Labels
<1>2. UNCHANGED <<backlog, acceptor, hand, queue, keep, stop, main, woken, expired>>
  BY DEF intake, shutdown, Exit
<1>3. /\ serving' \in [Workers -> Conns \cup {None}] /\ serving'[w] = None
      /\ \A v \in Workers \ {w} : serving'[v] = serving[v]
  BY DEF IInv, TypeOK, Exit
<1>4. IsFiniteSet(Remaining) /\ Cardinality(Remaining) \in Nat
  BY FS_Subset, FS_CardinalityType, ServerAssumption DEF Remaining
<1>5. Remaining' = Remaining \ {w} /\ w \in Remaining BY <1>1 DEF Remaining
<1>6. Count' /\ live \in Nat \ {0}
  <2>1. Cardinality(Remaining \ {w}) = Cardinality(Remaining) - 1
    BY <1>4, <1>5, FS_RemoveElement
  <2>2. Cardinality(Remaining) # 0 BY <1>4, <1>5, FS_EmptySet
  <2> QED BY <1>4, <1>5, <2>1, <2>2 DEF IInv, Count, Exit
<1>7. Cardinality(Workers) \in Nat BY FS_CardinalityType, ServerAssumption
<1>8. TypeOK' BY <1>1, <1>2, <1>3, <1>6, <1>7 DEF IInv, TypeOK, Exit, Labels
<1>9. (Intake /\ Phase /\ WorkersSurvive)'
  BY <1>1, <1>2 DEF IInv, Intake, Phase, WorkersSurvive
<1>10. Settled' BY <1>2, <1>6 DEF IInv, Settled
<1>11. Idle' BY <1>1, <1>3 DEF IInv, Idle
<1> QED BY <1>6, <1>8, <1>9, <1>10, <1>11 DEF IInv

LEMMA WorkerKeeps == ASSUME IInv, NEW w \in Workers, Worker(w) PROVE IInv'
<1>1. /\ serving \in [Workers -> Conns \cup {None}] /\ keep \in [Workers -> BOOLEAN]
      /\ queue \in Seq(Conns) /\ Len(queue) <= Cap
      /\ pc[w] \in {"lock", "recv"} => serving[w] = None
  BY DEF IInv, TypeOK, Idle, Busy
<1> USE DEF Labels, Busy
<1>2. CASE Lock(w)
  BY <1>1, <1>2, GoesOn DEF Lock, intake
<1>3. CASE Recv(w)
  <2>1. CASE queue = <<>>
    BY <1>3, <2>1, Exits DEF Recv
  <2>2. CASE queue # <<>>
    <3>1. /\ Head(queue) \in Conns /\ Tail(queue) \in Seq(Conns)
          /\ Len(Tail(queue)) <= Cap
      BY <1>1, <2>2, HeadTailProperties, LenProperties, ServerAssumption
    <3>2. /\ serving' \in [Workers -> Conns \cup {None}]
          /\ \A v \in Workers \ {w} : serving'[v] = serving[v]
      BY <1>1, <1>3, <2>2, <3>1 DEF Recv
    <3> QED BY <1>1, <1>3, <2>2, <3>1, <3>2, GoesOn DEF Recv
  <2> QED BY <2>1, <2>2
<1>4. ASSUME pc[w] # "exited", Finish(w), UNCHANGED <<intake, queue, shutdown>>
      PROVE  IInv'
  <2>1. /\ serving' \in [Workers -> Conns \cup {None}] /\ serving'[w] = None
        /\ \A v \in Workers \ {w} : serving'[v] = serving[v]
    BY <1>1, <1>4 DEF Finish
  <2> QED BY <1>1, <1>4, <2>1, GoesOn DEF Finish
<1>5. CASE Read(w)
  <2>1. CASE \E k \in BOOLEAN : keep' = [keep EXCEPT ![w] = k]
             /\ Goto(w, "handle") /\ UNCHANGED <<serving, live>>
    <3>1. keep' \in [Workers -> BOOLEAN] BY <1>1, <2>1
    <3> QED BY <1>1, <1>5, <2>1, <3>1, GoesOn DEF Read
  <2>2. CASE Finish(w) BY <1>4, <1>5, <2>2 DEF Read
  <2> QED BY <1>5, <2>1, <2>2 DEF Read
<1>6. CASE Handle(w)
  <2>1. keep' \in [Workers -> BOOLEAN] BY <1>1, <1>6 DEF Handle, IInv, TypeOK
  <2> QED BY <1>1, <1>6, <2>1, GoesOn DEF Handle, intake
<1>7. CASE Write(w)
  <2>1. CASE Goto(w, "read") /\ UNCHANGED <<serving, keep, live>>
    BY <1>1, <1>7, <2>1, GoesOn DEF Write
  <2>2. CASE Finish(w) BY <1>4, <1>7, <2>2 DEF Write
  <2> QED BY <1>7, <2>1, <2>2 DEF Write
<1> QED BY <1>2, <1>3, <1>5, <1>6, <1>7 DEF Worker
-----------------------------------------------------------------------------
(* What the server promises                                                *)

LEMMA Inductive == Spec => []IInv
<1>1. IInv /\ [Next]_vars => IInv'
  <2>1. ASSUME IInv, Next PROVE IInv'
    BY <2>1, ConnectKeeps, AcceptKeeps, CheckKeeps, SendKeeps, MainKeeps, WorkerKeeps
    DEF Next, Acceptor
  <2>2. ASSUME IInv, UNCHANGED vars PROVE IInv'
    BY <2>2 DEF vars, intake, pool, shutdown, IInv, TypeOK, Intake, Phase, Idle, Count,
                Remaining, WorkersSurvive, Settled
  <2> QED BY <2>1, <2>2
<1> QED BY InitInv, <1>1, PTL DEF Spec

\* The state keeps its shape, the channel its bound, and the count its range.
THEOREM TypeCorrect == Spec => []TypeOK
<1>1. IInv => TypeOK BY DEF IInv
<1> QED BY Inductive, <1>1, PTL

\* No worker is lost before the server stops and its queue is drained.
THEOREM NoWorkerLost == Spec => []WorkersSurvive
<1>1. IInv => WorkersSurvive BY DEF IInv
<1> QED BY Inductive, <1>1, PTL

\* Within the grace period the pool is closed only when all that was accepted has
\* been served.
THEOREM PoolOutlivesRequests == Spec => []ServedBeforeClose
<1>1. IInv => ServedBeforeClose
  <2> SUFFICES ASSUME IInv, main = "closed", ~expired
               PROVE  hand = None /\ queue = <<>> /\ \A w \in Workers : serving[w] = None
    BY DEF ServedBeforeClose
  <2>1. Cardinality(Remaining) = 0 BY DEF IInv, Settled, Count
  <2>2. IsFiniteSet(Remaining) BY FS_Subset, ServerAssumption DEF Remaining
  <2>3. \A w \in Workers : pc[w] = "exited"
    BY <2>1, <2>2, FS_EmptySet DEF Remaining
  <2>4. acceptor = "gone" /\ queue = <<>>
    BY <2>3, ServerAssumption DEF IInv, WorkersSurvive
  <2>5. hand = None BY <2>4 DEF IInv, Intake
  <2>6. \A w \in Workers : serving[w] = None BY <2>3 DEF IInv, Idle, Busy
  <2> QED BY <2>4, <2>5, <2>6
<1> QED BY Inductive, <1>1, PTL

-----------------------------------------------------------------------------
(* One connection and its time                                             *)

\* The time a request may take, with a timeout for its lines and one more for
\* each byte of its body.
Room == RequestTimeout * (Len(body) + 1)

\* A byte of the body has come, but has not been read.
Ahead == stage = "data" /\ need > 0 /\ pos < sent

\* The deadline is kept while lines are read: what has been spent and what is
\* left make a request's time, and no read waits for longer.  A body draws on
\* one more timeout for each byte.
Budgeted ==
    /\ armed <= RequestTimeout
    /\ left > 0 \/ stage = "head" => spent + left <= RequestTimeout
    /\ stage # "data" => wait <= left
    /\ spent <= Room
    /\ spent + wait <= IF Ahead THEN Room + RequestTimeout ELSE Room

TimeInv == /\ <<sent, pos>> \in Nat \X Nat
           /\ <<left, armed, wait, spent>> \in Nat \X Nat \X Nat \X Nat
           /\ \E S : body \in Seq(S)
           /\ stage = "first" => spent = 0
           /\ stage \notin {"first", "closed"} => Budgeted

LEMMA Limits == /\ RequestTimeout \in Nat /\ RequestTimeout > 0
                /\ IdleTimeout \in Nat /\ ReadTimeout \in Nat
BY ConnectionAssumption

LEMMA Least == ASSUME NEW x \in Nat, NEW y \in Nat
               PROVE  Min({x, y}) \in Nat /\ Min({x, y}) <= x
<1>1. CASE x <= y
  <2>1. x \in {x, y} /\ \A z \in {x, y} : x <= z
    BY <1>1
  <2> QED BY <2>1 DEF Min
<1>2. CASE ~(x <= y)
  <2>1. y \in {x, y} /\ \A z \in {x, y} : y <= z
    BY <1>2
  <2> QED BY <2>1 DEF Min
<1> QED BY <1>1, <1>2

LEMMA Most == ASSUME NEW x \in Nat PROVE Max({x - 1, 0}) = IF x > 0 THEN x - 1 ELSE 0
<1>1. CASE x > 0
  <2>1. x - 1 \in {x - 1, 0} /\ \A z \in {x - 1, 0} : x - 1 >= z
    BY <1>1
  <2> QED BY <1>1, <2>1 DEF Max
<1>2. CASE ~(x > 0)
  <2>1. 0 \in {x - 1, 0} /\ \A z \in {x - 1, 0} : 0 >= z
    BY <1>2
  <2> QED BY <1>2, <2>1 DEF Max
<1> QED BY <1>1, <1>2

LEMMA Arming == ASSUME NEW l \in Nat, Arm(l)
                PROVE  /\ left' = l /\ <<left', armed', wait'>> \in Nat \X Nat \X Nat
                       /\ armed' <= l /\ wait' <= l
BY Least, Limits DEF Arm

LEMMA Appended == ASSUME NEW S, NEW s \in Seq(S), NEW x
                  PROVE  /\ Append(s, x) \in Seq(S \cup {x})
                         /\ Len(s) \in Nat /\ Len(Append(s, x)) = Len(s) + 1
<1>1. s \in Seq(S \cup {x}) /\ x \in S \cup {x}
  OBVIOUS
<1> QED BY <1>1, AppendProperties

LEMMA Rooms == ASSUME TimeInv PROVE Room \in Nat /\ Room >= RequestTimeout
<1>1. Len(body) \in Nat
  BY DEF TimeInv
<1> QED BY <1>1, Limits DEF Room

\* The lines of a request, one after another: the deadline stays.
LEMMA ReadOn ==
  ASSUME TimeInv, stage \notin {"first", "closed"}, Arm(left), ~Ahead, body' = body,
         spent' = spent, sent' = sent, pos' \in Nat, stage' # "first",
         stage' = "head" => stage = "head"
  PROVE  TimeInv'
<1>1. /\ left' = left /\ <<left', armed', wait'>> \in Nat \X Nat \X Nat
      /\ armed' <= left /\ wait' <= left
  BY Arming DEF TimeInv
<1>2. Room' = Room /\ Room \in Nat /\ Room >= RequestTimeout
  BY Rooms DEF Room
<1>3. Budgeted /\ <<left, wait, spent>> \in Nat \X Nat \X Nat
  BY DEF TimeInv
<1>4. /\ left > 0 => spent + left <= RequestTimeout
      /\ spent <= Room /\ armed <= RequestTimeout
  BY <1>3 DEF Budgeted
<1>5. armed' <= RequestTimeout
  BY <1>1, <1>3, <1>4, Limits
<1>6. left' > 0 \/ stage' = "head" => spent' + left' <= RequestTimeout
  BY <1>1, <1>3 DEF Budgeted
<1>7. spent' + wait' <= Room
  BY <1>1, <1>2, <1>3, <1>4, Limits
<1>8. spent' + wait' <= Room + RequestTimeout
  BY <1>1, <1>2, <1>3, <1>7, Limits
<1>9. Budgeted'
  BY <1>1, <1>2, <1>4, <1>5, <1>6, <1>7, <1>8 DEF Budgeted
<1> QED BY <1>1, <1>9 DEF TimeInv

\* Between requests, and after the last, no time is counted.
LEMMA Rests ==
  ASSUME TimeInv, stage' \in {"first", "closed"}, stage' = "first" => spent' = 0,
         <<sent', pos'>> \in Nat \X Nat,
         <<left', armed', wait', spent'>> \in Nat \X Nat \X Nat \X Nat,
         body' \in {body, <<>>}
  PROVE  TimeInv'
<1>1. \E S : body' \in Seq(S)
  <2>1. <<>> \in Seq({})
    OBVIOUS
  <2> QED BY <2>1 DEF TimeInv
<1> QED BY <1>1 DEF TimeInv

LEMMA RefuseKeeps ==
  ASSUME TimeInv, Close \/ \E status : Refuse(status), sent' = sent PROVE TimeInv'
<1>1. stage' = "closed" /\ pos' = pos /\ body' = body /\ UNCHANGED timers
  BY DEF Close, Refuse, request
<1> QED BY <1>1, Rests DEF timers, TimeInv

\* What happens to a connection while its request is the same.
LEMMA StillKeeps ==
  ASSUME TimeInv, UNCHANGED <<pos, stage, timers, body, need>>, sent' \in Nat, sent' >= sent
  PROVE  TimeInv'
<1>1. Room' = Room /\ Room \in Nat
  BY Rooms DEF Room
<1>2. UNCHANGED <<left, armed, wait, spent>> /\ (Ahead => Ahead')
  BY DEF timers, Ahead, TimeInv
<1>3. Budgeted => Budgeted'
  BY <1>1, <1>2, Limits DEF Budgeted, TimeInv
<1> QED BY <1>2, <1>3 DEF TimeInv

LEMMA ArriveKeeps == ASSUME TimeInv, Arrive PROVE TimeInv'
<1>1. /\ sent' = sent + 1 /\ UNCHANGED <<pos, stage, left, armed, spent, body, need>> /\ ~gone
      /\ wait' = IF stage = "data" /\ Waiting THEN armed ELSE wait
  BY DEF Arrive, request
<1>2. CASE stage = "data" /\ Waiting
  <2>1. pos = sent /\ need > 0 /\ ~Ahead /\ Ahead'
    BY <1>1, <1>2 DEF Waiting, Ahead, TimeInv
  <2>2. Room' = Room /\ Room \in Nat
    BY <1>1, Rooms DEF Room
  <2>3. Budgeted'
    BY <1>1, <1>2, <2>1, <2>2, Limits DEF Budgeted, TimeInv
  <2> QED BY <1>1, <1>2, <2>3 DEF TimeInv
<1>3. CASE ~(stage = "data" /\ Waiting)
  BY <1>1, <1>3, StillKeeps DEF timers, TimeInv
<1> QED BY <1>2, <1>3

LEMMA TickKeeps == ASSUME TimeInv, Tick PROVE TimeInv'
<1>1. /\ UNCHANGED <<sent, pos, stage, armed, body, need>> /\ pos = sent /\ wait > 0
      /\ wait' = wait - 1 /\ left' = Max({left - 1, 0})
      /\ spent' = IF stage = "first" THEN 0 ELSE spent + 1
      /\ stage \in {"first", "head", "size", "data", "crlf", "trailer"}
  BY DEF Tick, Waiting, wireVars, request
<1>2. left' = IF left > 0 THEN left - 1 ELSE 0
  BY <1>1, Most DEF TimeInv
<1>3. CASE stage = "first"
  BY <1>1, <1>2, <1>3, Rests DEF TimeInv
<1>4. CASE stage # "first"
  <2>1. Room' = Room /\ Room \in Nat /\ ~Ahead /\ ~Ahead'
    BY <1>1, Rooms DEF Room, Ahead, TimeInv
  <2>2. Budgeted
    BY <1>1, <1>4 DEF TimeInv
  <2>3. stage # "data" => left > 0
    BY <1>1, <2>2 DEF Budgeted, TimeInv
  <2>4. left > 0 => spent + left <= RequestTimeout
    BY <2>2 DEF Budgeted
  <2>5. spent + wait <= Room
    BY <2>1, <2>2 DEF Budgeted
  <2>6. spent' = spent + 1 /\ <<left, wait, spent>> \in Nat \X Nat \X Nat
    BY <1>1, <1>4 DEF TimeInv
  <2>7. left' > 0 \/ stage' = "head" => spent' + left' <= RequestTimeout
    BY <1>1, <1>2, <2>3, <2>4, <2>6, Limits
  <2>8. stage' # "data" => wait' <= left'
    <3>1. stage # "data" => wait <= left
      BY <2>2 DEF Budgeted
    <3> QED BY <1>1, <1>2, <2>3, <2>6, <3>1
  <2>9. spent' <= Room' /\ spent' + wait' <= Room'
    BY <1>1, <2>1, <2>5, <2>6
  <2>10. armed' <= RequestTimeout
    BY <1>1, <2>2 DEF Budgeted
  <2>11. Budgeted'
    BY <2>1, <2>7, <2>8, <2>9, <2>10 DEF Budgeted
  <2> QED BY <1>1, <1>2, <1>4, <2>6, <2>11 DEF TimeInv
<1> QED BY <1>3, <1>4

LEMMA DripKeeps == ASSUME TimeInv, Drip PROVE TimeInv'
<1>1. /\ UNCHANGED <<sent, pos, stage, body, spent>> /\ Arm(left)
      /\ stage \in {"first", "head", "size", "trailer"}
  BY DEF Drip, wireVars, request
<1>2. CASE stage = "first"
  BY <1>1, <1>2, Arming, Rests DEF TimeInv
<1>3. CASE stage # "first"
  BY <1>1, <1>3, ReadOn DEF Ahead, TimeInv
<1> QED BY <1>2, <1>3

LEMMA ReadFirstKeeps == ASSUME TimeInv, ReadFirst PROVE TimeInv'
<1>1. stage = "first" /\ sent' = sent
  BY DEF ReadFirst, Reads, wireVars
<1>2. CASE \E status : Refuse(status)
  BY <1>1, <1>2, RefuseKeeps
<1>3. CASE Consume /\ Arm(left) /\ UNCHANGED <<stage, body, spent>>
  <2>1. pos' \in Nat
    BY <1>3 DEF Consume, TimeInv
  <2> QED BY <1>1, <1>3, <2>1, Arming, Rests DEF TimeInv
<1>4. CASE Consume /\ stage' = "head" /\ Arm(RequestTimeout) /\ spent' = 0 /\ body' = body
  <2>1. pos' \in Nat
    BY <1>4 DEF Consume, TimeInv
  <2>2. /\ left' = RequestTimeout /\ <<left', armed', wait'>> \in Nat \X Nat \X Nat
        /\ armed' <= RequestTimeout /\ wait' <= RequestTimeout
    BY <1>4, Arming, Limits
  <2>3. Room' = Room /\ Room \in Nat /\ Room >= RequestTimeout /\ ~Ahead'
    BY <1>4, Rooms DEF Room, Ahead
  <2>4. Budgeted'
    BY <1>4, <2>2, <2>3, Limits DEF Budgeted
  <2> QED BY <1>1, <1>4, <2>1, <2>2, <2>4 DEF TimeInv
<1> QED BY <1>2, <1>3, <1>4 DEF ReadFirst

LEMMA LinesKeep == ASSUME TimeInv, ReadField \/ ReadSize \/ ReadCrlf \/ ReadTrailer PROVE TimeInv'
<1>1. stage \in {"head", "size", "crlf", "trailer"} /\ sent' = sent /\ pos + 1 \in Nat
  BY DEF ReadField, ReadSize, ReadCrlf, ReadTrailer, Reads, wireVars, TimeInv
<1>2. CASE \E status : Refuse(status)
  BY <1>1, <1>2, RefuseKeeps
<1>3. CASE ~\E status : Refuse(status)
  <2>1. /\ Arm(left) /\ pos' = pos + 1 /\ UNCHANGED <<body, spent>>
        /\ stage' \in {"head", "size", "data", "trailer", "handle"}
        /\ stage' = "head" => stage = "head"
    BY <1>3 DEF ReadField, ReadSize, ReadCrlf, ReadTrailer, Reads, ReadExact, Consume
  <2> QED BY <1>1, <2>1, ReadOn DEF Ahead
<1> QED BY <1>2, <1>3

LEMMA EndOfHeadKeeps == ASSUME TimeInv, EndOfHead PROVE TimeInv'
<1>1. stage = "head" /\ sent' = sent /\ pos + 1 \in Nat
  <2>1. Reads("head") /\ UNCHANGED wireVars
    BY DEF EndOfHead
  <2>2. pos \in Nat
    BY DEF TimeInv
  <2> QED BY <2>1, <2>2 DEF Reads, wireVars
<1>2. CASE Refuse(431)
  BY <1>1, <1>2, RefuseKeeps
<1>3. CASE ~Refuse(431)
  <2>1. /\ pos' = pos + 1 /\ UNCHANGED <<body, spent>>
        /\ \/ stage' = "closed" /\ UNCHANGED <<left, armed, wait>>
           \/ stage' \in {"size", "handle", "data"} /\ Arm(left)
    BY <1>3 DEF EndOfHead, ReadExact, Consume
  <2>2. CASE stage' = "closed" /\ UNCHANGED <<left, armed, wait>>
    BY <1>1, <2>1, <2>2, Rests DEF TimeInv
  <2>3. CASE stage' \in {"size", "handle", "data"} /\ Arm(left)
    BY <1>1, <2>1, <2>3, ReadOn DEF Ahead
  <2> QED BY <2>1, <2>2, <2>3
<1> QED BY <1>2, <1>3

LEMMA ReadDataKeeps == ASSUME TimeInv, ReadData PROVE TimeInv'
<1>1. /\ stage = "data" /\ Ahead /\ pos' = pos + 1 /\ body' = Append(body, Lexeme)
      /\ UNCHANGED <<sent, stage, left, armed, wait, spent>>
  BY DEF ReadData, Reads, wireVars, timers, Ahead
<1>2. PICK S : body \in Seq(S)
  BY DEF TimeInv
<1>3. body' \in Seq(S \cup {Lexeme}) /\ Len(body') = Len(body) + 1 /\ Len(body) \in Nat
  BY <1>1, <1>2, Appended
<1>4. Room' = Room + RequestTimeout /\ Room \in Nat
  BY <1>3, Rooms, Limits DEF Room
<1>5. Budgeted'
  BY <1>1, <1>4, Limits DEF Budgeted, TimeInv
<1> QED BY <1>1, <1>3, <1>5 DEF TimeInv

LEMMA AnswerKeeps == ASSUME TimeInv, NEW status, Answer(status) PROVE TimeInv'
<1>1. UNCHANGED <<sent, pos>>
  BY DEF Answer, wireVars
<1>2. CASE stage' = "first" /\ body' = <<>> /\ Arm(IdleTimeout) /\ spent' = 0
  BY <1>1, <1>2, Arming, Limits, Rests DEF TimeInv
<1>3. CASE stage' = "closed" /\ UNCHANGED <<request, timers>>
  BY <1>1, <1>3, Rests DEF request, timers, TimeInv
<1> QED BY <1>2, <1>3 DEF Answer

LEMMA TimeInductive == ConnSpec => []TimeInv
<1>1. ConnInit => TimeInv
  <2> SUFFICES ASSUME ConnInit PROVE TimeInv
    OBVIOUS
  <2>1. <<left, armed, wait, spent>> \in Nat \X Nat \X Nat \X Nat /\ spent = 0
    BY Least, Limits DEF ConnInit, AsFirst
  <2>2. body \in Seq({})
    BY DEF ConnInit
  <2> QED BY <2>1, <2>2 DEF ConnInit, TimeInv
<1>2. TimeInv /\ [ConnNext]_connVars => TimeInv'
  <2> SUFFICES ASSUME TimeInv, [ConnNext]_connVars PROVE TimeInv'
    OBVIOUS
  <2>1. CASE Client
    <3>1. CASE HangUp
      BY <3>1, StillKeeps DEF HangUp, request, TimeInv
    <3> QED BY <2>1, <3>1, ArriveKeeps, DripKeeps DEF Client
  <2>2. CASE Shutdown
    BY <2>2, StillKeeps DEF Shutdown, wireVars, request, TimeInv
  <2>3. CASE Reading
    <3>1. CASE DataDone
      <4>1. /\ Arm(left) /\ stage = "data" /\ need = 0 /\ UNCHANGED <<sent, pos, body, spent>>
            /\ stage' \in {"crlf", "handle"}
        BY <3>1 DEF DataDone, ReadExact, wireVars
      <4> QED BY <4>1, ReadOn DEF Ahead, TimeInv
    <3>2. CASE Eof \/ TimedOut
      BY <3>2, RefuseKeeps DEF Eof, TimedOut, wireVars
    <3> QED BY <2>3, <3>1, <3>2, ReadFirstKeeps, LinesKeep, EndOfHeadKeeps, ReadDataKeeps DEF Reading
  <2>4. CASE UNCHANGED connVars
    BY <2>4, StillKeeps DEF connVars, wireVars, request, TimeInv
  <2> QED BY <2>1, <2>2, <2>3, <2>4, TickKeeps, AnswerKeeps DEF ConnNext, ConnStep
<1> QED BY <1>1, <1>2, PTL DEF ConnSpec

\* However a client deals out its bytes, and whatever the handler answers, the head
\* of a request takes no longer than RequestTimeout, and all of it no longer than
\* that for each byte of its body and once more.
THEOREM RequestsAreTimed == ConnSpec => []HeldBriefly
<1>1. TimeInv => HeldBriefly
  <2> SUFFICES ASSUME TimeInv PROVE HeldBriefly
    OBVIOUS
  <2>1. CASE stage = "first"
    BY <2>1, Rooms DEF TimeInv, HeldBriefly, Room
  <2>2. CASE stage = "head"
    BY <2>2, Limits DEF TimeInv, Budgeted, HeldBriefly, Room
  <2>3. CASE stage \notin {"first", "head"}
    BY <2>3 DEF TimeInv, Budgeted, HeldBriefly, Room
  <2> QED BY <2>1, <2>2, <2>3
<1> QED BY <1>1, TimeInductive, PTL

-----------------------------------------------------------------------------
(* The requests and what they may do                                       *)

\* The fields of a request came from the client.
Carried == /\ script \in Scripts /\ wire = Wire(script)
           /\ sent \in 0..Len(wire) /\ pos \in Nat
           /\ fields \in Seq(ToSet(wire))

\* What is stored stays in order.
Sound(d) == Tables(d) /\ SoundRows(d) /\ \A t \in d.tokens : Subject(t) # Nobody

ServInv == Carried /\ config \in Boots(machine) /\ Sound(db)

Good(r, res) == res.status \in Nat /\ Sound(res.db) /\ Earned(r, res.db)

\* A non-empty set of indices has a least one.
LEMMA FirstIn == ASSUME NEW S \in SUBSET Nat, S # {}
                 PROVE  Min(S) \in S /\ \A y \in S : Min(S) <= y
<1>1. PICK x \in S : \A y \in S : ~(<<y, x>> \in OpToRel(<, Nat))
  BY NatLessThanWellFounded, WFMin, Zenon
<1>2. ASSUME NEW y \in S, y < x PROVE FALSE
  <2>1. <<y, x>> \in OpToRel(<, Nat)
    BY <1>2 DEF OpToRel
  <2> QED BY <1>1, <2>1
<1>3. \A y \in S : x <= y
  BY <1>2
<1> QED BY <1>3 DEF Min

LEMMA InSequence == ASSUME NEW S, NEW s \in Seq(S)
                  PROVE  /\ DOMAIN s = 1..Len(s) /\ Len(s) \in Nat /\ DOMAIN s \subseteq Nat
                         /\ \A i \in DOMAIN s : s[i] \in S /\ s[i] \in ToSet(s)
BY DEF ToSet

\* A header that is there is one of the fields.
LEMMA GetFinds ==
  ASSUME NEW S, NEW fs \in Seq(S), NEW name, NEW none
  PROVE  \/ Get(fs, name, none) = none
         \/ \E i \in DOMAIN fs : /\ fs[i].k = "field" /\ fs[i].name = name
                                 /\ Get(fs, name, none) = fs[i].value
<1> DEFINE found == {i \in DOMAIN fs : fs[i].k = "field" /\ fs[i].name = name}
<1>1. found \in SUBSET Nat
  BY InSequence
<1>2. found # {} => Min(found) \in found
  BY <1>1, FirstIn
<1> QED BY <1>2 DEF Get

\* The token that is taken from a request is in one of its cookies.
LEMMA CookieFinds ==
  ASSUME NEW r, NEW S, r.fields \in Seq(S), NEW name, NEW none,
         \A i \in DOMAIN r.fields :
            r.fields[i].k = "field" /\ r.fields[i].name = "cookie" => IsCookies(r.fields[i].value)
  PROVE  \/ Cookie(r, name, none) = none
         \/ \E i \in DOMAIN r.fields :
               /\ r.fields[i].k = "field" /\ r.fields[i].name = "cookie"
               /\ \E pair \in ToSet(r.fields[i].value) :
                     Len(pair) = 2 /\ pair[1] = name /\ Cookie(r, name, none) = pair[2]
<1> DEFINE pairs == Header(r, "cookie", <<>>)
           found == {i \in DOMAIN pairs : /\ pairs[i][1] = name
                                          /\ \A j \in 1..i : Len(pairs[j]) = 2}
<1>1. Cookie(r, name, none) = IF found = {} THEN none ELSE pairs[Min(found)][2]
  BY DEF Cookie
<1>2. CASE pairs = <<>>
  <2>1. found = {}
    BY <1>2
  <2> QED BY <1>1, <2>1
<1>3. CASE pairs # <<>>
  <2>1. PICK i \in DOMAIN r.fields : /\ r.fields[i].k = "field" /\ r.fields[i].name = "cookie"
                                     /\ pairs = r.fields[i].value
    <3> HIDE DEF found
    <3> QED BY <1>3, GetFinds DEF Header
  <2> HIDE DEF pairs
  <2>2. pairs \in Seq(ToSet(pairs))
    BY <2>1 DEF IsCookies
  <2>3. found \in SUBSET Nat
    BY <2>2, InSequence
  <2>4. CASE found # {}
    <3>1. Min(found) \in found
      BY <2>3, <2>4, FirstIn
    <3>2. Min(found) \in DOMAIN pairs /\ pairs[Min(found)][1] = name /\ Len(pairs[Min(found)]) = 2
      <4>1. \A m \in found : m \in DOMAIN pairs /\ pairs[m][1] = name /\ Len(pairs[m]) = 2
        BY <2>2, InSequence
      <4> HIDE DEF found
      <4> QED BY <3>1, <4>1
    <3>3. pairs[Min(found)] \in ToSet(pairs)
      BY <2>2, <3>2, InSequence
    <3> HIDE DEF found
    <3> QED BY <1>1, <2>1, <2>4, <3>2, <3>3
  <2> QED BY <1>1, <2>4
<1> QED BY <1>2, <1>3

LEMMA ServiceLimits == /\ {Now, TokenLife, MaxSafe, Tolerance, MaxBooking, MaxPrice, Wide} \subseteq Nat
                   /\ Now + TokenLife < MaxSafe /\ MaxBooking > 0
BY LimitsAssumption

\* A token that is live is without an end, or ends later.
LEMMA LiveUntil ==
  ASSUME NEW exp, J!IsValue(exp), Live(exp)
  PROVE  exp \in {J!Null, J!Num(0)} \cup {J!Num(2 * e) : e \in Now..(MaxSafe - 1)}
<1>1. CASE exp.t \in {"none", "null"}
  BY <1>1 DEF J!IsValue, J!Bool, J!Num, J!Str, J!Arr, J!Obj, J!Null
<1>2. CASE exp.t \notin {"none", "null"}
  <2>1. /\ exp.t = "num" /\ exp.n \in Int /\ exp.n % 2 = 0 /\ exp.n < 2 * MaxSafe
        /\ exp.n = 0 \/ Now <= exp.n \div 2
    BY <1>2 DEF Live, J!Finite
  <2>2. exp = J!Num(exp.n)
    BY <2>1 DEF J!IsValue, J!Bool, J!Str, J!Arr, J!Obj, J!Null
  <2>3. exp.n = 0 \/ (exp.n \div 2 \in Now..(MaxSafe - 1) /\ exp.n = 2 * (exp.n \div 2))
    BY <2>1, ServiceLimits
  <2> QED BY <2>2, <2>3
<1> QED BY <1>1, <1>2

\* In a server that has started, the secret is a good one.
LEMMA Secret == ASSUME config \in Boots(machine), machine.prod
                PROVE  config.jwt \notin {"short", "template"}
<1>1. PICK env : Starts(machine, env) /\ config = AppState(machine, env)
  BY DEF Boots
<1> QED BY <1>1 DEF AppState, Starts, GoodSecret

\* Whom a request speaks for is said by a token in one of its cookies.
LEMMA BearerShows ==
  ASSUME ServInv, NEW r, r.fields = fields, Bearer(r) # Nobody
  PROVE  \E i \in DOMAIN r.fields :
          /\ r.fields[i].k = "field" /\ r.fields[i].name = "cookie"
          /\ \E pair \in ToSet(r.fields[i].value) :
                /\ Len(pair) = 2 /\ pair[1] = "token"
                /\ pair[2].sig = Signature(config.jwt, pair[2].claims)
                /\ pair[2].claims.o["userID"].s = Bearer(r)
                /\ "exp" \in DOMAIN pair[2].claims.o =>
                      pair[2].claims.o["exp"] \in {J!Null, J!Num(0)}
                         \cup {J!Num(2 * e) : e \in Now..(MaxSafe - 1)}
<1> DEFINE jwt == Cookie(r, "token", NoJwt)
<1>1. /\ jwt.parts = 3 /\ jwt.sig = Signature(config.jwt, jwt.claims)
      /\ J!HasStr(jwt.claims, "userID") /\ Live(J!Get(jwt.claims, "exp"))
      /\ Bearer(r) = J!GetStr(jwt.claims, "userID")
  BY DEF Bearer, Subject
<1>2. \A i \in DOMAIN r.fields :
            r.fields[i].k = "field" /\ r.fields[i].name = "cookie" => IsCookies(r.fields[i].value)
  <2>1. \A i \in DOMAIN r.fields : r.fields[i] \in ToSet(Wire(script))
    BY InSequence DEF ServInv, Carried
  <2> QED BY <2>1, ClientsAssumption DEF ServInv, Carried
<1>3. jwt # NoJwt
  <2>1. NoJwt.parts = 0
    BY DEF NoJwt
  <2> QED BY <1>1, <2>1
<1>4. PICK i \in DOMAIN r.fields :
               /\ r.fields[i].k = "field" /\ r.fields[i].name = "cookie"
               /\ \E pair \in ToSet(r.fields[i].value) :
                     Len(pair) = 2 /\ pair[1] = "token" /\ jwt = pair[2]
  <2>1. r.fields \in Seq(ToSet(wire))
    BY DEF ServInv, Carried
  <2> QED BY <1>2, <1>3, <2>1, CookieFinds
<1> HIDE DEF jwt
<1>5. PICK pair \in ToSet(r.fields[i].value) : Len(pair) = 2 /\ pair[1] = "token" /\ jwt = pair[2]
  BY <1>4
<1>6. IsClaims(jwt.claims)
  BY <1>2, <1>4, <1>5 DEF IsCookies
<1>7. /\ jwt.claims = J!Obj(jwt.claims.o) /\ "userID" \in DOMAIN jwt.claims.o
      /\ \A key \in DOMAIN jwt.claims.o : J!IsValue(jwt.claims.o[key])
  BY <1>1, <1>6 DEF IsClaims, J!HasStr, J!Get, J!NoValue, J!Obj
<1>8. jwt.claims.o["userID"].s = Bearer(r)
  <2>1. jwt.claims.t = "obj"
    BY <1>7 DEF J!Obj
  <2>2. J!Get(jwt.claims, "userID") = jwt.claims.o["userID"]
    BY <1>7, <2>1 DEF J!Get
  <2> QED BY <1>1, <2>2 DEF J!HasStr, J!GetStr
<1>9. "exp" \in DOMAIN jwt.claims.o =>
          jwt.claims.o["exp"] \in {J!Null, J!Num(0)} \cup {J!Num(2 * e) : e \in Now..(MaxSafe - 1)}
  <2>1. SUFFICES ASSUME "exp" \in DOMAIN jwt.claims.o
                 PROVE jwt.claims.o["exp"] \in {J!Null, J!Num(0)}
                         \cup {J!Num(2 * e) : e \in Now..(MaxSafe - 1)}
    OBVIOUS
  <2>2. Live(jwt.claims.o["exp"])
    BY <1>1, <1>7, <2>1 DEF J!Get, J!Obj
  <2> QED BY <1>7, <2>1, <2>2, LiveUntil
<1> QED BY <1>1, <1>4, <1>5, <1>8, <1>9

LEMMA SameSound == ASSUME ServInv PROVE Sound(db) /\ \A r : Earned(r, db)
BY DEF ServInv, Earned, Named, Billed, Booked, Untouched, Placed, Heard

LEMMA Statuses == ASSUME ServInv, NEW r, NEW status \in Nat
                  PROVE  Good(r, Plain(status))
BY SameSound DEF Good, Plain, Result

LEMMA StoredGood == ASSUME NEW r, NEW status \in Nat, NEW d, Sound(d), Earned(r, d)
                    PROVE  Good(r, Stored(status, d))
BY DEF Good, Stored, Result

\* What a handler does to the database beyond the guards, if anything.
AllGood(r, results) == \A res \in results : Good(r, res)

LEMMA OrFailsGood == ASSUME ServInv, NEW r, NEW results, AllGood(r, results)
                     PROVE  AllGood(r, OrFails(results))
BY Statuses DEF AllGood, OrFails

LEMMA PlainGood == ASSUME ServInv, NEW r, NEW status \in Nat PROVE AllGood(r, {Plain(status)})
BY Statuses DEF AllGood

Asked(r) == config.jwt # "" /\ Bearer(r) # Nobody

LEMMA AuthedGood ==
  ASSUME ServInv, NEW r, NEW results, Asked(r) => AllGood(r, results)
  PROVE  AllGood(r, Authed(r, results))
<1>1. AllGood(r, {Plain(503)}) /\ AllGood(r, {Plain(401)})
  BY PlainGood
<1>2. CASE Asked(r)
  BY <1>2 DEF Authed, Asked
<1>3. CASE ~Asked(r)
  BY <1>1, <1>3 DEF Authed, Asked
<1> QED BY <1>2, <1>3

\* A handler that asks for both tokens acts for a user who has shown them.
LEMMA Gate ==
  ASSUME ServInv, NEW r, r.fields = fields, NEW results,
         By(r, Bearer(r)) => AllGood(r, results)
  PROVE  AllGood(r, AuthedMutate(r, results))
<1> DEFINE u == Bearer(r)
           shown == Header(r, "x-csrf-token", Nobody)
           verdict == CsrfVerdict(shown, Kept(u))
           inner == CASE verdict = "passed" -> results
                      [] verdict = "refused" -> {Plain(403)}
                      [] OTHER -> {Result(403, Put(csrf, u, t), db) : t \in {Minted, NoToken}}
<1>1. AuthedMutate(r, results) = Authed(r, inner)
  BY DEF AuthedMutate
<1> HIDE DEF inner
<1>2. SUFFICES ASSUME config.jwt # "", u # Nobody PROVE AllGood(r, inner)
  BY <1>1, AuthedGood DEF Asked
<1> USE DEF inner
<1>3. verdict \in {"passed", "refused", "lost"}
  BY DEF CsrfVerdict
<1>4. CASE verdict = "passed"
  <2>1. /\ Kept(u) # NoToken /\ shown = Kept(u).token /\ Kept(u).fresh
    BY <1>4 DEF CsrfVerdict
  <2>2. u \in DOMAIN csrf /\ Kept(u) = csrf[u]
    BY <2>1 DEF Kept
  <2>3. machine.prod => config.jwt \notin {"short", "template"}
    BY Secret DEF ServInv
  <2>4. Header(r, "x-csrf-token", "") = csrf[u].token /\ csrf[u].fresh
    BY <2>1, <2>2 DEF Nobody
  <2>5. Proven(r, u)
    BY <1>2, <2>3, <2>4, BearerShows DEF Proven
  <2>6. AllGood(r, results)
    BY <2>2, <2>5 DEF By
  <2> QED BY <1>4, <2>6
<1>5. CASE verdict = "refused"
  BY <1>5, PlainGood
<1>6. CASE verdict = "lost"
  <2>1. \A c : Good(r, Result(403, c, db))
    BY SameSound DEF Good, Result
  <2>2. inner = {Result(403, Put(csrf, u, t), db) : t \in {Minted, NoToken}}
    BY <1>6
  <2> QED BY <2>1, <2>2 DEF AllGood
<1> QED BY <1>3, <1>4, <1>5, <1>6

-----------------------------------------------------------------------------
(* Addresses                                                               *)

LEMMA MaxIn == ASSUME NEW S \in SUBSET Nat, S # {}, NEW n \in Nat, \A x \in S : x <= n
               PROVE  Max(S) \in S /\ \A x \in S : x <= Max(S)
<1> DEFINE T == {n - x : x \in S}
<1>1. T \in SUBSET Nat /\ T # {}
  <2>1. \A x \in S : n - x \in Nat
    OBVIOUS
  <2> QED BY <2>1
<1>2. PICK y \in T : \A z \in T : ~(<<z, y>> \in OpToRel(<, Nat))
  <2> HIDE DEF T
  <2> QED BY <1>1, NatLessThanWellFounded, WFMin, Zenon
<1>3. PICK x \in S : y = n - x
  OBVIOUS
<1>4. ASSUME NEW w \in S PROVE w <= x
  <2>1. n - w \in T /\ n - w \in Nat /\ y \in Nat
    BY <1>1
  <2>2. ~(n - w < y)
    BY <1>2, <2>1 DEF OpToRel
  <2> QED BY <1>3, <2>1, <2>2
<1> QED BY <1>3, <1>4 DEF Max

LEMMA Cut == ASSUME NEW S, NEW s \in Seq(S), NEW a \in 1..(Len(s) + 1), NEW b \in 0..Len(s)
             PROVE  /\ SubSeq(s, a, b) \in Seq(S)
                    /\ Len(SubSeq(s, a, b)) = IF a <= b THEN b - a + 1 ELSE 0
                    /\ DOMAIN SubSeq(s, a, b) = 1..Len(SubSeq(s, a, b))
                    /\ \A i \in 1..(b - a + 1) : SubSeq(s, a, b)[i] = s[a + i - 1]
<1>1. a \in Int /\ b \in Int /\ \A i \in a..b : s[i] \in S
  OBVIOUS
<1> QED BY <1>1, SubSeqProperties

LEMMA Edges ==
  ASSUME NEW S, NEW s \in Seq(S), NEW inner, NEW a \in 1..Len(s), NEW b \in 0..Len(s),
         Edged(SubSeq(s, a, b), inner)
  PROVE  /\ a <= b /\ s[a] \in Alnum /\ s[b] \in Alnum
         /\ \A i \in a..b : s[i] \in Alnum \cup inner
<1> DEFINE t == SubSeq(s, a, b)
<1>1. a <= b
  BY DEF Edged
<1>2. t \in Seq(S) /\ Len(t) = b - a + 1 /\ \A j \in 1..(b - a + 1) : t[j] = s[a + j - 1]
  BY <1>1, Cut
<1>3. Head(t) = s[a] /\ Last(t) = s[b]
  BY <1>1, <1>2 DEF Last
<1>4. {Head(t), Last(t)} \subseteq Alnum /\ ToSet(t) \subseteq Alnum \cup inner
  BY DEF Edged
<1>5. ASSUME NEW i \in a..b PROVE s[i] \in Alnum \cup inner
  <2>1. i - a + 1 \in 1..(b - a + 1) /\ i - a + 1 \in DOMAIN t /\ t[i - a + 1] = s[i]
    BY <1>1, <1>2
  <2> QED BY <1>4, <2>1 DEF ToSet
<1> QED BY <1>1, <1>3, <1>4, <1>5

\* What passes validate_email is, in lower case, an address of one spelling.
LEMMA ValidIsAddress ==
  ASSUME NEW S, NEW e \in Seq(S), ValidEmail(e)
  PROVE  IsAddress(Lowered(e))
<1> DEFINE at == Max({0} \cup {i \in DOMAIN e : e[i] = "@"})
           dots == {i \in DOMAIN e : i > at /\ e[i] = "."}
           before(i) == Max({at} \cup {d \in dots : d < i})
           tld == SubSeq(e, before(Len(e) + 1) + 1, Len(e))
           low == Lowered(e)
<1>1. /\ at > 0 /\ dots # {}
      /\ Edged(SubSeq(e, 1, at - 1), {".", "!", "-"})
      /\ \A i \in dots : Edged(SubSeq(e, before(i) + 1, i - 1), {"-"})
      /\ Len(tld) \in 2..MaxTld /\ ToSet(tld) \subseteq Alpha
  BY DEF ValidEmail
<1>2. DOMAIN e = 1..Len(e) /\ Len(e) \in Nat
  OBVIOUS
<1>3. at \in DOMAIN e /\ e[at] = "@" /\ \A i \in DOMAIN e : e[i] = "@" => i <= at
  <2> DEFINE A == {0} \cup {i \in DOMAIN e : e[i] = "@"}
  <2>1. A \in SUBSET Nat /\ A # {} /\ \A x \in A : x <= Len(e)
    BY <1>2
  <2>2. Max(A) \in A /\ \A x \in A : x <= Max(A)
    <3> HIDE DEF A
    <3> QED BY <1>2, <2>1, MaxIn
  <2> QED BY <1>1, <2>2
<1> HIDE DEF at
<1>4. \A i \in dots : i \in DOMAIN e /\ i > at /\ e[i] = "."
  OBVIOUS
<1>5. \A i \in DOMAIN e : i > at /\ e[i] = "." => i \in dots
  OBVIOUS
<1> HIDE DEF dots
\* The place before a label: the "@" or a dot, and none between.
<1>6. ASSUME NEW i \in 1..(Len(e) + 1), i > at
      PROVE  /\ before(i) \in {at} \cup dots /\ before(i) < i /\ before(i) >= at /\ before(i) \in Nat
             /\ \A d \in dots : d < i => d <= before(i)
  <2> DEFINE B == {at} \cup {d \in dots : d < i}
  <2>1. B \in SUBSET Nat /\ B # {} /\ \A x \in B : x <= Len(e)
    BY <1>2, <1>3, <1>4
  <2>2. Max(B) \in B /\ \A x \in B : x <= Max(B)
    <3> HIDE DEF B
    <3> QED BY <1>2, <2>1, MaxIn
  <2>3. before(i) = Max(B)
    OBVIOUS
  <2>4. \A x \in B : x \in {at} \cup dots /\ x < i /\ x \in Nat
    BY <1>2, <1>3, <1>4, <1>6
  <2>5. at \in B /\ \A d \in dots : d < i => d \in B
    OBVIOUS
  <2> HIDE DEF B
  <2> QED BY <2>2, <2>3, <2>4, <2>5
<1> HIDE DEF before
\* The local part.
<1>7. /\ at > 1 /\ e[at - 1] \in Alnum
      /\ \A i \in 1..(at - 1) : e[i] \in Alnum \cup {".", "!", "-"}
  <2>1. 1 \in 1..Len(e) /\ at - 1 \in 0..Len(e)
    BY <1>2, <1>3
  <2>2. Edged(SubSeq(e, 1, at - 1), {".", "!", "-"})
    BY <1>1
  <2>3. /\ 1 <= at - 1 /\ e[at - 1] \in Alnum
        /\ \A i \in 1..(at - 1) : e[i] \in Alnum \cup {".", "!", "-"}
    BY <2>1, <2>2, Edges
  <2> QED BY <1>2, <1>3, <2>3
\* A label that a dot ends.
<1>8. ASSUME NEW i \in dots
      PROVE  /\ before(i) + 1 <= i - 1 /\ e[before(i) + 1] \in Alnum /\ e[i - 1] \in Alnum
             /\ \A j \in (before(i) + 1)..(i - 1) : e[j] \in Alnum \cup {"-"}
  <2>1. i \in 1..(Len(e) + 1) /\ i > at /\ i - 1 \in 0..Len(e)
    BY <1>2, <1>3, <1>4
  <2>2. before(i) + 1 \in 1..Len(e)
    <3>1. before(i) \in Nat /\ before(i) < i /\ i \in 1..Len(e)
      BY <1>2, <1>4, <1>6, <2>1
    <3> QED BY <3>1
  <2> QED BY <1>1, <2>1, <2>2, Edges
\* The last label.
<1>9. /\ before(Len(e) + 1) + 1 < Len(e) /\ before(Len(e) + 1) \in Nat
      /\ before(Len(e) + 1) \in {at} \cup dots
      /\ \A d \in dots : d <= before(Len(e) + 1)
      /\ \A j \in (before(Len(e) + 1) + 1)..Len(e) : e[j] \in Alpha
  <2> DEFINE a == before(Len(e) + 1)
  <2>1. /\ a \in {at} \cup dots /\ a >= at /\ a \in Nat /\ a <= Len(e)
        /\ \A d \in dots : d <= a
    <3>1. Len(e) + 1 \in 1..(Len(e) + 1) /\ Len(e) + 1 > at
      BY <1>2, <1>3
    <3> QED BY <1>2, <1>4, <1>6, <3>1
  <2>2. tld = SubSeq(e, a + 1, Len(e))
    OBVIOUS
  <2> HIDE DEF a
  <2> HIDE DEF tld
  <2>4. Len(tld) >= 2 /\ DOMAIN tld = 1..Len(tld)
    <3>1. a + 1 \in 1..(Len(e) + 1) /\ Len(e) \in 0..Len(e)
      BY <1>2, <2>1
    <3>2. DOMAIN tld = 1..Len(tld)
      BY <2>2, <3>1, Cut
    <3>3. Len(tld) \in 2..MaxTld
      BY <1>1
    <3> QED BY <3>2, <3>3
  <2>3. Len(tld) = Len(e) - a /\ \A j \in 1..(Len(e) - a) : tld[j] = e[a + j]
    <3>1. a + 1 \in 1..(Len(e) + 1) /\ Len(e) \in 0..Len(e)
      BY <1>2, <2>1
    <3>2. /\ Len(tld) = IF a + 1 <= Len(e) THEN Len(e) - (a + 1) + 1 ELSE 0
          /\ \A j \in 1..(Len(e) - (a + 1) + 1) : tld[j] = e[(a + 1) + j - 1]
      BY <2>2, <3>1, Cut
    <3>3. \A j \in 1..(Len(e) - a) : tld[j] = e[a + j]
      BY <1>2, <2>1, <3>2
    <3>4. Len(tld) = Len(e) - a
      <4>1. a \in Nat /\ Len(e) \in Nat /\ a <= Len(e)
        BY <1>2, <2>1
      <4>2. CASE a + 1 <= Len(e)
        BY <3>2, <4>1, <4>2
      <4>3. CASE ~(a + 1 <= Len(e))
        <5>1. Len(tld) = 0 /\ Len(e) - a = 0
          BY <3>2, <4>1, <4>3
        <5> QED BY <5>1
      <4> QED BY <4>2, <4>3
    <3> QED BY <3>3, <3>4
  <2>5. ASSUME NEW j \in (a + 1)..Len(e) PROVE e[j] \in Alpha
    <3>1. j - a \in 1..(Len(e) - a) /\ a + (j - a) = j
      BY <1>2, <2>1
    <3>2. tld[j - a] = e[j] /\ j - a \in DOMAIN tld
      BY <2>3, <2>4, <3>1
    <3> QED BY <1>1, <3>2 DEF ToSet
  <2> QED BY <1>2, <2>1, <2>3, <2>4, <2>5 DEF a
<1> DEFINE last == before(Len(e) + 1)
\* Of the "@" and the dots, each but the last has a next.
<1>10. ASSUME NEW i \in 1..Len(e), i >= at, i < last
       PROVE  \E d \in dots : d > i /\ before(d) <= i /\ (i \in {at} \cup dots => before(d) = i)
  <2> DEFINE D == {d \in dots : d > i}
  <2>1. last \in D
    BY <1>3, <1>9, <1>10
  <2>2. D \in SUBSET Nat /\ D # {}
    BY <1>2, <1>4, <2>1
  <2>3. PICK d \in D : \A x \in D : d <= x
    <3> HIDE DEF D
    <3> QED BY <2>2, FirstIn
  <2>4. d \in dots /\ d > i /\ d \in 1..(Len(e) + 1) /\ d > at
    BY <1>2, <1>4
  <2>5. /\ before(d) \in {at} \cup dots /\ before(d) < d /\ before(d) >= at /\ before(d) \in Nat
        /\ \A x \in dots : x < d => x <= before(d)
    BY <1>6, <2>4
  <2>6. before(d) <= i
    <3>1. CASE before(d) = at
      BY <1>10, <3>1
    <3>2. CASE before(d) \in dots /\ before(d) > i
      <4>1. before(d) \in D
        BY <3>2
      <4> QED BY <1>2, <1>4, <2>3, <2>4, <2>5, <4>1
    <3> QED BY <2>5, <3>1, <3>2
  <2>7. i \in {at} \cup dots => before(d) = i
    BY <2>4, <2>5, <2>6, <1>2, <1>3
  <2> QED BY <2>4, <2>6, <2>7
<1>11. /\ DOMAIN low = 1..Len(e) /\ Len(low) = Len(e) /\ low \in Seq({low[i] : i \in 1..Len(e)})
       /\ \A i \in 1..Len(e) : low[i] = IF e[i] = "A" THEN "a" ELSE e[i]
  BY <1>2 DEF Lowered
<1> HIDE DEF low
<1>12. {i \in DOMAIN low : low[i] = "@"} = {at}
  <2>1. low[at] = "@" /\ at \in DOMAIN low
    BY <1>2, <1>3, <1>11
  <2>2. ASSUME NEW i \in DOMAIN low, low[i] = "@" PROVE i = at
    <3>1. i \in 1..Len(e) /\ e[i] = "@" /\ i <= at
      BY <1>2, <1>3, <1>11, <2>2
    <3>2. CASE i < at
      BY <1>2, <1>3, <1>7, <3>1, <3>2 DEF Alnum, Alpha
    <3> QED BY <1>2, <1>3, <3>1, <3>2
  <2> QED BY <2>1, <2>2
<1>13. at # 1 /\ at # Len(low) /\ at \in DOMAIN low
  BY <1>2, <1>3, <1>7, <1>9, <1>11, <1>4
<1>14. ASSUME NEW i \in DOMAIN low
       PROVE  low[i] \notin {" ", "A"}
  <2>1. i \in 1..Len(e) /\ low[i] = IF e[i] = "A" THEN "a" ELSE e[i]
    BY <1>11
  <2>2. e[i] # " "
    <3>1. CASE i < at
      <4>1. i \in 1..(at - 1)
        BY <1>2, <1>3, <2>1, <3>1
      <4>2. e[i] \in Alnum \cup {".", "!", "-"}
        BY <1>7, <4>1
      <4> QED BY <4>2 DEF Alnum, Alpha
    <3>2. CASE i \in {at} \cup dots
      BY <1>3, <1>4, <3>2
    <3>3. CASE i > at /\ i \notin dots
      <4>1. CASE i > last
        <5>1. i \in (last + 1)..Len(e)
          BY <1>9, <2>1, <4>1
        <5>2. e[i] \in Alpha
          BY <1>9, <5>1
        <5> QED BY <5>2 DEF Alpha
      <4>2. CASE ~(i > last)
        <5>1. i < last
          BY <1>9, <2>1, <3>3, <4>2, <1>3
        <5>2. PICK d \in dots : d > i /\ before(d) <= i
          BY <1>2, <1>3, <1>10, <2>1, <3>3, <5>1
        <5>3. before(d) \in {at} \cup dots /\ before(d) \in Nat
          BY <1>2, <1>4, <1>6, <5>2
        <5>4. i \in (before(d) + 1)..(d - 1)
          BY <1>2, <1>3, <1>4, <2>1, <3>3, <5>2, <5>3
        <5> QED BY <1>8, <5>4 DEF Alnum, Alpha
      <4> QED BY <4>1, <4>2
    <3>4. i < at \/ i \in {at} \cup dots \/ (i > at /\ i \notin dots)
      BY <1>2, <1>3, <2>1
    <3> QED BY <3>1, <3>2, <3>3, <3>4
  <2> QED BY <2>1, <2>2
<1>15. ASSUME NEW i \in DOMAIN low, low[i] \in {".", "@"}, i >= at
       PROVE  {low[i - 1], low[i + 1]} \subseteq Alnum
  <2>1. i \in {at} \cup dots /\ i \in 1..Len(e)
    BY <1>2, <1>3, <1>5, <1>11, <1>12, <1>15
  <2>2. e[i - 1] \in Alnum /\ i - 1 \in 1..Len(e)
    BY <1>2, <1>3, <1>4, <1>7, <1>8, <2>1
  <2>3. e[i + 1] \in Alnum /\ i + 1 \in 1..Len(e)
    <3>1. CASE i < last
      <4>1. PICK d \in dots : before(d) = i
        BY <1>10, <1>15, <2>1, <3>1
      <4>2. e[i + 1] \in Alnum /\ i + 1 <= d - 1 /\ d \in 1..Len(e)
        BY <1>2, <1>4, <1>8, <4>1
      <4> QED BY <2>1, <4>2
    <3>2. CASE ~(i < last)
      <4>1. i = last
        BY <1>3, <1>9, <1>15, <2>1, <3>2, <1>2, <1>4
      <4>2. i + 1 <= Len(e) /\ e[i + 1] \in Alpha
        BY <1>9, <2>1, <4>1
      <4> QED BY <2>1, <4>2 DEF Alnum
    <3> QED BY <3>1, <3>2
  <2> QED BY <1>11, <2>2, <2>3 DEF Alnum, Alpha
<1>16. "." \in ToSet(SubSeq(low, at, Len(low)))
  <2>1. PICK d \in dots : TRUE
    BY <1>1
  <2>2. d \in 1..Len(e) /\ d > at /\ low[d] = "."
    BY <1>2, <1>4, <1>11
  <2> DEFINE t == SubSeq(low, at, Len(low))
  <2>3. /\ Len(t) = Len(low) - at + 1 /\ \A j \in 1..(Len(low) - at + 1) : t[j] = low[at + j - 1]
         /\ DOMAIN t = 1..Len(t)
    <3>1. at \in 1..(Len(low) + 1) /\ Len(low) \in 0..Len(low) /\ at <= Len(low)
      BY <1>2, <1>3, <1>11, <2>2
    <3> QED BY <1>11, <3>1, Cut
  <2> HIDE DEF t
  <2>5. d - at + 1 \in DOMAIN t /\ t[d - at + 1] = "."
    <3>1. d - at + 1 \in 1..(Len(low) - at + 1) /\ at + (d - at + 1) - 1 = d
      BY <1>2, <1>3, <1>11, <2>2
    <3> QED BY <2>2, <2>3, <3>1
  <2> QED BY <2>5 DEF ToSet, t
<1>17. IsAddress(low)
  BY <1>12, <1>13, <1>14, <1>15, <1>16 DEF IsAddress
<1> QED BY <1>17 DEF low

-----------------------------------------------------------------------------
(* What a request may change, table by table                               *)

LEMMA TablesOf == ASSUME Sound(db)
                  PROVE  db = [name |-> db.name, accounts |-> db.accounts, tokens |-> db.tokens,
                               spots |-> db.spots, bookings |-> db.bookings,
                               sessions |-> db.sessions, events |-> db.events]
BY DEF Sound, Tables

LEMMA SetName ==
  ASSUME ServInv, NEW r, NEW u, By(r, u), NEW x, NEW d, d = [db EXCEPT !.name[u] = x]
  PROVE  Sound(d) /\ Earned(r, d)
<1>1. /\ d = [name |-> [db.name EXCEPT ![u] = x], accounts |-> db.accounts, tokens |-> db.tokens,
              spots |-> db.spots, bookings |-> db.bookings,
              sessions |-> db.sessions, events |-> db.events]
  BY TablesOf DEF ServInv
<1>2. Sound(d)
  BY <1>1 DEF ServInv, Sound, Tables, SoundRows
<1>3. \A v \in Users : v # u => d.name[v] = db.name[v]
  BY <1>1
<1> QED BY <1>1, <1>2, <1>3 DEF Earned, Named, Billed, Booked, Untouched, Placed, Heard

LEMMA AddSession ==
  ASSUME ServInv, NEW r, NEW s, By(r, s.user),
         s.home \in (config.origins \cup {"self", config.frontend}) \ {""},
         s.kind \in {"checkout", Customer[s.user]},
         NEW d, d = [db EXCEPT !.sessions = @ \cup {s}]
  PROVE  Sound(d) /\ Earned(r, d)
<1>1. /\ d = [name |-> db.name, accounts |-> db.accounts, tokens |-> db.tokens,
              spots |-> db.spots, bookings |-> db.bookings,
              sessions |-> db.sessions \cup {s}, events |-> db.events]
  BY TablesOf DEF ServInv
<1>2. Sound(d)
  BY <1>1 DEF ServInv, Sound, Tables, SoundRows
<1> QED BY <1>1, <1>2 DEF Earned, Named, Billed, Booked, Untouched, Placed, Heard

LEMMA AddEvent ==
  ASSUME ServInv, NEW r, NEW t \in (Now - Tolerance)..(Now + Tolerance),
         Signature(config.endpoint, <<t, r.body>>)
            \in ToSet(Header(r, "stripe-signature", NoHeader).v1),
         NEW x, NEW d, d = [db EXCEPT !.events = @ \cup {x}]
  PROVE  Sound(d) /\ Earned(r, d)
<1>1. /\ d = [name |-> db.name, accounts |-> db.accounts, tokens |-> db.tokens,
              spots |-> db.spots, bookings |-> db.bookings,
              sessions |-> db.sessions, events |-> db.events \cup {x}]
  BY TablesOf DEF ServInv
<1>2. Sound(d)
  BY <1>1 DEF ServInv, Sound, Tables, SoundRows
<1> QED BY <1>1, <1>2 DEF Earned, Named, Billed, Booked, Untouched, Placed, Heard

LEMMA AddBooking ==
  ASSUME ServInv, NEW r, NEW b, By(r, b.user),
         b.out - b.in \in 0..MaxBooking, b.total \in b.price..(b.price * MaxBooking),
         NEW d, d = [db EXCEPT !.bookings = @ \cup {b}]
  PROVE  Sound(d) /\ Earned(r, d)
<1>1. /\ d = [name |-> db.name, accounts |-> db.accounts, tokens |-> db.tokens,
              spots |-> db.spots, bookings |-> db.bookings \cup {b},
              sessions |-> db.sessions, events |-> db.events]
  BY TablesOf DEF ServInv
<1>2. Sound(d)
  <2>1. Tables(d)
    BY <1>1 DEF Tables
  <2>2. d.tokens = db.tokens /\ d.accounts = db.accounts /\ d.spots = db.spots
    BY <1>1
  <2>3. SoundRows(db) /\ \A t \in db.tokens : Subject(t) # Nobody
    BY DEF ServInv, Sound
  <2>4. \A c \in d.bookings : c \in db.bookings \/ c = b
    BY <1>1
  <2>5. \A c \in d.bookings : /\ c.out - c.in \in 0..MaxBooking
                               /\ c.total \in c.price..(c.price * MaxBooking)
    BY <2>3, <2>4 DEF SoundRows
  <2>6. SoundRows(d)
    BY <2>2, <2>3, <2>5 DEF SoundRows
  <2> QED BY <2>1, <2>2, <2>3, <2>6 DEF Sound
<1> QED BY <1>1, <1>2 DEF Earned, Named, Billed, Booked, Untouched, Placed, Heard

\* A new account, and nothing else.
LEMMA AddAccount ==
  ASSUME ServInv, NEW r, NEW e, e \notin DOMAIN db.accounts, IsAddress(e),
         NEW x, x.name # "<",
         NEW d, d = [db EXCEPT !.accounts = Put(@, e, x)]
  PROVE  Sound(d) /\ Earned(r, d)
<1>1. /\ d = [name |-> db.name, accounts |-> Put(db.accounts, e, x), tokens |-> db.tokens,
              spots |-> db.spots, bookings |-> db.bookings,
              sessions |-> db.sessions, events |-> db.events]
  BY TablesOf DEF ServInv
<1>2. /\ DOMAIN d.accounts = {e} \cup DOMAIN db.accounts /\ d.accounts[e] = x
      /\ \A f \in DOMAIN db.accounts : d.accounts[f] = db.accounts[f]
  BY <1>1 DEF Put
<1>3. Sound(d)
  BY <1>1, <1>2 DEF ServInv, Sound, Tables, SoundRows
<1> QED BY <1>1, <1>2, <1>3 DEF Earned, Named, Billed, Booked, Untouched, Placed, Heard

WithSpots(spots) == [db EXCEPT !.spots = spots]

\* A spot is stored, whose owner, if it has one, does not change.
LEMMA PutSpot ==
  ASSUME ServInv, NEW r, NEW x, By(r, x.owner), NEW id,
         id \in DOMAIN db.spots => db.spots[id].owner = x.owner,
         x.title \notin {"", "x"}, x.zip \in {"12345", "12345-6789"},
         x.price \in 1..(2 * MaxPrice - 1),
         NEW spots, DOMAIN spots = DOMAIN db.spots \cup {id}, spots[id] = x,
         \A i \in DOMAIN db.spots : i # id => spots[i] = db.spots[i]
  PROVE  Sound(WithSpots(spots)) /\ Earned(r, WithSpots(spots))
<1> DEFINE d == WithSpots(spots)
<1>0. d = [db EXCEPT !.spots = spots]
  BY DEF WithSpots
<1> HIDE DEF d
<1>1. /\ d = [name |-> db.name, accounts |-> db.accounts, tokens |-> db.tokens,
              spots |-> spots, bookings |-> db.bookings,
              sessions |-> db.sessions, events |-> db.events]
  BY <1>0, TablesOf DEF ServInv
<1>2. Sound(d)
  <2>1. Tables(d)
    BY <1>1 DEF Tables
  <2>2. d.tokens = db.tokens /\ d.accounts = db.accounts /\ d.bookings = db.bookings /\ d.spots = spots
    BY <1>1
  <2>3. SoundRows(db) /\ \A t \in db.tokens : Subject(t) # Nobody
    BY DEF ServInv, Sound
  <2>4. \A i \in DOMAIN d.spots : d.spots[i] = x \/ (i \in DOMAIN db.spots /\ d.spots[i] = db.spots[i])
    BY <2>2
  <2>5. SoundRows(d)
    BY <2>2, <2>3, <2>4 DEF SoundRows
  <2> QED BY <2>1, <2>2, <2>3, <2>5 DEF Sound
<1>3. Placed(r, d)
  BY <1>1 DEF Placed
<1>4. Named(r, d) /\ Billed(r, d) /\ Booked(r, d) /\ Untouched(d) /\ Heard(r, d)
  BY <1>1 DEF Named, Billed, Booked, Untouched, Heard
<1> QED BY <1>2, <1>3, <1>4 DEF Earned, d

LEMMA DropSpot ==
  ASSUME ServInv, NEW r, NEW id \in DOMAIN db.spots, By(r, db.spots[id].owner),
         NEW d, d = [db EXCEPT !.spots = [i \in DOMAIN db.spots \ {id} |-> db.spots[i]]]
  PROVE  Sound(d) /\ Earned(r, d)
<1>1. /\ d = [name |-> db.name, accounts |-> db.accounts, tokens |-> db.tokens,
              spots |-> [i \in DOMAIN db.spots \ {id} |-> db.spots[i]], bookings |-> db.bookings,
              sessions |-> db.sessions, events |-> db.events]
  BY TablesOf DEF ServInv
<1>2. Sound(d)
  <2>1. Tables(d)
    BY <1>1 DEF Tables
  <2>2. d.tokens = db.tokens /\ d.accounts = db.accounts /\ d.bookings = db.bookings
    BY <1>1
  <2>3. SoundRows(db) /\ \A t \in db.tokens : Subject(t) # Nobody
    BY DEF ServInv, Sound
  <2>4. \A i \in DOMAIN d.spots : i \in DOMAIN db.spots /\ d.spots[i] = db.spots[i]
    BY <1>1
  <2>5. SoundRows(d)
    BY <2>2, <2>3, <2>4 DEF SoundRows
  <2> QED BY <2>1, <2>2, <2>3, <2>5 DEF Sound
<1>3. Placed(r, d)
  BY <1>1 DEF Placed
<1>4. Named(r, d) /\ Billed(r, d) /\ Booked(r, d) /\ Untouched(d) /\ Heard(r, d)
  BY <1>1 DEF Named, Billed, Booked, Untouched, Heard
<1> QED BY <1>2, <1>3, <1>4 DEF Earned

\* What is signed for a user is that user's token.
LEMMA SignedFor == ASSUME NEW u \in Users \cup NewIds PROVE Subject(JwtSign(u)) = u
<1> DEFINE claims == J!Obj([userID |-> J!Str(u), exp |-> J!Num(2 * (Now + TokenLife))])
<1>1. /\ JwtSign(u).parts = 3 /\ JwtSign(u).claims = claims
      /\ JwtSign(u).sig = Signature(config.jwt, claims)
  BY DEF JwtSign
<1>2. J!Get(claims, "userID") = J!Str(u) /\ J!Get(claims, "exp") = J!Num(2 * (Now + TokenLife))
  BY DEF J!Get, J!Obj
<1> HIDE DEF claims
<1>3. J!HasStr(claims, "userID") /\ J!GetStr(claims, "userID") = u
  <2>1. J!Str(u).t = "str" /\ J!Str(u).s = u
    BY DEF J!Str
  <2> QED BY <1>2, <2>1 DEF J!HasStr, J!GetStr
<1>4. Live(J!Num(2 * (Now + TokenLife)))
  <2>1. J!Num(2 * (Now + TokenLife)).t = "num" /\ J!Num(2 * (Now + TokenLife)).n = 2 * (Now + TokenLife)
    BY DEF J!Num
  <2>2. /\ 2 * (Now + TokenLife) \in Int /\ (2 * (Now + TokenLife)) % 2 = 0
        /\ (2 * (Now + TokenLife)) \div 2 = Now + TokenLife
    BY ServiceLimits
  <2>3. /\ 2 * (Now + TokenLife) < 2 * MaxSafe /\ -(2 * (Now + TokenLife)) < 2 * MaxSafe
        /\ Now <= Now + TokenLife
    BY ServiceLimits
  <2> QED BY <2>1, <2>2, <2>3 DEF Live, J!Finite
<1> QED BY <1>1, <1>2, <1>3, <1>4 DEF Subject

\* A session is a token more, of a user there is.
LEMMA SessionGood ==
  ASSUME ServInv, NEW r, NEW u \in Users \cup NewIds, NEW status \in Nat,
         NEW d, Sound(d), Earned(r, d)
  PROVE  AllGood(r, Session(u, status, d))
<1> DEFINE more == [d EXCEPT !.tokens = @ \cup {JwtSign(u)}]
<1>1. more = [name |-> d.name, accounts |-> d.accounts, tokens |-> d.tokens \cup {JwtSign(u)},
              spots |-> d.spots, bookings |-> d.bookings,
              sessions |-> d.sessions, events |-> d.events]
  BY DEF Sound, Tables
<1> HIDE DEF more
<1>2. Subject(JwtSign(u)) # Nobody
  BY SignedFor, StringsAssumption
<1>3. Sound(more)
  BY <1>1, <1>2 DEF Sound, Tables, SoundRows
<1>4. Earned(r, more)
  BY <1>1 DEF Earned, Named, Billed, Booked, Untouched, Placed, Heard
<1>5. \A c : Good(r, Result(status, c, more))
  BY <1>3, <1>4 DEF Good, Result
<1> QED BY <1>5 DEF AllGood, Session, more

LEMMA Larger == ASSUME NEW a \in Int, NEW b \in Int
                PROVE  Max({a, b}) = IF a >= b THEN a ELSE b
<1>1. CASE a >= b
  BY <1>1 DEF Max
<1>2. CASE ~(a >= b)
  BY <1>2 DEF Max
<1> QED BY <1>1, <1>2

LEMMA Smaller == ASSUME NEW a \in Int, NEW b \in Int
                 PROVE  Min({a, b}) = IF a <= b THEN a ELSE b
<1>1. CASE a <= b
  BY <1>1 DEF Min
<1>2. CASE ~(a <= b)
  BY <1>2 DEF Min
<1> QED BY <1>1, <1>2

\* Cutting off fractions, and what does not fit, keeps an order and lengthens no distance
\* by more than half a unit.
LEMMA Truncating ==
  ASSUME NEW in \in Int, NEW out \in Int, NEW m \in Nat, out > in, out - in <= 2 * m
  PROVE  Truncated(out) - Truncated(in) \in 0..m
<1> DEFINE half(n) == IF n < 0 THEN -((-n) \div 2) ELSE n \div 2
           clamped(w) == IF w <= Wide THEN IF -Wide >= w THEN -Wide ELSE w
                         ELSE IF -Wide >= Wide THEN -Wide ELSE Wide
<1>1. Wide \in Nat
  BY ServiceLimits
<1>2. ASSUME NEW n \in Int
      PROVE  /\ half(n) \in Int /\ 2 * half(n) \in (n - 1)..(n + 1)
             /\ n >= 0 => half(n) >= 0 /\ 2 * half(n) <= n
             /\ n <= 0 => half(n) <= 0 /\ 2 * half(n) >= n
  OBVIOUS
<1>3. ASSUME NEW n \in Int PROVE Truncated(n) = clamped(half(n))
  <2>1. half(n) \in Int /\ Wide \in Int /\ -Wide \in Int
    BY <1>1, <1>2
  <2>2. Min({half(n), Wide}) = IF half(n) <= Wide THEN half(n) ELSE Wide
    BY <2>1, Smaller
  <2>3. Min({half(n), Wide}) \in Int
    BY <2>1, <2>2
  <2>4. Max({-Wide, Min({half(n), Wide})})
          = IF -Wide >= Min({half(n), Wide}) THEN -Wide ELSE Min({half(n), Wide})
    BY <2>1, <2>3, Larger
  <2>5. Truncated(n) = Max({-Wide, Min({half(n), Wide})})
    BY DEF Truncated
  <2> HIDE DEF half
  <2> QED BY <2>2, <2>4, <2>5
<1>4. half(out) - half(in) \in 0..m
  <2>1. in - 2 * half(in) \in -1..1 /\ out - 2 * half(out) \in -1..1
    BY <1>2
  <2>2. CASE in >= 0
    BY <1>2, <2>1, <2>2
  <2>3. CASE in < 0 /\ out >= 0
    BY <1>2, <2>1, <2>3
  <2>4. CASE out < 0
    BY <1>2, <2>1, <2>4
  <2> QED BY <2>2, <2>3, <2>4
<1>5. half(in) \in Int /\ half(out) \in Int
  BY <1>2
<1> HIDE DEF half
<1>6. clamped(half(out)) - clamped(half(in)) \in 0..m
  BY <1>1, <1>4, <1>5
<1> QED BY <1>3, <1>6

LEMMA TruncatedInt == ASSUME NEW n \in Int PROVE Truncated(n) \in Int
<1> DEFINE w == IF n < 0 THEN -((-n) \div 2) ELSE n \div 2
<1>1. w \in Int /\ Wide \in Int /\ -Wide \in Int
  BY ServiceLimits
<1>2. Truncated(n) = Max({-Wide, Min({w, Wide})})
  BY DEF Truncated
<1> HIDE DEF w
<1>3. Min({w, Wide}) \in Int
  BY <1>1, Smaller
<1> QED BY <1>1, <1>2, <1>3, Larger

LEMMA Totalled ==
  ASSUME NEW price \in Nat, NEW in \in Int, NEW out \in Int, out - in \in 0..MaxBooking
  PROVE  Total(price, in, out) \in price..(price * MaxBooking)
<1>1. MaxBooking \in Nat /\ MaxBooking > 0
  BY ServiceLimits
<1>2. Max({out - in, 1}) \in 1..MaxBooking
  BY <1>1, Larger
<1>3. ASSUME NEW k \in 1..MaxBooking PROVE price * k \in price..(price * MaxBooking)
  <2>1. price * (k - 1) >= 0 /\ price * (MaxBooking - k) >= 0
    BY <1>1
  <2>2. price * k = price + price * (k - 1) /\ price * MaxBooking = price * k + price * (MaxBooking - k)
    BY <1>1
  <2>3. \A x \in Int, a \in Int, b \in Int : a >= 0 /\ b >= 0 => x + a \in x..((x + a) + b)
    OBVIOUS
  <2>4. price \in Int /\ price * (k - 1) \in Int /\ price * (MaxBooking - k) \in Int
    BY <1>1
  <2> QED BY <2>1, <2>2, <2>3, <2>4, Zenon
<1> QED BY <1>2, <1>3 DEF Total

-----------------------------------------------------------------------------
(* The handlers                                                            *)

LEMMA Ends == ASSUME ServInv, NEW r, NEW s \in Nat
              PROVE  AllGood(r, {Plain(s)}) /\ AllGood(r, OrFails({Plain(s)}))
BY PlainGood, OrFailsGood

LEMMA Either == ASSUME NEW r, NEW A, NEW B, AllGood(r, A), AllGood(r, B)
                PROVE  AllGood(r, A \cup B)
BY DEF AllGood

LEMMA MePutGood ==
  ASSUME ServInv, NEW r, r.fields = fields PROVE AllGood(r, MePut(r))
<1> DEFINE u == Bearer(r)
           name == J!Get(Json(r), "name")
           renamed == [db EXCEPT !.name[u] = Escaped(name.s)]
           renamings == {Stored(200, renamed), Stored(500, renamed)}
           results ==
             IF Json(r) = J!NoValue THEN {Plain(400)}
             ELSE IF name.t \notin {"none", "str"} THEN {Plain(400)}
             ELSE IF name.t = "str" /\ ~ValidName(name.s) THEN {Plain(400)}
             ELSE IF u \notin Users THEN OrFails({Plain(404)})
             ELSE IF name.t = "none" THEN OrFails({Plain(400)})
             ELSE OrFails(renamings)
<1>1. MePut(r) = AuthedMutate(r, results)
  BY DEF MePut
<1>2. ASSUME By(r, u) PROVE AllGood(r, results)
  <2>1. Sound(renamed) /\ Earned(r, renamed)
    BY <1>2, SetName
  <2> HIDE DEF renamed
  <2>2. AllGood(r, renamings)
    BY <2>1, StoredGood DEF AllGood
  <2> HIDE DEF renamings
  <2>3. AllGood(r, OrFails(renamings))
    BY <2>2, OrFailsGood
  <2> QED BY <2>3, Ends
<1> HIDE DEF results
<1> QED BY <1>1, <1>2, Gate

\* Where a browser is sent back to is one of our own pages.
LEMMA HomeOurs == ASSUME NEW r
                  PROVE  Home(r) \in (config.origins \cup {"self", config.frontend}) \ {""}
BY DEF Home

LEMMA OpenedGood ==
  ASSUME ServInv, NEW r, NEW u, By(r, u), NEW kind, kind \in {"checkout", Customer[u]}
  PROVE  AllGood(r, Opened(u, kind, r))
<1> DEFINE s == [user |-> u, kind |-> kind, home |-> Home(r)]
           with == [db EXCEPT !.sessions = @ \cup {s}]
<1>1. Sound(with) /\ Earned(r, with)
  <2>1. s.user = u /\ s.kind = kind /\ s.home = Home(r)
    OBVIOUS
  <2> HIDE DEF s
  <2>2. s.home \in (config.origins \cup {"self", config.frontend}) \ {""}
    BY <2>1, HomeOurs
  <2> QED BY <2>1, <2>2, AddSession
<1>2. Opened(u, kind, r) = {Stored(x, with) : x \in {200, 500, 504}} \cup {Plain(x) : x \in {500, 503, 504}}
  BY DEF Opened
<1> HIDE DEF with
<1>3. \A x \in {200, 500, 503, 504} : Good(r, Stored(x, with)) /\ Good(r, Plain(x))
  BY <1>1, StoredGood, Statuses
<1> QED BY <1>2, <1>3 DEF AllGood

LEMMA CheckoutGood ==
  ASSUME ServInv, NEW r, r.fields = fields PROVE AllGood(r, Checkout(r))
<1> DEFINE u == Bearer(r)
           json == Json(r)
           off == config.stripe = ""
           results ==
             IF off THEN {Plain(503)}
             ELSE IF json = J!NoValue THEN {Plain(500)}
             ELSE IF ~(J!HasStr(json, "email") /\ J!HasStr(json, "lookup_key")) THEN {Plain(400)}
             ELSE IF J!GetStr(json, "lookup_key") \notin config.keys THEN {Plain(400)}
             ELSE IF u \notin Users \/ Email[u] # J!GetStr(json, "email") THEN OrFails({Plain(403)})
             ELSE Opened(u, "checkout", r) \cup {Plain(400)}
<1>1. Checkout(r) = AuthedMutate(r, results)
  BY DEF Checkout
<1>2. ASSUME By(r, u) PROVE AllGood(r, results)
  <2>1. AllGood(r, Opened(u, "checkout", r))
    BY <1>2, OpenedGood
  <2> DEFINE opened == Opened(u, "checkout", r)
  <2>2. AllGood(r, opened \cup {Plain(400)})
    <3> HIDE DEF opened, results, off
    <3>1. AllGood(r, {Plain(400)}) /\ AllGood(r, opened)
      BY <2>1, Ends DEF opened
    <3> QED BY <3>1, Either
  <2> HIDE DEF opened, off, json, u
  <2> QED BY <2>2, Ends DEF opened
<1> HIDE DEF results
<1> QED BY <1>1, <1>2, Gate

LEMMA PortalGood ==
  ASSUME ServInv, NEW r, r.fields = fields PROVE AllGood(r, Portal(r))
<1> DEFINE u == Bearer(r)
           json == Json(r)
           customer == J!GetStr(json, "customerID")
           off == config.stripe = ""
           results ==
             IF off THEN {Plain(503)}
             ELSE IF json = J!NoValue THEN {Plain(500)}
             ELSE IF ~J!HasStr(json, "customerID") THEN {Plain(400)}
             ELSE IF ~OwnCustomer(u, customer) THEN OrFails({Plain(403)})
             ELSE OrFails(Opened(u, customer, r))
<1>1. Portal(r) = AuthedMutate(r, results)
  BY DEF Portal
<1>2. ASSUME By(r, u) PROVE AllGood(r, results)
  <2>1. ASSUME OwnCustomer(u, customer) PROVE AllGood(r, OrFails(Opened(u, customer, r)))
    <3>1. AllGood(r, Opened(u, customer, r))
      BY <1>2, <2>1, OpenedGood DEF OwnCustomer
    <3> QED BY <3>1, OrFailsGood
  <2> HIDE DEF off, json, u, customer
  <2> QED BY <2>1, Ends
<1> HIDE DEF results
<1> QED BY <1>1, <1>2, Gate

LEMMA PaymentGood == ASSUME ServInv, NEW r PROVE AllGood(r, Payment(r))
<1> DEFINE header == Header(r, "stripe-signature", NoHeader)
           with == [db EXCEPT !.events = @ \cup {r.body}]
<1>1. ASSUME Verified(header, r.body) PROVE AllGood(r, OrFails({Stored(200, with)}))
  <2> DEFINE t == header.t[1]
  <2>1. /\ Now - t \in (-Tolerance)..Tolerance
        /\ Signature(config.endpoint, <<t, r.body>>) \in ToSet(header.v1)
    BY <1>1 DEF Verified
  <2>2. t \in Int /\ Now \in Nat /\ Tolerance \in Nat
    BY <1>1, ServiceLimits DEF Verified
  <2>3. t \in (Now - Tolerance)..(Now + Tolerance)
    BY <2>1, <2>2
  <2> HIDE DEF t
  <2>4. Sound(with) /\ Earned(r, with)
    BY <2>1, <2>3, AddEvent
  <2> HIDE DEF with
  <2>5. AllGood(r, {Stored(200, with)})
    BY <2>4, StoredGood DEF AllGood
  <2> QED BY <2>5, OrFailsGood
<1> DEFINE off == config.stripe = ""
           keyless == config.endpoint = ""
<1> HIDE DEF header
<1>2. Payment(r) =
        IF off THEN {Plain(503)}
        ELSE IF header = NoHeader THEN {Plain(400)}
        ELSE IF keyless THEN {Plain(503)}
        ELSE IF ~Verified(header, r.body) THEN {Plain(400)}
        ELSE IF ~J!HasStr(Json(r), "id") THEN {Plain(400)}
        ELSE OrFails({Stored(200, with)})
  BY DEF Payment, header
<1> HIDE DEF with, off, keyless
<1> QED BY <1>1, <1>2, Ends

LEMMA Priced == ASSUME ServInv, NEW id \in DOMAIN db.spots PROVE db.spots[id].price \in Nat
<1>1. \A i \in DOMAIN db.spots : db.spots[i].price \in 1..(2 * MaxPrice - 1)
  BY DEF ServInv, Sound, SoundRows
<1>2. MaxPrice \in Nat
  BY ServiceLimits
<1> QED BY <1>1, <1>2

\* What passes the checks of a spot is within the limits.
LEMMA NothingWrong ==
  ASSUME NEW json, NEW old, old.price \in Int, Wrong(Draft(json, old)) = "nothing"
  PROVE  LET spot == Draft(json, old)
         IN /\ spot.owner = old.owner
            /\ spot.title \notin {"", "x"} /\ spot.zip \in {"12345", "12345-6789"}
            /\ spot.price \in 1..(2 * MaxPrice - 1)
<1> DEFINE spot == Draft(json, old)
<1>1. spot.owner = old.owner /\ spot.price = MergedNumber(json, "price", old.price)
  BY DEF Draft
<1>2. spot.price \in Int
  BY <1>1 DEF MergedNumber, J!Finite, NoNumber
<1> HIDE DEF spot
<1>3. Wrong(spot) = "nothing"
  BY DEF spot
<1>4. GoodTitle(spot.title) /\ GoodZip(spot.zip) /\ GoodPrice(spot.price)
  BY <1>3 DEF Wrong
<1>5. MaxPrice \in Nat
  BY ServiceLimits
<1>6. spot.price \in 1..(2 * MaxPrice - 1)
  BY <1>2, <1>4, <1>5 DEF GoodPrice
<1> QED BY <1>1, <1>4, <1>6 DEF GoodTitle, GoodZip, spot

LEMMA SpotsCreateGood ==
  ASSUME ServInv, NEW r, r.fields = fields PROVE AllGood(r, SpotsCreate(r))
<1> DEFINE u == Bearer(r)
           spot == Draft(Json(r), Blank(u))
           with(id) == [db EXCEPT !.spots = Put(@, id, spot)]
           created == {Stored(s, with(id)) : s \in {201, 500}, id \in NewIds \ DOMAIN db.spots}
           results ==
             IF Json(r) = J!NoValue THEN {Plain(400)}
             ELSE IF Wrong(spot) # "nothing" THEN {Plain(400)}
             ELSE OrFails(created)
<1>1. SpotsCreate(r) = AuthedMutate(r, results)
  BY DEF SpotsCreate
<1>2. ASSUME By(r, u), Wrong(spot) = "nothing" PROVE AllGood(r, created)
  <2>1. Blank(u).owner = u /\ Blank(u).price \in Int
    BY DEF Blank, NoNumber
  <2>2. /\ spot.owner = u /\ spot.title \notin {"", "x"} /\ spot.zip \in {"12345", "12345-6789"}
        /\ spot.price \in 1..(2 * MaxPrice - 1)
    BY <1>2, <2>1, NothingWrong
  <2> HIDE DEF spot
  <2>3. ASSUME NEW id \in NewIds \ DOMAIN db.spots
        PROVE  Sound(with(id)) /\ Earned(r, with(id))
    <3> DEFINE spots == Put(db.spots, id, spot)
    <3>1. /\ DOMAIN spots = DOMAIN db.spots \cup {id} /\ spots[id] = spot
          /\ \A i \in DOMAIN db.spots : i # id => spots[i] = db.spots[i]
      BY DEF Put
    <3>2. By(r, spot.owner)
      BY <1>2, <2>2
    <3>3. with(id) = WithSpots(spots)
      BY DEF WithSpots
    <3> HIDE DEF spots, with
    <3>4. id \in DOMAIN db.spots => db.spots[id].owner = spot.owner
      BY <2>3
    <3>5. Sound(WithSpots(spots)) /\ Earned(r, WithSpots(spots))
      BY <2>2, <3>1, <3>2, <3>4, PutSpot
    <3> QED BY <3>3, <3>5
  <2> HIDE DEF with
  <2> QED BY <2>3, StoredGood DEF AllGood
<1>3. ASSUME By(r, u) PROVE AllGood(r, results)
  <2> HIDE DEF created, spot
  <2>1. ASSUME Wrong(spot) = "nothing" PROVE AllGood(r, OrFails(created))
    BY <1>2, <1>3, <2>1, OrFailsGood
  <2> QED BY <2>1, Ends
<1> HIDE DEF results
<1> QED BY <1>1, <1>3, Gate

LEMMA SpotsUpdateGood ==
  ASSUME ServInv, NEW r, r.fields = fields, NEW id PROVE AllGood(r, SpotsUpdate(r, id))
<1> DEFINE u == Bearer(r)
           spot == Draft(Json(r), db.spots[id])
           with == [db EXCEPT !.spots[id] = spot]
           updated == {Stored(s, with) : s \in {200, 500}}
           results ==
             IF Json(r) = J!NoValue THEN {Plain(400)}
             ELSE IF ~Owned(u, id) THEN OrFails({Plain(404)})
             ELSE IF Wrong(spot) \in {"title", "price"} THEN {Plain(400)}
             ELSE IF Wrong(spot) = "zip" THEN {Plain(500)}
             ELSE OrFails(updated)
<1>1. SpotsUpdate(r, id) = AuthedMutate(r, results)
  BY DEF SpotsUpdate
<1>2. ASSUME By(r, u), Owned(u, id), Wrong(spot) = "nothing" PROVE AllGood(r, updated)
  <2>1. id \in DOMAIN db.spots /\ db.spots[id].owner = u
    BY <1>2 DEF Owned
  <2>2. db.spots[id].price \in Int
    BY <2>1, Priced
  <2>3. /\ spot.owner = u /\ spot.title \notin {"", "x"} /\ spot.zip \in {"12345", "12345-6789"}
        /\ spot.price \in 1..(2 * MaxPrice - 1)
    BY <1>2, <2>1, <2>2, NothingWrong
  <2> HIDE DEF spot
  <2> DEFINE spots == [db.spots EXCEPT ![id] = spot]
  <2>4. with = WithSpots(spots)
    BY TablesOf DEF ServInv, WithSpots
  <2>5. /\ DOMAIN spots = DOMAIN db.spots \cup {id} /\ spots[id] = spot
        /\ \A i \in DOMAIN db.spots : i # id => spots[i] = db.spots[i]
    BY <2>1
  <2> HIDE DEF with, spots
  <2>6. Sound(with) /\ Earned(r, with)
    <3>1. By(r, spot.owner)
      BY <1>2, <2>3
    <3>2. id \in DOMAIN db.spots => db.spots[id].owner = spot.owner
      BY <2>1, <2>3
    <3> HIDE DEF u
    <3> QED BY <2>3, <2>4, <2>5, <3>1, <3>2, PutSpot
  <2> QED BY <2>6, StoredGood DEF AllGood
<1>3. ASSUME By(r, u) PROVE AllGood(r, results)
  <2> HIDE DEF updated, spot
  <2>1. ASSUME Owned(u, id), Wrong(spot) = "nothing" PROVE AllGood(r, OrFails(updated))
    BY <1>2, <1>3, <2>1, OrFailsGood
  <2>2. Wrong(spot) \in {"title", "zip", "price", "nothing"}
    BY DEF Wrong
  <2> HIDE DEF u
  <2> QED BY <2>1, <2>2, Ends
<1> HIDE DEF results
<1> QED BY <1>1, <1>3, Gate

LEMMA SpotsDeleteGood ==
  ASSUME ServInv, NEW r, r.fields = fields, NEW id PROVE AllGood(r, SpotsDelete(r, id))
<1> DEFINE u == Bearer(r)
           with == [db EXCEPT !.spots = [i \in DOMAIN db.spots \ {id} |-> db.spots[i]]]
           results == IF Owned(u, id) THEN OrFails({Stored(204, with)}) ELSE OrFails({Plain(404)})
<1>1. SpotsDelete(r, id) = AuthedMutate(r, results)
  BY DEF SpotsDelete
<1>2. ASSUME By(r, u), Owned(u, id) PROVE AllGood(r, OrFails({Stored(204, with)}))
  <2>1. id \in DOMAIN db.spots /\ By(r, db.spots[id].owner)
    BY <1>2 DEF Owned
  <2>2. Sound(with) /\ Earned(r, with)
    BY <2>1, DropSpot
  <2> HIDE DEF with
  <2>3. AllGood(r, {Stored(204, with)})
    BY <2>2, StoredGood DEF AllGood
  <2> QED BY <2>3, OrFailsGood
<1>3. ASSUME By(r, u) PROVE AllGood(r, results)
  <2> HIDE DEF with
  <2> QED BY <1>2, <1>3, Ends
<1> HIDE DEF results
<1> QED BY <1>1, <1>3, Gate

LEMMA BookingsCreateGood ==
  ASSUME ServInv, NEW r, r.fields = fields PROVE AllGood(r, BookingsCreate(r))
<1> DEFINE u == Bearer(r)
           json == Json(r)
           id == J!GetStr(json, "spotId")
           from == J!Get(json, "timeIn").n
           to == J!Get(json, "timeOut").n
           price == db.spots[id].price
           booking == [spot |-> id, user |-> u, in |-> Truncated(from), out |-> Truncated(to),
                       price |-> price, total |-> Total(price, Truncated(from), Truncated(to))]
           with == [db EXCEPT !.bookings = @ \cup {booking}]
           results ==
             IF json = J!NoValue \/ ~GoodWindow(json) THEN {Plain(400)}
             ELSE IF id \notin DOMAIN db.spots THEN OrFails({Plain(400)})
             ELSE IF ~db.spots[id].available THEN {Plain(400)}
             ELSE OrFails({Stored(201, with)})
<1>1. BookingsCreate(r) = AuthedMutate(r, results)
  BY DEF BookingsCreate
<1>2. ASSUME By(r, u), GoodWindow(json), id \in DOMAIN db.spots
      PROVE  AllGood(r, OrFails({Stored(201, with)}))
  <2>1. from \in Int /\ to \in Int /\ to > from /\ to - from <= 2 * MaxBooking
    BY <1>2 DEF GoodWindow, J!Finite
  <2>2. price \in Nat
    BY <1>2, Priced
  <2> HIDE DEF from, to, price
  <2>3. /\ Truncated(to) - Truncated(from) \in 0..MaxBooking
        /\ Truncated(to) \in Int /\ Truncated(from) \in Int
    BY <2>1, ServiceLimits, Truncating, TruncatedInt
  <2>4. Total(price, Truncated(from), Truncated(to)) \in price..(price * MaxBooking)
    BY <2>2, <2>3, Totalled
  <2>5. /\ booking.user = u /\ booking.in = Truncated(from) /\ booking.out = Truncated(to)
        /\ booking.price = price /\ booking.total = Total(price, Truncated(from), Truncated(to))
    OBVIOUS
  <2> HIDE DEF booking
  <2>6. Sound(with) /\ Earned(r, with)
    <3>1. By(r, booking.user)
      BY <1>2, <2>5
    <3>2. booking.out - booking.in \in 0..MaxBooking
      BY <2>3, <2>5
    <3>3. booking.total \in booking.price..(booking.price * MaxBooking)
      BY <2>4, <2>5
    <3> QED BY <3>1, <3>2, <3>3, AddBooking
  <2> HIDE DEF with
  <2>7. AllGood(r, {Stored(201, with)})
    BY <2>6, StoredGood DEF AllGood
  <2> QED BY <2>7, OrFailsGood
<1>3. ASSUME By(r, u) PROVE AllGood(r, results)
  <2> HIDE DEF with, json, u
  <2> QED BY <1>2, <1>3, Ends
<1> HIDE DEF results
<1> QED BY <1>1, <1>3, Gate

LEMMA SignupGood == ASSUME ServInv, NEW r PROVE AllGood(r, Signup(r))
<1> DEFINE json == Json(r)
           typed == Spelled(J!GetStr(json, "email"))
           email == Lowered(typed)
           account == [name |-> Escaped(J!GetStr(json, "name")), pass |-> J!GetStr(json, "password")]
           with == [db EXCEPT !.accounts = Put(@, email, account)]
           opened == {Stored(500, with)} \cup UNION {Session(u, 201, with) : u \in NewIds}
           missing == \E key \in {"email", "password", "name"} : ~J!HasStr(json, key)
           valid == ValidEmail(typed) /\ ValidPassword(account.pass) /\ ValidName(J!GetStr(json, "name"))
<1>1. ASSUME ValidEmail(typed), email \notin DOMAIN db.accounts PROVE AllGood(r, OrFails(opened))
  <2>1. typed \in Seq(ToSet(typed))
    BY StringsAssumption DEF Spelled, ToSet
  <2>2. IsAddress(email)
    <3> HIDE DEF typed
    <3> QED BY <1>1, <2>1, ValidIsAddress
  <2>3. account.name # "<"
    BY DEF Escaped
  <2> HIDE DEF email, account
  <2>4. Sound(with) /\ Earned(r, with)
    BY <1>1, <2>2, <2>3, AddAccount
  <2> HIDE DEF with
  <2>5. AllGood(r, {Stored(500, with)})
    BY <2>4, StoredGood DEF AllGood
  <2>6. \A u \in NewIds : AllGood(r, Session(u, 201, with))
    BY <2>4, SessionGood
  <2>7. AllGood(r, opened)
    BY <2>5, <2>6 DEF AllGood
  <2> HIDE DEF opened
  <2> QED BY <2>7, OrFailsGood
<1> DEFINE rest == IF missing THEN {Plain(400)}
                   ELSE IF ~valid THEN {Plain(400)}
                   ELSE IF email \in DOMAIN db.accounts THEN OrFails({Plain(400)})
                   ELSE OrFails(opened)
<1>2. Signup(r) = {Plain(429)} \cup rest
  BY DEF Signup
<1>3. AllGood(r, rest)
  <2>1. valid => ValidEmail(typed)
    OBVIOUS
  <2> HIDE DEF opened, valid, missing, email
  <2> QED BY <1>1, <2>1, Ends
<1> HIDE DEF rest
<1>4. AllGood(r, {Plain(429)})
  BY Ends
<1>5. AllGood(r, {Plain(429)} \cup rest)
  BY <1>3, <1>4, Either
<1> QED BY <1>2, <1>5

LEMMA SigninGood == ASSUME ServInv, NEW r PROVE AllGood(r, Signin)
<1>1. \A u \in Users : AllGood(r, Session(u, 200, db))
  BY SameSound, SessionGood
<1>2. \A s \in {400, 401, 429, 500} : Good(r, Plain(s))
  BY Statuses
<1> QED BY <1>1, <1>2 DEF AllGood, Signin

LEMMA SignoutGood ==
  ASSUME ServInv, NEW r, r.fields = fields PROVE AllGood(r, Signout(r))
<1> DEFINE results == {Result(200, Put(csrf, Bearer(r), NoToken), db)}
<1>1. Signout(r) = AuthedMutate(r, results)
  BY DEF Signout
<1>2. \A c : Good(r, Result(200, c, db))
  BY SameSound DEF Good, Result
<1>3. AllGood(r, results)
  BY <1>2 DEF AllGood
<1> HIDE DEF results
<1> QED BY <1>1, <1>3, Gate

LEMMA ReadOnlyGood ==
  ASSUME ServInv, NEW r, NEW statuses \in SUBSET Nat PROVE AllGood(r, ReadOnly(r, statuses))
<1> DEFINE results == {Plain(s) : s \in statuses \cup {500}}
<1>1. \A s \in Nat : Good(r, Plain(s))
  BY Statuses
<1>2. AllGood(r, results)
  BY <1>1 DEF AllGood
<1> HIDE DEF results
<1>3. AllGood(r, Authed(r, results))
  BY <1>2, AuthedGood
<1> QED BY <1>3 DEF ReadOnly, results

LEMMA UsageGood ==
  ASSUME ServInv, NEW r, r.fields = fields
  PROVE  AllGood(r, AuthedMutate(r, {Plain(s) : s \in {200, 429, 500}}))
<1> DEFINE results == {Plain(s) : s \in {200, 429, 500}}
<1>1. AllGood(r, results)
  BY Statuses DEF AllGood
<1> HIDE DEF results
<1>2. AllGood(r, AuthedMutate(r, results))
  BY <1>1, Gate
<1> QED BY <1>2 DEF results

LEMMA PostGood ==
  ASSUME ServInv, NEW r, r.fields = fields, NEW segs PROVE AllGood(r, Post(r, segs))
BY PaymentGood, SignupGood, SigninGood, SignoutGood, UsageGood, CheckoutGood, PortalGood,
   SpotsCreateGood, BookingsCreateGood, Ends DEF Post

LEMMA FetchGood == ASSUME ServInv, NEW r, NEW segs PROVE AllGood(r, Fetch(r, segs))
<1>1. AllGood(r, {Plain(200), Plain(503)})
  BY Statuses DEF AllGood
<1>2. Page(segs) \in Nat
  BY DEF Page
<1>3. AllGood(r, {Plain(Page(segs))})
  BY <1>2, Ends
<1>4. \A S \in SUBSET Nat : AllGood(r, ReadOnly(r, S))
  BY ReadOnlyGood
<1>5. AllGood(r, ReadOnly(r, {200, 404})) /\ AllGood(r, ReadOnly(r, {200}))
  BY <1>4
<1>6. AllGood(r, ReadOnly(r, {IF SpotId(segs) \in DOMAIN db.spots THEN 200 ELSE 404}))
  BY <1>4
<1> QED BY <1>1, <1>3, <1>5, <1>6 DEF Fetch

LEMMA DispatchGood ==
  ASSUME ServInv, NEW r, r.fields = fields PROVE AllGood(r, Dispatch(r))
<1> DEFINE segs == r.line.target.segs
           method == r.line.method
<1>1. Page(segs) \in Nat
  BY DEF Page
<1>2. AllGood(r, {Plain(204)}) /\ AllGood(r, {Plain(404)}) /\ AllGood(r, {Plain(Page(segs))})
  BY <1>1, Ends
<1> QED BY <1>2, PostGood, FetchGood, MePutGood, SpotsUpdateGood, SpotsDeleteGood DEF Dispatch

-----------------------------------------------------------------------------
(* Every step                                                              *)

LEMMA LexemeComes == ASSUME Carried, pos < sent
               PROVE  /\ Lexeme \in ToSet(wire) /\ pos + 1 \in Nat
                      /\ Append(fields, Lexeme) \in Seq(ToSet(wire))
<1>1. wire \in Seq(ToSet(wire))
  BY ScriptsAssumption DEF Carried
<1>2. pos + 1 \in 1..Len(wire)
  BY <1>1 DEF Carried
<1>3. Lexeme \in ToSet(wire)
  BY <1>1, <1>2, InSequence DEF Lexeme
<1> QED BY <1>2, <1>3, AppendProperties DEF Carried

\* The lines of a head are those that came.
LEMMA CarriedKeeps ==
  ASSUME Carried, ConnStep \/ \E status : Answer(status) PROVE Carried'
<1>1. \A S : <<>> \in Seq(S)
  OBVIOUS
<1>2. CASE UNCHANGED <<script, wire, pos, fields>> /\ sent' \in {sent, sent + 1} /\ sent' <= Len(wire)
  BY <1>2 DEF Carried
<1>3. CASE /\ UNCHANGED wireVars /\ pos' \in {pos, pos + 1}
           /\ fields' \in {fields, <<>>, Append(fields, Lexeme)}
           /\ fields' = Append(fields, Lexeme) => pos < sent
  <2>1. pos' \in Nat /\ UNCHANGED <<script, wire, sent>>
    BY <1>3 DEF Carried, wireVars
  <2>2. fields' \in Seq(ToSet(wire))
    BY <1>1, <1>3, LexemeComes DEF Carried
  <2> QED BY <2>1, <2>2 DEF Carried
<1>4. CASE Client \/ Tick \/ Shutdown
  BY <1>2, <1>4 DEF Client, Arrive, HangUp, Drip, Tick, Shutdown, wireVars, request, Carried
<1>5. CASE Reading
  <2>1. CASE ReadField
    BY <1>3, <2>1 DEF ReadField, Reads, Refuse, Consume, request
  <2>2. CASE ReadFirst \/ EndOfHead
    BY <1>3, <2>2 DEF ReadFirst, EndOfHead, Reads, Refuse, Consume, ReadExact, request
  <2>3. CASE ReadSize \/ ReadData \/ DataDone \/ ReadCrlf \/ ReadTrailer
    BY <1>3, <2>3 DEF ReadSize, ReadData, DataDone, ReadCrlf, ReadTrailer, Reads, Refuse, Consume,
                      ReadExact, request
  <2>4. CASE Eof \/ TimedOut
    BY <1>3, <2>4 DEF Eof, TimedOut, Close, Refuse, request
  <2> QED BY <1>5, <2>1, <2>2, <2>3, <2>4 DEF Reading
<1>6. CASE \E status : Answer(status)
  BY <1>3, <1>6 DEF Answer, request
<1> QED BY <1>4, <1>5, <1>6 DEF ConnStep

\* What the handler does.
LEMMA RespondGood ==
  ASSUME ServInv, Respond
  PROVE  \E status \in Nat : Answer(status) /\ Sound(db') /\ Earned(Request, db')
<1>1. PICK res \in Dispatch(Request) \cup {Plain(500)} : Answer(res.status) /\ db' = res.db
  BY DEF Respond
<1>2. Request.fields = fields
  BY DEF Request
<1>3. Good(Request, res)
  <2>1. AllGood(Request, Dispatch(Request)) /\ AllGood(Request, {Plain(500)})
    BY <1>2, DispatchGood, Ends
  <2> QED BY <1>1, <2>1 DEF AllGood
<1> QED BY <1>1, <1>3 DEF Good

LEMMA ServInvariant == ServiceSpec => []ServInv
<1>1. ServiceInit => ServInv
  <2> SUFFICES ASSUME ServiceInit PROVE ServInv
    OBVIOUS
  <2>1. wire \in Seq(ToSet(wire))
    BY ScriptsAssumption DEF ServiceInit, ConnInit
  <2>2. Carried
    BY <2>1 DEF ServiceInit, ConnInit, Carried
  <2>3. Sound(db)
    BY DbAssumption DEF ServiceInit, Sound
  <2> QED BY <2>2, <2>3 DEF ServiceInit, ServInv
<1>2. ServInv /\ [ServiceNext]_allVars => ServInv'
  <2> SUFFICES ASSUME ServInv, [ServiceNext]_allVars PROVE ServInv'
    OBVIOUS
  <2>1. UNCHANGED <<machine, config>>
    BY DEF ServiceNext, Respond, serviceVars, allVars
  <2>2. Sound(db')
    BY RespondGood DEF ServiceNext, serviceVars, allVars, ServInv
  <2>3. Sound(db)'
    BY <2>1, <2>2 DEF Sound, Tables, SoundRows, Subject
  <2>4. Carried'
    <3>1. CASE ConnStep \/ Respond
      BY <3>1, CarriedKeeps DEF ServInv, Respond
    <3>2. CASE UNCHANGED allVars
      BY <3>2 DEF allVars, connVars, wireVars, request, Carried, ServInv
    <3> QED BY <3>1, <3>2 DEF ServiceNext
  <2>5. (config \in Boots(machine))'
    BY <2>1 DEF ServInv
  <2> QED BY <2>3, <2>4, <2>5 DEF ServInv
<1> QED BY <1>1, <1>2, PTL DEF ServiceSpec

\* Whatever bodies come and in whatever order, what the handlers have stored is complete
\* and within its limits, and every token they have handed out opens a session.
THEOREM RowsStaySound == ServiceSpec => []RowsSound
<1>1. ServInv => RowsSound
  BY DEF ServInv, Sound, RowsSound
<1> QED BY <1>1, ServInvariant, PTL

\* Whatever a request changes belongs to a user it has proven to speak for, or is an
\* event that Stripe has signed.
THEOREM EveryWriteEarned == ServiceSpec => WritesEarned
<1>1. ServInv /\ [ServiceNext]_allVars => [Earned(Request, db')]_allVars
  <2> SUFFICES ASSUME ServInv, ServiceNext PROVE Earned(Request, db')
    OBVIOUS
  <2>1. CASE Respond
    BY <2>1, RespondGood
  <2>2. CASE UNCHANGED serviceVars
    BY <2>2, SameSound DEF serviceVars
  <2> QED BY <2>1, <2>2 DEF ServiceNext
<1> QED BY <1>1, ServInvariant, PTL DEF ServiceSpec, WritesEarned

\* The handlers do to the connection what any handler may.
THEOREM ServiceServes == ServiceSpec => ConnSpec
<1>1. ServiceInit => ConnInit
  BY DEF ServiceInit
<1>2. ServInv /\ [ServiceNext]_allVars => [ConnNext]_connVars
  <2> SUFFICES ASSUME ServInv, [ServiceNext]_allVars PROVE [ConnNext]_connVars
    OBVIOUS
  <2>1. CASE Respond
    BY <2>1, RespondGood DEF ConnNext
  <2> QED BY <2>1 DEF ServiceNext, ConnNext, allVars
<1> QED BY <1>1, <1>2, ServInvariant, PTL DEF ServiceSpec, ConnSpec

\* So the time that a request may take does not depend on the handlers.
THEOREM ServiceIsTimed == ServiceSpec => []HeldBriefly
BY ServiceServes, RequestsAreTimed, PTL

-----------------------------------------------------------------------------
(* Sequences end to end                                                    *)

\* Induction, for a set: a number outside it would have a least one.
LEMMA Induction ==
  ASSUME NEW S, 0 \in S, \A n \in Nat : n \in S => n + 1 \in S
  PROVE  Nat \subseteq S
<1>1. ASSUME Nat \ S # {} PROVE FALSE
  <2>1. Nat \ S \in SUBSET Nat
    OBVIOUS
  <2>2. PICK x \in Nat \ S : \A y \in Nat \ S : x <= y
    BY <1>1, <2>1, FirstIn
  <2>3. x - 1 \in Nat \ S
    OBVIOUS
  <2> QED BY <2>2, <2>3
<1> QED BY <1>1

\* f is what FlattenSeq makes of the first n members of s, one after another.
Joins(f, s, n) == f = [i \in 1..n |-> IF i = 1 THEN s[i] ELSE f[i - 1] \o s[i]]

\* f[i] joins the first i of the sequences.
LEMMA JoinSteps ==
  ASSUME NEW s, NEW n, NEW f, Joins(f, s, n)
  PROVE  \A i \in 1..n : f[i] = IF i = 1 THEN s[i] ELSE f[i - 1] \o s[i]
BY Zenon DEF Joins

LEMMA JoinExists == ASSUME NEW s, NEW n \in Nat PROVE \E f : Joins(f, s, n)
<1> DEFINE G == {m \in Nat : \E f : Joins(f, s, m)}
<1>1. 0 \in G
  <2>1. Joins([i \in 1..0 |-> {}], s, 0)
    BY DEF Joins
  <2> QED BY <2>1
<1>2. ASSUME NEW m \in Nat, m \in G PROVE m + 1 \in G
  <2>1. PICK f : Joins(f, s, m)
    BY <1>2
  <2> DEFINE last == IF m = 0 THEN s[m + 1] ELSE f[m] \o s[m + 1]
             g == [i \in 1..(m + 1) |-> IF i = m + 1 THEN last ELSE f[i]]
  <2>2. (\A i \in 1..m : g[i] = f[i]) /\ g[m + 1] = last
    <3> HIDE DEF last
    <3> QED OBVIOUS
  <2>3. g = [i \in 1..(m + 1) |-> g[i]]
    OBVIOUS
  <2>4. ASSUME NEW i \in 1..(m + 1) PROVE g[i] = IF i = 1 THEN s[i] ELSE g[i - 1] \o s[i]
    <3> HIDE DEF g
    <3>1. CASE i = m + 1
      <4>1. i = 1 <=> m = 0
        BY <3>1
      <4>2. m # 0 => m \in 1..m /\ i - 1 = m
        BY <3>1
      <4> QED BY <2>2, <3>1, <4>1, <4>2
    <3>2. CASE i # m + 1
      <4>1. i \in 1..m /\ (i # 1 => i - 1 \in 1..m)
        BY <3>2
      <4>2. f[i] = IF i = 1 THEN s[i] ELSE f[i - 1] \o s[i]
        BY <2>1, <4>1 DEF Joins
      <4> QED BY <2>2, <4>1, <4>2
    <3> QED BY <3>1, <3>2
  <2> HIDE DEF g
  <2>5. [i \in 1..(m + 1) |-> g[i]]
          = [i \in 1..(m + 1) |-> IF i = 1 THEN s[i] ELSE g[i - 1] \o s[i]]
    BY <2>4
  <2>6. Joins(g, s, m + 1)
    BY <2>3, <2>5 DEF Joins
  <2> QED BY <2>6
<1> HIDE DEF G
<1>3. n \in G
  BY <1>1, <1>2, Induction
<1> QED BY <1>3 DEF G

\* It does not depend on what follows.
LEMMA JoinAgrees ==
  ASSUME NEW s, NEW t, NEW n \in Nat, NEW m \in Nat, NEW f, NEW g, Joins(f, s, n), Joins(g, t, m),
         n <= m, \A i \in 1..n : s[i] = t[i]
  PROVE  \A i \in 1..n : f[i] = g[i]
<1> DEFINE G == {i \in Nat : i \in 1..n => f[i] = g[i]}
<1>1. 0 \in G
  OBVIOUS
<1>2. ASSUME NEW i \in Nat, i \in G PROVE i + 1 \in G
  <2>1. SUFFICES ASSUME i + 1 \in 1..n PROVE f[i + 1] = g[i + 1]
    OBVIOUS
  <2>2. /\ f[i + 1] = IF i + 1 = 1 THEN s[i + 1] ELSE f[i + 1 - 1] \o s[i + 1]
        /\ g[i + 1] = IF i + 1 = 1 THEN t[i + 1] ELSE g[i + 1 - 1] \o t[i + 1]
    <3>1. i + 1 \in 1..m
      BY <2>1
    <3> QED BY <2>1, <3>1, JoinSteps
  <2>3. i + 1 - 1 = i /\ (i + 1 # 1 => f[i] = g[i])
    BY <1>2, <2>1
  <2> QED BY <2>1, <2>2, <2>3
<1> HIDE DEF G
<1>3. \A i \in Nat : i \in G
  BY <1>1, <1>2, Induction
<1> QED BY <1>3 DEF G

\* FlattenSeq is the last of them.
LEMMA FlattenIs ==
  ASSUME NEW S, NEW s \in Seq(S)
  PROVE  /\ s = <<>> => FlattenSeq(s) = <<>>
         /\ s # <<>> => \E f : Joins(f, s, Len(s)) /\ FlattenSeq(s) = f[Len(s)]
<1>1. Len(s) \in Nat /\ (s = <<>> <=> Len(s) = 0)
  BY LenProperties, EmptySeq
<1>2. FlattenSeq(s) = IF Len(s) = 0 THEN s ELSE (CHOOSE f : Joins(f, s, Len(s)))[Len(s)]
  BY DEF FlattenSeq, Joins
<1>3. Joins(CHOOSE f : Joins(f, s, Len(s)), s, Len(s))
  BY <1>1, JoinExists
<1> QED BY <1>1, <1>2, <1>3

LEMMA FlattenLonger ==
  ASSUME NEW S, NEW s \in Seq(S), NEW t \in Seq(S), s # <<>>, Len(t) = Len(s) + 1,
         \A i \in 1..Len(s) : s[i] = t[i]
  PROVE  FlattenSeq(t) = FlattenSeq(s) \o t[Len(t)]
<1>1. Len(s) \in Nat /\ Len(s) # 0 /\ Len(t) \in Nat /\ t # <<>>
  BY LenProperties, EmptySeq
<1>2. PICK f : Joins(f, s, Len(s)) /\ FlattenSeq(s) = f[Len(s)]
  BY FlattenIs
<1>3. PICK g : Joins(g, t, Len(t)) /\ FlattenSeq(t) = g[Len(t)]
  BY <1>1, FlattenIs
<1>4. f[Len(s)] = g[Len(s)]
  <2>1. Len(s) \in 1..Len(s) /\ Len(s) <= Len(t)
    BY <1>1
  <2>2. \A a, b \in Nat : /\ Joins(f, s, a) /\ Joins(g, t, b) /\ a <= b
                          /\ \A i \in 1..a : s[i] = t[i]
                          => \A i \in 1..a : f[i] = g[i]
    BY JoinAgrees, SMT
  <2>3. Joins(f, s, Len(s)) /\ Joins(g, t, Len(t)) /\ \A i \in 1..Len(s) : s[i] = t[i]
    BY <1>2, <1>3
  <2>4. \A i \in 1..Len(s) : f[i] = g[i]
    BY <1>1, <2>1, <2>2, <2>3, Zenon
  <2> QED BY <2>1, <2>4
<1>5. g[Len(t)] = g[Len(s)] \o t[Len(t)]
  <2>1. Len(t) \in 1..Len(t) /\ Len(t) # 1 /\ Len(t) - 1 = Len(s)
    BY <1>1
  <2>2. \A i \in 1..Len(t) : g[i] = IF i = 1 THEN t[i] ELSE g[i - 1] \o t[i]
    BY <1>3, JoinSteps
  <2> QED BY <2>1, <2>2
<1> QED BY <1>2, <1>3, <1>4, <1>5

LEMMA FlattenOne ==
  ASSUME NEW S, NEW t \in Seq(S), Len(t) = 1
  PROVE  FlattenSeq(t) = t[1]
<1>1. t # <<>>
  OBVIOUS
<1>2. PICK g : Joins(g, t, Len(t)) /\ FlattenSeq(t) = g[Len(t)]
  BY <1>1, FlattenIs
<1>3. \A i \in 1..1 : g[i] = IF i = 1 THEN t[i] ELSE g[i - 1] \o t[i]
  BY <1>2, JoinSteps
<1> QED BY <1>2, <1>3

\* One more sequence at the end.
LEMMA FlattenGrows ==
  ASSUME NEW S, NEW s \in Seq(Seq(S)), NEW t \in Seq(Seq(S)), Len(t) = Len(s) + 1,
         \A i \in 1..Len(s) : s[i] = t[i]
  PROVE  FlattenSeq(t) = FlattenSeq(s) \o t[Len(t)]
<1>1. Len(s) \in Nat /\ Len(t) \in 1..Len(t) /\ t[Len(t)] \in Seq(S)
  BY LenProperties, ElementOfSeq
<1>2. CASE s = <<>>
  <2>1. Len(t) = 1 /\ FlattenSeq(s) = <<>>
    <3>1. Len(s) = 0
      BY <1>2
    <3>2. FlattenSeq(s) = <<>>
      BY <1>2, FlattenIs
    <3> QED BY <3>1, <3>2
  <2>2. FlattenSeq(t) = t[1]
    BY <2>1, FlattenOne
  <2> QED BY <1>1, <2>1, <2>2, ConcatEmptySeq
<1>3. CASE s # <<>>
  BY <1>3, FlattenLonger
<1> QED BY <1>2, <1>3

\* Where the i-th member of s ends.
EndOf(s, i) == Len(FlattenSeq(SubSeq(s, 1, i)))

\* Each member is found whole, after those before it.
LEMMA PartsPlaced ==
  ASSUME NEW S, NEW s \in Seq(Seq(S))
  PROVE  /\ FlattenSeq(s) \in Seq(S) /\ EndOf(s, 0) = 0 /\ EndOf(s, Len(s)) = Len(FlattenSeq(s))
         /\ \A i \in 0..Len(s) : EndOf(s, i) \in Nat /\ EndOf(s, i) <= Len(FlattenSeq(s))
         /\ \A i \in 1..Len(s) : /\ EndOf(s, i) = EndOf(s, i - 1) + Len(s[i])
                                /\ \A j \in 1..Len(s[i]) :
                                      FlattenSeq(s)[EndOf(s, i - 1) + j] = s[i][j]
<1> DEFINE F(n) == FlattenSeq(SubSeq(s, 1, n))
           E(n) == EndOf(s, n)
           Laid(n) == /\ F(n) \in Seq(S) /\ E(n) \in Nat
                      /\ \A i \in 0..n : E(i) \in Nat /\ E(i) <= E(n)
                      /\ \A i \in 1..n : /\ E(i) = E(i - 1) + Len(s[i])
                                        /\ \A j \in 1..Len(s[i]) : F(n)[E(i - 1) + j] = s[i][j]
           G == {n \in Nat : n <= Len(s) => Laid(n)}
<1>1. Len(s) \in Nat /\ \A i \in 1..Len(s) : s[i] \in Seq(S) /\ Len(s[i]) \in Nat
  BY LenProperties, ElementOfSeq
<1>2. \A n \in 0..Len(s) : /\ SubSeq(s, 1, n) \in Seq(Seq(S)) /\ Len(SubSeq(s, 1, n)) = n
                           /\ \A i \in 1..n : SubSeq(s, 1, n)[i] = s[i]
  <2> TAKE n \in 0..Len(s)
  <2>1. \A i \in 1..n : s[i] \in Seq(S)
    BY <1>1
  <2> QED BY <1>1, <2>1, SubSeqProperties
<1>3. \A n \in 0..Len(s) : E(n) = Len(F(n))
  BY DEF EndOf
<1>4. F(0) = <<>> /\ E(0) = 0
  <2>1. SubSeq(s, 1, 0) = <<>>
    BY <1>1, <1>2, EmptySeq
  <2> QED BY <2>1, FlattenIs, EmptySeq DEF EndOf
<1>5. \A n \in 0..Len(s) : n + 1 <= Len(s) => F(n + 1) = F(n) \o s[n + 1]
  <2> SUFFICES ASSUME NEW n \in 0..Len(s), n + 1 <= Len(s) PROVE F(n + 1) = F(n) \o s[n + 1]
    OBVIOUS
  <2>1. /\ SubSeq(s, 1, n) \in Seq(Seq(S)) /\ Len(SubSeq(s, 1, n)) = n
        /\ SubSeq(s, 1, n + 1) \in Seq(Seq(S)) /\ Len(SubSeq(s, 1, n + 1)) = n + 1
        /\ \A i \in 1..n : SubSeq(s, 1, n)[i] = SubSeq(s, 1, n + 1)[i]
        /\ SubSeq(s, 1, n + 1)[n + 1] = s[n + 1]
    BY <1>1, <1>2
  <2> QED BY <2>1, FlattenGrows
<1> HIDE DEF F, E
<1> HIDE DEF Laid
<1>6. 0 \in G
  <2>1. <<>> \in Seq(S)
    OBVIOUS
  <2>2. (\A i \in 0..0 : i = 0) /\ 1..0 = {}
    OBVIOUS
  <2>3. F(0) \in Seq(S) /\ E(0) \in Nat /\ E(0) <= E(0)
    <3>1. F(0) \in Seq(S)
      BY <1>4, <2>1, Zenon
    <3>2. E(0) = 0
      BY <1>4
    <3> QED BY <3>1, <3>2
  <2>4. Laid(0)
    BY <2>2, <2>3 DEF Laid
  <2> QED BY <2>4
<1>7. ASSUME NEW n \in Nat, n \in G PROVE n + 1 \in G
  <2> SUFFICES ASSUME n + 1 <= Len(s) PROVE Laid(n + 1)
    OBVIOUS
  <2>1. Laid(n) /\ n \in 0..Len(s) /\ n + 1 \in 0..Len(s) /\ n + 1 \in 1..Len(s)
    BY <1>1, <1>7
  <2>2. F(n + 1) = F(n) \o s[n + 1] /\ s[n + 1] \in Seq(S) /\ Len(s[n + 1]) \in Nat /\ F(n) \in Seq(S)
    BY <1>1, <1>5, <2>1 DEF Laid
  <2>3. /\ F(n + 1) \in Seq(S) /\ Len(F(n + 1)) = Len(F(n)) + Len(s[n + 1])
        /\ \A k \in 1..(Len(F(n)) + Len(s[n + 1])) :
              F(n + 1)[k] = IF k <= Len(F(n)) THEN F(n)[k] ELSE s[n + 1][k - Len(F(n))]
    <3>1. /\ F(n) \o s[n + 1] \in Seq(S)
          /\ Len(F(n) \o s[n + 1]) = Len(F(n)) + Len(s[n + 1])
          /\ \A k \in 1..(Len(F(n)) + Len(s[n + 1])) :
              (F(n) \o s[n + 1])[k] = IF k <= Len(F(n)) THEN F(n)[k] ELSE s[n + 1][k - Len(F(n))]
      BY <2>2, ConcatProperties
    <3> QED BY <2>2, <3>1
  <2>4. E(n + 1) = E(n) + Len(s[n + 1]) /\ E(n) = Len(F(n)) /\ E(n) \in Nat
    BY <1>3, <2>1, <2>3
  <2>5. \A i \in 0..(n + 1) : E(i) \in Nat /\ E(i) <= E(n + 1)
    <3>1. \A i \in 0..(n + 1) : i \in 0..n \/ i = n + 1
      OBVIOUS
    <3>2. E(n + 1) \in Nat /\ E(n) <= E(n + 1)
      BY <2>2, <2>4
    <3>3. \A i \in 0..n : E(i) \in Nat /\ E(i) <= E(n)
      BY <2>1 DEF Laid
    <3> QED BY <2>4, <3>1, <3>2, <3>3
  <2>6. ASSUME NEW i \in 1..(n + 1), NEW j \in 1..Len(s[i])
        PROVE  F(n + 1)[E(i - 1) + j] = s[i][j]
    <3>1. CASE i = n + 1
      <4>1. E(i - 1) = E(n) /\ E(n) + j \in 1..(Len(F(n)) + Len(s[n + 1])) /\ E(n) + j > Len(F(n))
        BY <2>2, <2>4, <3>1
      <4>2. E(n) + j - Len(F(n)) = j
        BY <2>4, <4>1
      <4>3. F(n + 1)[E(n) + j] = s[n + 1][E(n) + j - Len(F(n))]
        BY <2>3, <2>4, <4>1
      <4> QED BY <3>1, <4>1, <4>2, <4>3
    <3>2. CASE i # n + 1
      <4>1. i \in 1..n /\ i - 1 \in 0..n /\ i \in 0..n /\ Len(s[i]) \in Nat
        BY <1>1, <2>1, <3>2
      <4>2. E(i) = E(i - 1) + Len(s[i]) /\ E(i) <= E(n) /\ E(i - 1) \in Nat
        BY <2>1, <4>1 DEF Laid
      <4>3. E(i - 1) + j \in 1..(Len(F(n)) + Len(s[n + 1])) /\ E(i - 1) + j <= Len(F(n))
        <5>1. Len(F(n)) \in Nat /\ Len(F(n)) = E(n) /\ Len(s[n + 1]) \in Nat
          BY <2>2, <2>4
        <5>2. \A a, b, c, d \in Nat : a + c <= b /\ j <= c => a + j \in 1..(b + d) /\ a + j <= b
          BY <4>1
        <5>3. j <= Len(s[i])
          BY <4>1
        <5> QED BY <4>1, <4>2, <5>1, <5>2, <5>3
      <4>4. F(n)[E(i - 1) + j] = s[i][j]
        BY <2>1, <4>1 DEF Laid
      <4> QED BY <2>3, <4>3, <4>4
    <3> QED BY <3>1, <3>2
  <2>7. \A i \in 1..(n + 1) : E(i) = E(i - 1) + Len(s[i])
    <3>1. \A i \in 1..(n + 1) : i \in 1..n \/ (i = n + 1 /\ i - 1 = n)
      OBVIOUS
    <3> QED BY <2>1, <2>4, <3>1 DEF Laid
  <2>8. \A i \in 1..(n + 1) : \A j \in 1..Len(s[i]) : F(n + 1)[E(i - 1) + j] = s[i][j]
    BY <2>6
  <2>9. F(n + 1) \in Seq(S) /\ E(n + 1) \in Nat
    BY <2>1, <2>3, <2>5
  <2> QED BY <2>5, <2>7, <2>8, <2>9, Zenon DEF Laid
<1>8. Laid(Len(s))
  <2> HIDE DEF G
  <2>1. Len(s) \in G
    BY <1>1, <1>6, <1>7, Induction
  <2> QED BY <1>1, <2>1 DEF G
<1>9. F(Len(s)) = FlattenSeq(s) /\ E(Len(s)) = Len(FlattenSeq(s))
  <2>1. SubSeq(s, 1, Len(s)) = s
    BY SubSeqFull
  <2> QED BY <2>1 DEF F, E, EndOf
<1> QED BY <1>4, <1>8, <1>9 DEF E, Laid

\* A sequence of whatever.
Sequence(s) == \E X : s \in Seq(X)

\* s is found in r, after k others.
Within(s, r, k) == /\ Sequence(s) /\ Len(s) \in Nat /\ Len(r) \in Nat /\ k \in Nat
                   /\ k + Len(s) <= Len(r)
                   /\ \A i \in 1..Len(s) : r[k + i] = s[i]

\* Two sequences one after the other.
LEMMA Joined ==
  ASSUME NEW s, NEW t, Sequence(s), Sequence(t)
  PROVE  /\ Sequence(s \o t) /\ Len(s) \in Nat /\ Len(t) \in Nat /\ Len(s \o t) = Len(s) + Len(t)
         /\ Within(s, s \o t, 0) /\ Within(t, s \o t, Len(s))
<1>1. PICK X, Y : s \in Seq(X) /\ t \in Seq(Y)
  BY DEF Sequence
<1>2. s \in Seq(X \cup Y) /\ t \in Seq(X \cup Y)
  BY <1>1, SeqMonotonic
<1>3. Len(s) \in Nat /\ Len(t) \in Nat
  BY <1>2, LenProperties
<1>4. /\ s \o t \in Seq(X \cup Y) /\ Len(s \o t) = Len(s) + Len(t)
      /\ \A i \in 1..(Len(s) + Len(t)) : (s \o t)[i] = IF i <= Len(s) THEN s[i] ELSE t[i - Len(s)]
  BY <1>2, ConcatProperties
<1>5. \A i \in 1..Len(s) : (s \o t)[i] = s[i]
  BY <1>3, <1>4
<1>6. ASSUME NEW i \in 1..Len(t) PROVE (s \o t)[Len(s) + i] = t[i]
  <2>1. Len(s) + i \in 1..(Len(s) + Len(t)) /\ ~(Len(s) + i <= Len(s)) /\ Len(s) + i - Len(s) = i
    BY <1>3
  <2> QED BY <1>4, <2>1
<1>7. Sequence(s \o t)
  BY <1>4 DEF Sequence
<1>8. Within(s, s \o t, 0)
  <2>1. \A i \in 1..Len(s) : 0 + i = i
    BY <1>3
  <2>2. \A i \in 1..Len(s) : (s \o t)[0 + i] = s[i]
    BY <1>5, <2>1
  <2> QED BY <1>3, <1>4, <2>2 DEF Within
<1>9. Within(t, s \o t, Len(s))
  BY <1>3, <1>4, <1>6 DEF Within
<1> QED BY <1>3, <1>4, <1>7, <1>8, <1>9

\* What is found in a part of r is found in r.
LEMMA Inside ==
  ASSUME NEW r, NEW s, NEW t, NEW k, NEW l, Within(s, r, k), Within(t, s, l)
  PROVE  Within(t, r, k + l)
<1>1. /\ Len(r) \in Nat /\ Len(s) \in Nat /\ Len(t) \in Nat /\ k \in Nat /\ l \in Nat
      /\ k + Len(s) <= Len(r) /\ l + Len(t) <= Len(s) /\ Sequence(t)
  BY DEF Within
<1>2. ASSUME NEW i \in 1..Len(t) PROVE r[k + l + i] = t[i]
  <2>1. l + i \in 1..Len(s) /\ k + (l + i) = k + l + i
    BY <1>1
  <2>2. r[k + (l + i)] = s[l + i]
    BY <2>1 DEF Within
  <2>3. s[l + i] = t[i]
    BY DEF Within
  <2> QED BY <2>1, <2>2, <2>3
<1>3. k + l \in Nat /\ k + l + Len(t) <= Len(r)
  BY <1>1
<1> QED BY <1>1, <1>2, <1>3 DEF Within

\* What is found there is one of its members.
LEMMA Member ==
  ASSUME NEW r, NEW s, NEW k, Within(s, r, k), NEW i \in 1..Len(s), NEW j, j = k + i
  PROVE  r[j] = s[i] /\ j \in 1..Len(r)
BY DEF Within

\* r is a few sequences one after another.
IsThree(r, a, b, c) ==
    /\ Len(a) \in Nat /\ Len(b) \in Nat /\ Len(c) \in Nat
    /\ Sequence(r) /\ Len(r) = Len(a) + Len(b) + Len(c)
    /\ Within(a, r, 0) /\ Within(b, r, Len(a)) /\ Within(c, r, Len(a) + Len(b))

IsFour(r, a, b, c, d) ==
    /\ Len(a) \in Nat /\ Len(b) \in Nat /\ Len(c) \in Nat /\ Len(d) \in Nat
    /\ Sequence(r) /\ Len(r) = Len(a) + Len(b) + Len(c) + Len(d)
    /\ Within(a, r, 0) /\ Within(b, r, Len(a)) /\ Within(c, r, Len(a) + Len(b))
    /\ Within(d, r, Len(a) + Len(b) + Len(c))

IsFive(r, a, b, c, d, e) ==
    /\ Len(a) \in Nat /\ Len(b) \in Nat /\ Len(c) \in Nat /\ Len(d) \in Nat /\ Len(e) \in Nat
    /\ Sequence(r) /\ Len(r) = Len(a) + Len(b) + Len(c) + Len(d) + Len(e)
    /\ Within(a, r, 0) /\ Within(b, r, Len(a)) /\ Within(c, r, Len(a) + Len(b))
    /\ Within(d, r, Len(a) + Len(b) + Len(c)) /\ Within(e, r, Len(a) + Len(b) + Len(c) + Len(d))

\* What follows a sequence does not move what is in it.
LEMMA Followed ==
  ASSUME NEW f, NEW d, Sequence(f), Sequence(d), NEW s, NEW k, Within(s, f, k)
  PROVE  Within(s, f \o d, k)
<1>1. Within(f, f \o d, 0)
  BY Joined
<1>2. Within(s, f \o d, 0 + k)
  BY <1>1, Inside
<1>3. 0 + k = k
  BY DEF Within
<1> QED BY <1>2, <1>3

LEMMA ThreeJoined ==
  ASSUME NEW a, NEW b, NEW c, Sequence(a), Sequence(b), Sequence(c)
  PROVE  IsThree(a \o b \o c, a, b, c)
<1> DEFINE f == a \o b
<1>1. /\ Len(a) \in Nat /\ Len(b) \in Nat /\ Sequence(f) /\ Len(f) = Len(a) + Len(b)
      /\ Within(a, f, 0) /\ Within(b, f, Len(a))
  BY Joined
<1> HIDE DEF f
<1>2. /\ Len(c) \in Nat /\ Sequence(f \o c) /\ Len(f \o c) = Len(f) + Len(c)
      /\ Within(c, f \o c, Len(f))
  BY <1>1, Joined
<1>3. Within(a, f \o c, 0) /\ Within(b, f \o c, Len(a))
  BY <1>1, Followed
<1>4. IsThree(f \o c, a, b, c)
  BY <1>1, <1>2, <1>3 DEF IsThree
<1> QED BY <1>4 DEF f

LEMMA FourJoined ==
  ASSUME NEW a, NEW b, NEW c, NEW d, Sequence(a), Sequence(b), Sequence(c), Sequence(d)
  PROVE  IsFour(a \o b \o c \o d, a, b, c, d)
<1> DEFINE f == a \o b \o c
<1>1. IsThree(f, a, b, c)
  BY ThreeJoined
<1> HIDE DEF f
<1>2. Sequence(f)
  BY <1>1 DEF IsThree
<1>3. /\ Len(d) \in Nat /\ Sequence(f \o d) /\ Len(f \o d) = Len(f) + Len(d)
      /\ Within(d, f \o d, Len(f))
  BY <1>2, Joined
<1>4. Within(a, f \o d, 0) /\ Within(b, f \o d, Len(a)) /\ Within(c, f \o d, Len(a) + Len(b))
  BY <1>1, <1>2, Followed DEF IsThree
<1>5. IsFour(f \o d, a, b, c, d)
  BY <1>1, <1>3, <1>4 DEF IsThree, IsFour
<1> QED BY <1>5 DEF f

LEMMA FiveJoined ==
  ASSUME NEW a, NEW b, NEW c, NEW d, NEW e,
         Sequence(a), Sequence(b), Sequence(c), Sequence(d), Sequence(e)
  PROVE  IsFive(a \o b \o c \o d \o e, a, b, c, d, e)
<1> DEFINE f == a \o b \o c \o d
<1>1. IsFour(f, a, b, c, d)
  BY FourJoined
<1> HIDE DEF f
<1>2. Sequence(f)
  BY <1>1 DEF IsFour
<1>3. /\ Len(e) \in Nat /\ Sequence(f \o e) /\ Len(f \o e) = Len(f) + Len(e)
      /\ Within(e, f \o e, Len(f))
  BY <1>2, Joined
<1>4. Within(a, f \o e, 0) /\ Within(b, f \o e, Len(a))
  BY <1>1, <1>2, Followed DEF IsFour
<1>5. Within(c, f \o e, Len(a) + Len(b)) /\ Within(d, f \o e, Len(a) + Len(b) + Len(c))
  BY <1>1, <1>2, Followed DEF IsFour
<1>6. IsFive(f \o e, a, b, c, d, e)
  BY <1>1, <1>3, <1>4, <1>5 DEF IsFour, IsFive
<1> QED BY <1>6 DEF f

\* Two sequences that agree everywhere are one.
LEMMA Same ==
  ASSUME NEW s, NEW t, Sequence(s), Sequence(t), Len(s) = Len(t), \A i \in 1..Len(s) : s[i] = t[i]
  PROVE  s = t
<1>1. PICK X, Y : s \in Seq(X) /\ t \in Seq(Y)
  BY DEF Sequence
<1>2. s \in Seq(X \cup Y) /\ t \in Seq(X \cup Y)
  BY <1>1, SeqMonotonic
<1> QED BY <1>2, SeqEqual

\* A sequence with another element.
LEMMA Grown ==
  ASSUME NEW s, NEW x, Sequence(s)
  PROVE  /\ Sequence(Append(s, x)) /\ Len(s) \in Nat /\ Len(Append(s, x)) = Len(s) + 1
         /\ \A i \in 1..Len(s) : Append(s, x)[i] = s[i]
         /\ Append(s, x)[Len(s) + 1] = x
<1>1. PICK X : s \in Seq(X)
  BY DEF Sequence
<1>2. s \in Seq(X \cup {x}) /\ x \in X \cup {x}
  BY <1>1, SeqMonotonic
<1>3. Append(s, x) \in Seq(X \cup {x}) /\ Len(s) \in Nat
  BY <1>2, AppendProperties, LenProperties
<1> QED BY <1>2, <1>3, AppendProperties DEF Sequence

LEMMA OneLong == ASSUME NEW x PROVE Sequence(<<x>>) /\ Len(<<x>>) = 1 /\ <<x>>[1] = x
<1>1. <<x>> \in Seq({x})
  OBVIOUS
<1> QED BY <1>1 DEF Sequence

LEMMA Nothing == Sequence(<<>>) /\ Len(<<>>) = 0
<1>1. <<>> \in Seq({})
  OBVIOUS
<1> QED BY <1>1 DEF Sequence

LEMMA OfFew ==
  ASSUME NEW s, NEW j \in 1..Len(s)
  PROVE  /\ \A x : s = <<x>> => s[j] = x
         /\ \A x, y : s = <<x, y>> => s[j] \in {x, y}
         /\ s # <<>>
<1>1. ASSUME NEW x, s = <<x>> PROVE s[j] = x
  <2>1. j \in 1..1
    BY <1>1, OneLong
  <2> QED BY <1>1, <2>1
<1>2. ASSUME NEW x, NEW y, s = <<x, y>> PROVE s[j] \in {x, y}
  <2>1. j \in 1..2
    BY <1>2
  <2>2. j = 1 \/ j = 2
    BY <2>1
  <2> QED BY <1>2, <2>2
<1>3. s # <<>>
  BY Nothing
<1> QED BY <1>1, <1>2, <1>3

\* A function on 1..n is a sequence.
LEMMA Tabled ==
  ASSUME NEW n \in Nat, NEW f, f = [i \in 1..n |-> f[i]]
  PROVE  Sequence(f) /\ Len(f) = n /\ DOMAIN f = 1..n
<1>1. f \in [1..n -> {f[i] : i \in 1..n}]
  OBVIOUS
<1>2. PICK S : f \in [1..n -> S]
  BY <1>1
<1>3. f \in Seq(S) /\ DOMAIN f = 1..n
  BY <1>2, SeqDef
<1>4. Sequence(f)
  BY <1>3 DEF Sequence
<1>5. Len(f) = n
  OBVIOUS
<1> QED BY <1>3, <1>4, <1>5

LEMMA InSeq == ASSUME NEW s, Sequence(s)
               PROVE  Len(s) \in Nat /\ DOMAIN s = 1..Len(s) /\ s = [i \in 1..Len(s) |-> s[i]]
<1>1. PICK X : s \in Seq(X)
  BY DEF Sequence
<1> QED BY <1>1, LenProperties

\* Sequences end to end: each is found whole, after those before it.
LEMMA Parted ==
  ASSUME NEW s, Sequence(s), \A i \in 1..Len(s) : Sequence(s[i])
  PROVE  /\ Len(s) \in Nat /\ \A i \in 1..Len(s) : Len(s[i]) \in Nat
         /\ Sequence(FlattenSeq(s)) /\ EndOf(s, 0) = 0 /\ EndOf(s, Len(s)) = Len(FlattenSeq(s))
         /\ Len(FlattenSeq(s)) \in Nat
         /\ \A i \in 0..Len(s) : EndOf(s, i) \in Nat /\ EndOf(s, i) <= Len(FlattenSeq(s))
         /\ \A i \in 1..Len(s) : /\ EndOf(s, i) = EndOf(s, i - 1) + Len(s[i])
                                 /\ Within(s[i], FlattenSeq(s), EndOf(s, i - 1))
<1> DEFINE S == UNION {ToSet(s[i]) : i \in 1..Len(s)}
<1>1. Len(s) \in Nat /\ DOMAIN s = 1..Len(s) /\ s = [i \in 1..Len(s) |-> s[i]]
  BY InSeq
<1>2. ASSUME NEW i \in 1..Len(s) PROVE s[i] \in Seq(S) /\ Len(s[i]) \in Nat
  <2>1. PICK X : s[i] \in Seq(X)
    BY DEF Sequence
  <2>2. s[i] \in Seq(ToSet(s[i])) /\ Len(s[i]) \in Nat
    BY <2>1 DEF ToSet
  <2>3. ToSet(s[i]) \subseteq S
    OBVIOUS
  <2> QED BY <2>2, <2>3, SeqMonotonic, Zenon
<1> HIDE DEF S
<1>3. s \in Seq(Seq(S))
  <2>1. [i \in 1..Len(s) |-> s[i]] \in [1..Len(s) -> Seq(S)]
    BY <1>2
  <2>2. s \in [1..Len(s) -> Seq(S)]
    BY <1>1, <2>1
  <2> QED BY <1>1, <2>2, SeqDef
<1>4. Sequence(FlattenSeq(s)) /\ Len(FlattenSeq(s)) \in Nat
  BY <1>3, PartsPlaced, LenProperties DEF Sequence
<1>5. /\ EndOf(s, 0) = 0 /\ EndOf(s, Len(s)) = Len(FlattenSeq(s))
      /\ \A i \in 0..Len(s) : EndOf(s, i) \in Nat /\ EndOf(s, i) <= Len(FlattenSeq(s))
      /\ \A i \in 1..Len(s) : /\ EndOf(s, i) = EndOf(s, i - 1) + Len(s[i])
                              /\ \A j \in 1..Len(s[i]) : FlattenSeq(s)[EndOf(s, i - 1) + j] = s[i][j]
  BY <1>3, PartsPlaced
<1>6. ASSUME NEW i \in 1..Len(s) PROVE Within(s[i], FlattenSeq(s), EndOf(s, i - 1))
  <2>1. i - 1 \in 0..Len(s) /\ i \in 0..Len(s)
    BY <1>1
  <2>2. EndOf(s, i - 1) \in Nat /\ EndOf(s, i - 1) + Len(s[i]) <= Len(FlattenSeq(s))
    BY <1>5, <2>1
  <2>3. Sequence(s[i]) /\ Len(s[i]) \in Nat
    BY <1>2
  <2> QED BY <1>4, <1>5, <2>2, <2>3 DEF Within
<1> QED BY <1>1, <1>2, <1>4, <1>5, <1>6

-----------------------------------------------------------------------------
(* What a message is made of                                               *)

\* How much of a message its head is, and the chunks of its body.
Headed(m) == m.strays + Len(HeadLines(m)) + 2

Chunks(m) == [i \in DOMAIN m.pieces |-> Chunk(m.pieces[i])]

LEMMA Positive == /\ MaxHeader \in Nat /\ MaxHeader > 0 /\ MaxBody \in Nat /\ MaxBody > 0
                  /\ MaxChunkLine \in Nat /\ MaxChunkLine > 0
BY ConnectionAssumption

\* The parts of a message are sequences.
LEMMA PiecesOf ==
  ASSUME NEW m, Orderly(m)
  PROVE  /\ Sequence(m.fields) /\ Sequence(m.trailers) /\ Sequence(m.pieces)
         /\ \A i \in 1..Len(m.pieces) : Sequence(m.pieces[i])
         /\ Sequence(Body(m)) /\ Len(Body(m)) \in Nat
<1>1. Sequence(m.fields) /\ Sequence(m.trailers) /\ Sequence(m.pieces)
  BY Zenon DEF Orderly, Sequence
<1>2. ASSUME NEW i \in 1..Len(m.pieces) PROVE Sequence(m.pieces[i])
  <2>1. m.pieces[i] \in ToSet(m.pieces)
    BY <1>1, InSeq DEF ToSet
  <2> QED BY <2>1, Zenon DEF Orderly, Sequence
<1>3. Sequence(FlattenSeq(m.pieces)) /\ Len(FlattenSeq(m.pieces)) \in Nat
  BY <1>1, <1>2, Parted
<1> QED BY <1>1, <1>2, <1>3 DEF Body

\* A chunk: its size, its data and the end of the line.
LEMMA ChunkIs ==
  ASSUME NEW p, Sequence(p)
  PROVE  /\ Sequence(Chunk(p)) /\ Len(p) \in Nat /\ Len(Chunk(p)) = Len(p) + 2
         /\ Within(<<ChunkSize(Len(p))>>, Chunk(p), 0)
         /\ Within(p, Chunk(p), 1)
         /\ Within(<<EndOfLine>>, Chunk(p), Len(p) + 1)
<1> DEFINE a == <<ChunkSize(Len(p))>>
           z == <<EndOfLine>>
<1>1. Sequence(a) /\ Len(a) = 1 /\ Sequence(z) /\ Len(z) = 1 /\ Chunk(p) = a \o p \o z
  BY OneLong DEF Chunk
<1> HIDE DEF a, z
<1>2. IsThree(Chunk(p), a, p, z)
  BY <1>1, ThreeJoined
<1>3. Len(Chunk(p)) = Len(p) + 2 /\ Within(p, Chunk(p), 1) /\ Within(z, Chunk(p), Len(p) + 1)
  <2>1. Len(a) + Len(p) = Len(p) + 1 /\ Len(a) + Len(p) + Len(z) = Len(p) + 2
    BY <1>1, <1>2 DEF IsThree
  <2> QED BY <1>1, <1>2, <2>1 DEF IsThree
<1> QED BY <1>2, <1>3 DEF a, z, IsThree

LEMMA ChunksOf ==
  ASSUME NEW m, Orderly(m)
  PROVE  /\ Sequence(Chunks(m)) /\ Len(Chunks(m)) = Len(m.pieces) /\ Len(m.pieces) \in Nat
         /\ \A i \in 1..Len(m.pieces) : Chunks(m)[i] = Chunk(m.pieces[i]) /\ Sequence(Chunks(m)[i])
<1>1. Len(m.pieces) \in Nat /\ DOMAIN m.pieces = 1..Len(m.pieces)
  BY PiecesOf, InSeq
<1>2. Chunks(m) = [i \in 1..Len(m.pieces) |-> Chunk(m.pieces[i])]
  BY <1>1 DEF Chunks
<1>3. \A i \in 1..Len(m.pieces) : Chunks(m)[i] = Chunk(m.pieces[i])
  BY <1>2
<1>4. Chunks(m) = [i \in 1..Len(m.pieces) |-> Chunks(m)[i]]
  BY <1>2, <1>3
<1>5. Sequence(Chunks(m)) /\ Len(Chunks(m)) = Len(m.pieces)
  BY <1>1, <1>4, Tabled
<1>6. \A i \in 1..Len(m.pieces) : Sequence(Chunk(m.pieces[i]))
  BY PiecesOf, ChunkIs
<1> QED BY <1>1, <1>3, <1>5, <1>6

\* A chunked body, part by part.
LEMMA ChunkedIs ==
  ASSUME NEW m, Orderly(m), m.framing = "chunked", NEW C, C = Chunks(m), NEW n, n = Len(m.pieces)
  PROVE  /\ n \in Nat /\ EndOf(C, n) \in Nat /\ Len(m.trailers) \in Nat
         /\ Sequence(Delimited(m)) /\ Len(Delimited(m)) = EndOf(C, n) + Len(m.trailers) + 2
         /\ \A c \in 1..n : Within(Chunk(m.pieces[c]), Delimited(m), EndOf(C, c - 1))
         /\ Within(<<ChunkSize(0)>>, Delimited(m), EndOf(C, n))
         /\ Within(m.trailers, Delimited(m), EndOf(C, n) + 1)
         /\ Within(<<EndOfLine>>, Delimited(m), EndOf(C, n) + 1 + Len(m.trailers))
<1>1. Sequence(C) /\ n \in Nat /\ Len(C) = n /\ \A i \in 1..n : C[i] = Chunk(m.pieces[i]) /\ Sequence(C[i])
  BY ChunksOf
<1>2. /\ Sequence(FlattenSeq(C)) /\ Len(FlattenSeq(C)) \in Nat /\ EndOf(C, n) = Len(FlattenSeq(C))
      /\ \A i \in 1..n : Within(C[i], FlattenSeq(C), EndOf(C, i - 1))
  BY <1>1, Parted
<1>3. Sequence(m.trailers) /\ Len(m.trailers) \in Nat
  BY PiecesOf, InSeq
<1> DEFINE f == FlattenSeq(C)
           a == <<ChunkSize(0)>>
           z == <<EndOfLine>>
<1>4. /\ Delimited(m) = f \o a \o m.trailers \o z
      /\ Sequence(f) /\ Sequence(a) /\ Sequence(z) /\ Len(a) = 1 /\ Len(z) = 1
  BY <1>2, OneLong DEF Delimited, Chunks
<1> HIDE DEF f, a, z
<1>5. IsFour(Delimited(m), f, a, m.trailers, z)
  BY <1>3, <1>4, FourJoined
<1>6. /\ Sequence(Delimited(m)) /\ Len(Delimited(m)) = EndOf(C, n) + Len(m.trailers) + 2
      /\ Within(FlattenSeq(C), Delimited(m), 0)
      /\ Within(<<ChunkSize(0)>>, Delimited(m), EndOf(C, n))
      /\ Within(m.trailers, Delimited(m), EndOf(C, n) + 1)
      /\ Within(<<EndOfLine>>, Delimited(m), EndOf(C, n) + 1 + Len(m.trailers))
  <2>1. Len(f) = EndOf(C, n)
    BY <1>2 DEF f
  <2>2. Len(Delimited(m)) = EndOf(C, n) + Len(m.trailers) + 2
    <3>1. Len(Delimited(m)) = Len(f) + 1 + Len(m.trailers) + 1 /\ Len(f) \in Nat
      BY <1>4, <1>5 DEF IsFour
    <3>2. Len(Delimited(m)) = Len(f) + Len(m.trailers) + 2
      <4>1. \A x, y \in Nat : x + 1 + y + 1 = x + y + 2
        OBVIOUS
      <4> QED BY <1>3, <3>1, <4>1, Zenon
    <3> QED BY <2>1, <3>2
  <2>3. Sequence(Delimited(m)) /\ Within(f, Delimited(m), 0) /\ Within(a, Delimited(m), EndOf(C, n))
    BY <1>5, <2>1 DEF IsFour
  <2>4. /\ Within(m.trailers, Delimited(m), EndOf(C, n) + 1)
        /\ Within(z, Delimited(m), EndOf(C, n) + 1 + Len(m.trailers))
    BY <1>4, <1>5, <2>1 DEF IsFour
  <2> QED BY <2>2, <2>3, <2>4 DEF f, a, z
<1>7. ASSUME NEW c \in 1..n PROVE Within(Chunk(m.pieces[c]), Delimited(m), EndOf(C, c - 1))
  <2>1. Within(Chunk(m.pieces[c]), FlattenSeq(C), EndOf(C, c - 1))
    BY <1>1, <1>2
  <2>2. Within(Chunk(m.pieces[c]), Delimited(m), 0 + EndOf(C, c - 1))
    BY <1>6, <2>1, Inside
  <2>3. EndOf(C, c - 1) \in Nat
    BY <2>1 DEF Within
  <2> QED BY <2>2, <2>3
<1> QED BY <1>1, <1>2, <1>3, <1>6, <1>7

\* What a body that has gone wrong consists of.
LEMMA WrongBody ==
  ASSUME NEW m, NEW b, b = BodyFault(m)
  PROVE  /\ m.fault \in BodyFaults => Sequence(b) /\ Len(b) \in Nat /\ Len(b) > 0
         /\ m.fault = "no size" => b[1] = Line("text", 1)
         /\ m.fault = "long size" => b[1] = Line("text", MaxChunkLine + 1)
         /\ m.fault = "huge chunk" => b[1] = ChunkSize(MaxBody + 1)
         /\ m.fault = "many chunks" =>
               Len(b) > MaxBody + 2 /\ b[1] = ChunkSize(MaxBody)
               /\ b[MaxBody + 2] = EndOfLine /\ b[MaxBody + 3] = ChunkSize(1)
         /\ m.fault = "overrun" => Len(b) > 2 /\ b[1] = ChunkSize(1) /\ b[3] = ChunkSize(1)
         /\ m.fault = "long trailers" =>
               Len(b) = MaxHeader + 1 /\ b[1] = ChunkSize(0)
               /\ \A i \in 1..MaxHeader : b[1 + i] = Field("x", "x")
<1>1. CASE m.fault \in {"no size", "long size", "huge chunk"}
  <2>1. /\ m.fault = "no size" => b = <<Line("text", 1)>>
        /\ m.fault = "long size" => b = <<Line("text", MaxChunkLine + 1)>>
        /\ m.fault = "huge chunk" => b = <<ChunkSize(MaxBody + 1)>>
    BY DEF BodyFault
  <2>2. PICK x : b = <<x>>
    BY <1>1, <2>1
  <2>3. Sequence(b) /\ Len(b) = 1
    BY <2>2, OneLong
  <2>4. /\ m.fault = "no size" => b[1] = Line("text", 1)
        /\ m.fault = "long size" => b[1] = Line("text", MaxChunkLine + 1)
        /\ m.fault = "huge chunk" => b[1] = ChunkSize(MaxBody + 1)
    <3>1. \A y : b = <<y>> => b[1] = y
      OBVIOUS
    <3> QED BY <2>1, <3>1, Zenon
  <2>5. Len(b) \in Nat /\ Len(b) > 0
    BY <2>3
  <2> QED BY <1>1, <2>3, <2>4, <2>5
<1>2. CASE m.fault = "many chunks"
  <2> DEFINE p == [i \in 1..MaxBody |-> EndOfLine]
             q == <<EndOfLine>>
             z == <<Line("text", 1)>>
  <2>1. b = Chunk(p) \o Chunk(q) \o z
    BY <1>2 DEF BodyFault
  <2>2. Sequence(p) /\ Len(p) = MaxBody
    <3>1. p = [i \in 1..MaxBody |-> p[i]]
      OBVIOUS
    <3> HIDE DEF p
    <3> QED BY <3>1, Positive, Tabled
  <2>3. Sequence(q) /\ Len(q) = 1 /\ Sequence(z) /\ Len(z) = 1
    BY OneLong
  <2> HIDE DEF p, q, z
  <2>4. /\ Sequence(Chunk(p)) /\ Len(Chunk(p)) = MaxBody + 2
        /\ Within(<<ChunkSize(MaxBody)>>, Chunk(p), 0) /\ Within(<<EndOfLine>>, Chunk(p), MaxBody + 1)
    BY <2>2, ChunkIs
  <2>5. Sequence(Chunk(q)) /\ Len(Chunk(q)) = 3 /\ Within(<<ChunkSize(1)>>, Chunk(q), 0)
    <3>1. /\ Sequence(Chunk(q)) /\ Len(Chunk(q)) = Len(q) + 2 /\ Len(q) \in Nat
          /\ Within(<<ChunkSize(Len(q))>>, Chunk(q), 0)
      BY <2>3, ChunkIs
    <3> QED BY <2>3, <3>1
  <2>6. IsThree(b, Chunk(p), Chunk(q), z)
    BY <2>1, <2>3, <2>4, <2>5, ThreeJoined
  <2>7. Within(Chunk(p), b, 0) /\ Within(Chunk(q), b, MaxBody + 2)
    BY <2>4, <2>6 DEF IsThree
  <2>8. Sequence(b) /\ Len(b) \in Nat /\ Len(b) > MaxBody + 2
    BY <2>3, <2>4, <2>5, <2>6, Positive DEF IsThree
  <2>9. /\ Within(<<ChunkSize(MaxBody)>>, b, 0 + 0) /\ Within(<<EndOfLine>>, b, 0 + (MaxBody + 1))
        /\ Within(<<ChunkSize(1)>>, b, MaxBody + 2 + 0)
    BY <2>4, <2>5, <2>7, Inside
  <2>10. \A x, k, n : Within(<<x>>, b, k) /\ n = k + 1 => b[n] = x
    BY OneLong, Member
  <2>11. /\ 1 = 0 + 0 + 1 /\ MaxBody + 2 = 0 + (MaxBody + 1) + 1 /\ MaxBody + 3 = MaxBody + 2 + 0 + 1
    BY Positive
  <2>12. b[1] = ChunkSize(MaxBody) /\ b[MaxBody + 2] = EndOfLine /\ b[MaxBody + 3] = ChunkSize(1)
    BY <2>9, <2>10, <2>11
  <2>13. Len(b) > 0
    BY <2>8, Positive
  <2> QED BY <1>2, <2>8, <2>12, <2>13
<1>3. CASE m.fault = "overrun"
  <2>1. b = <<ChunkSize(1), EndOfLine, ChunkSize(1), ChunkSize(0), EndOfLine>>
    BY <1>3 DEF BodyFault
  <2>2. b \in Seq({ChunkSize(1), EndOfLine, ChunkSize(0)}) /\ Len(b) = 5
    BY <2>1
  <2>3. b[1] = ChunkSize(1) /\ b[3] = ChunkSize(1)
    BY <2>1
  <2> QED BY <1>3, <2>2, <2>3 DEF Sequence
<1>4. CASE m.fault = "long trailers"
  <2> DEFINE a == <<ChunkSize(0)>>
             t == [i \in 1..MaxHeader |-> Field("x", "x")]
  <2>1. b = a \o t
    BY <1>4 DEF BodyFault
  <2>2. Sequence(t) /\ Len(t) = MaxHeader /\ \A i \in 1..MaxHeader : t[i] = Field("x", "x")
    <3>1. t = [i \in 1..MaxHeader |-> t[i]] /\ \A i \in 1..MaxHeader : t[i] = Field("x", "x")
      OBVIOUS
    <3> HIDE DEF t
    <3> QED BY <3>1, Positive, Tabled
  <2>3. Sequence(a) /\ Len(a) = 1 /\ a[1] = ChunkSize(0)
    BY OneLong
  <2> HIDE DEF a, t
  <2>4. Sequence(b) /\ Len(b) = Len(a) + Len(t) /\ Within(a, b, 0) /\ Within(t, b, Len(a))
    BY <2>1, <2>2, <2>3, Joined
  <2>5. Len(b) = MaxHeader + 1
    BY <2>2, <2>3, <2>4, Positive
  <2>6. b[1] = ChunkSize(0)
    <3>1. b[0 + 1] = a[1]
      BY <2>3, <2>4 DEF Within
    <3> QED BY <2>3, <3>1
  <2>7. \A i \in 1..MaxHeader : b[1 + i] = Field("x", "x")
    BY <2>2, <2>3, <2>4 DEF Within
  <2>8. Len(b) \in Nat /\ Len(b) > 0
    BY <2>5, Positive
  <2> QED BY <1>4, <2>4, <2>5, <2>6, <2>7, <2>8
<1>5. CASE m.fault \notin BodyFaults
  BY <1>5 DEF BodyFaults
<1> QED BY <1>1, <1>2, <1>3, <1>4, <1>5 DEF BodyFaults

\* A body on the wire.
LEMMA DelimitedIs ==
  ASSUME NEW m, Orderly(m)
  PROVE  /\ Sequence(Delimited(m)) /\ Len(Delimited(m)) \in Nat
         /\ m.framing # "chunked" => Delimited(m) = Body(m)
<1>1. CASE m.framing = "none"
  <2>1. m.pieces = <<>>
    BY <1>1 DEF Orderly
  <2>2. Body(m) = <<>>
    <3>1. <<>> \in Seq({})
      OBVIOUS
    <3> QED BY <2>1, <3>1, FlattenIs DEF Body
  <2> QED BY <1>1, <2>2, Nothing DEF Delimited
<1>2. CASE m.framing = "length"
  BY <1>2, PiecesOf DEF Delimited
<1>3. CASE m.framing = "chunked"
  BY <1>3, ChunkedIs, InSeq
<1> QED BY <1>1, <1>2, <1>3 DEF Orderly

LEMMA BodyIs ==
  ASSUME NEW m, Orderly(m)
  PROVE  /\ Sequence(BodyFault(m)) /\ Len(BodyFault(m)) \in Nat
         /\ m.fault \notin BodyFaults => BodyFault(m) = Delimited(m)
<1>1. m.fault \notin BodyFaults => BodyFault(m) = Delimited(m)
  BY DEF BodyFault, BodyFaults
<1> QED BY <1>1, WrongBody, DelimitedIs

\* The lines of a head.
LEMMA HeadIs ==
  ASSUME NEW m, Orderly(m)
  PROVE  /\ Sequence(HeadFault(m)) /\ Sequence(Framing(m)) /\ Sequence(HeadLines(m))
         /\ IsThree(HeadLines(m), m.fields, Framing(m), HeadFault(m))
         /\ Len(HeadLines(m)) \in Nat
<1>1. Sequence(HeadFault(m))
  <2>1. CASE m.fault \in {"folded", "nameless", "flood", "no length", "too long", "coding"}
    <3>1. PICK x : HeadFault(m) = <<x>>
      BY <2>1 DEF HeadFault
    <3> QED BY <3>1, OneLong
  <2>2. CASE m.fault \in {"two codings", "two lengths"}
    <3>1. PICK x, y : HeadFault(m) = <<x, y>>
      BY <2>2 DEF HeadFault
    <3>2. <<x, y>> \in Seq({x, y})
      OBVIOUS
    <3> QED BY <3>1, <3>2 DEF Sequence
  <2>3. CASE m.fault \notin LineFaults
    BY <2>3, Nothing DEF HeadFault, LineFaults
  <2> QED BY <2>1, <2>2, <2>3 DEF LineFaults
<1>2. Sequence(Framing(m))
  BY OneLong, Nothing DEF Framing, Orderly
<1>3. IsThree(HeadLines(m), m.fields, Framing(m), HeadFault(m))
  BY <1>1, <1>2, PiecesOf, ThreeJoined DEF HeadLines
<1> QED BY <1>1, <1>2, <1>3 DEF IsThree

\* Each element of r is one of a, of b or of c.
LEMMA OneOfThree ==
  ASSUME NEW r, NEW a, NEW b, NEW c, IsThree(r, a, b, c), NEW i \in 1..Len(r)
  PROVE  \/ i \in 1..Len(a) /\ r[i] = a[i]
         \/ \E j \in 1..Len(b) : r[i] = b[j]
         \/ \E j \in 1..Len(c) : r[i] = c[j]
<1>1. Len(a) \in Nat /\ Len(b) \in Nat /\ Len(c) \in Nat /\ Len(r) = Len(a) + Len(b) + Len(c)
  BY DEF IsThree
<1>2. CASE i <= Len(a)
  <2>1. i \in 1..Len(a) /\ 0 + i = i
    BY <1>1, <1>2
  <2> QED BY <2>1, Member DEF IsThree
<1>3. CASE Len(a) < i /\ i <= Len(a) + Len(b)
  <2>1. i - Len(a) \in 1..Len(b) /\ i = Len(a) + (i - Len(a))
    BY <1>1, <1>3
  <2>2. Within(b, r, Len(a))
    BY DEF IsThree
  <2>3. r[i] = b[i - Len(a)]
    BY <2>1, <2>2, Member
  <2> QED BY <2>1, <2>3
<1>4. CASE Len(a) + Len(b) < i
  <2>1. i - (Len(a) + Len(b)) \in 1..Len(c) /\ i = Len(a) + Len(b) + (i - (Len(a) + Len(b)))
    BY <1>1, <1>4
  <2>2. Within(c, r, Len(a) + Len(b))
    BY DEF IsThree
  <2>3. r[i] = c[i - (Len(a) + Len(b))]
    BY <2>1, <2>2, Member
  <2> QED BY <2>1, <2>3
<1> QED BY <1>1, <1>2, <1>3, <1>4

\* The lines of a head, the one that its fault adds included.
LEMMA LinesAre ==
  ASSUME NEW m, Orderly(m), NEW i \in 1..Len(HeadLines(m)), NEW l, l = HeadLines(m)[i]
  PROVE  \/ l.k \in {"field", "length"}
         \/ m.fault = "flood" /\ l = Line("text", MaxHeader + 1)
         \/ m.fault = "nameless" /\ l = Line("text", 1)
         \/ m.fault = "folded" /\ l = Line("folded", 1)
<1>1. IsThree(HeadLines(m), m.fields, Framing(m), HeadFault(m))
  BY HeadIs
<1>2. ASSUME NEW j \in 1..Len(m.fields) PROVE m.fields[j].k = "field"
  <2>1. m.fields[j] \in ToSet(m.fields)
    BY PiecesOf, InSeq DEF ToSet
  <2> QED BY <2>1 DEF Orderly
<1>3. ASSUME NEW j \in 1..Len(Framing(m)) PROVE Framing(m)[j].k \in {"field", "length"}
  <2>1. CASE m.framing = "none"
    BY <2>1 DEF Framing
  <2>2. CASE m.framing = "length"
    BY <2>2 DEF Framing, ContentLength
  <2>3. CASE m.framing = "chunked"
    BY <2>3 DEF Framing, Field
  <2> QED BY <2>1, <2>2, <2>3 DEF Orderly
<1>4. ASSUME NEW j \in 1..Len(HeadFault(m)), NEW x, x = HeadFault(m)[j]
      PROVE  \/ x.k \in {"field", "length"}
             \/ m.fault = "flood" /\ x = Line("text", MaxHeader + 1)
             \/ m.fault = "nameless" /\ x = Line("text", 1)
             \/ m.fault = "folded" /\ x = Line("folded", 1)
  <2>1. CASE m.fault \in {"two codings", "two lengths"}
    <3>1. /\ m.fault = "two codings" =>
                HeadFault(m) = <<ContentLength(1), Field("transfer-encoding", "chunked")>>
          /\ m.fault = "two lengths" => HeadFault(m) = <<ContentLength(1), ContentLength(2)>>
      BY DEF HeadFault
    <3>2. (\A n : ContentLength(n).k = "length") /\ Field("transfer-encoding", "chunked").k = "field"
      BY DEF ContentLength, Field
    <3>3. PICK y, z : HeadFault(m) = <<y, z>> /\ y.k \in {"field", "length"} /\ z.k \in {"field", "length"}
      BY <2>1, <3>1, <3>2
    <3>4. x \in {y, z}
      BY <1>4, <3>3, OfFew
    <3> QED BY <3>3, <3>4
  <2>2. CASE m.fault \in {"folded", "nameless", "flood"}
    <3>1. PICK y : HeadFault(m) = <<y>> /\ \/ m.fault = "flood" /\ y = Line("text", MaxHeader + 1)
                                           \/ m.fault = "nameless" /\ y = Line("text", 1)
                                           \/ m.fault = "folded" /\ y = Line("folded", 1)
      BY <2>2 DEF HeadFault
    <3>2. x = y
      BY <1>4, <3>1, OfFew
    <3> QED BY <3>1, <3>2
  <2>3. CASE m.fault \in {"no length", "too long", "coding"}
    <3>1. /\ m.fault = "no length" => HeadFault(m) = <<ContentLength(NotANumber)>>
          /\ m.fault = "too long" => HeadFault(m) = <<ContentLength(MaxBody + 1)>>
          /\ m.fault = "coding" => HeadFault(m) = <<Field("transfer-encoding", "gzip")>>
      BY DEF HeadFault
    <3>2. (\A n : ContentLength(n).k = "length") /\ Field("transfer-encoding", "gzip").k = "field"
      BY DEF ContentLength, Field
    <3>3. PICK y : HeadFault(m) = <<y>> /\ y.k \in {"field", "length"}
      BY <2>3, <3>1, <3>2
    <3>4. x = y
      BY <1>4, <3>3, OfFew
    <3> QED BY <3>3, <3>4
  <2>4. CASE m.fault \notin LineFaults
    <3>1. HeadFault(m) = <<>>
      BY <2>4 DEF HeadFault, LineFaults
    <3> QED BY <1>4, <3>1, OfFew
  <2> QED BY <2>1, <2>2, <2>3, <2>4 DEF LineFaults
<1>5. \/ i \in 1..Len(m.fields) /\ l = m.fields[i]
      \/ \E j \in 1..Len(Framing(m)) : l = Framing(m)[j]
      \/ \E j \in 1..Len(HeadFault(m)) : l = HeadFault(m)[j]
  BY <1>1, OneOfThree
<1> QED BY <1>2, <1>3, <1>4, <1>5

\* A message on the wire.
LEMMA EncodedIs ==
  ASSUME NEW m, Orderly(m)
  PROVE  LET e == Encoded(m) IN
         /\ m.strays \in Nat /\ Len(HeadLines(m)) \in Nat /\ Headed(m) \in Nat
         /\ Sequence(e) /\ Len(e) = Headed(m) + Len(BodyFault(m))
         /\ \A i \in 1..m.strays : e[i] = EndOfLine
         /\ e[m.strays + 1] = FirstLine(m)
         /\ Within(HeadLines(m), e, m.strays + 1)
         /\ e[Headed(m)] = EndOfLine
         /\ Within(BodyFault(m), e, Headed(m))
<1> DEFINE e == Encoded(m)
           a == [i \in 1..m.strays |-> EndOfLine]
           b == <<FirstLine(m)>>
           d == <<EndOfLine>>
<1>1. e = a \o b \o HeadLines(m) \o d \o BodyFault(m)
  BY DEF Encoded
<1>2. m.strays \in Nat /\ Sequence(a) /\ Len(a) = m.strays /\ \A i \in 1..m.strays : a[i] = EndOfLine
  <2>1. m.strays \in Nat /\ a = [i \in 1..m.strays |-> a[i]] /\ \A i \in 1..m.strays : a[i] = EndOfLine
    BY DEF Orderly
  <2> HIDE DEF a
  <2> QED BY <2>1, Tabled
<1>3. Sequence(b) /\ Len(b) = 1 /\ b[1] = FirstLine(m) /\ Sequence(d) /\ Len(d) = 1 /\ d[1] = EndOfLine
  BY OneLong
<1>4. Sequence(HeadLines(m)) /\ Len(HeadLines(m)) \in Nat /\ Sequence(BodyFault(m))
      /\ Len(BodyFault(m)) \in Nat
  BY HeadIs, BodyIs
<1> HIDE DEF a, b, d, e
<1>5. IsFive(e, a, b, HeadLines(m), d, BodyFault(m))
  BY <1>1, <1>2, <1>3, <1>4, FiveJoined
<1>6. \A x, y, z \in Nat : x + 1 + y + 1 + z = x + y + 2 + z /\ x + 1 + y + 1 = x + y + 2 /\ x + y + 2 \in Nat
  OBVIOUS
<1>7. /\ Sequence(e) /\ Len(e) = m.strays + 1 + Len(HeadLines(m)) + 1 + Len(BodyFault(m))
      /\ Within(a, e, 0) /\ Within(b, e, m.strays) /\ Within(HeadLines(m), e, m.strays + 1)
      /\ Within(d, e, m.strays + 1 + Len(HeadLines(m)))
      /\ Within(BodyFault(m), e, m.strays + 1 + Len(HeadLines(m)) + 1)
  BY <1>2, <1>3, <1>5 DEF IsFive
<1>8. Headed(m) \in Nat /\ Headed(m) = m.strays + 1 + Len(HeadLines(m)) + 1
      /\ Len(e) = Headed(m) + Len(BodyFault(m))
  <2>1. Headed(m) = m.strays + Len(HeadLines(m)) + 2
    BY DEF Headed
  <2>2. /\ m.strays + 1 + Len(HeadLines(m)) + 1 = m.strays + Len(HeadLines(m)) + 2
        /\ m.strays + Len(HeadLines(m)) + 2 \in Nat
    BY <1>2, <1>4, <1>6, Zenon
  <2> QED BY <1>7, <2>1, <2>2, Zenon
<1>9. \A i \in 1..m.strays : e[i] = EndOfLine
  <2>1. \A i \in 1..m.strays : 0 + i = i
    BY <1>2
  <2> QED BY <1>2, <1>7, <2>1, Member
<1>10. e[m.strays + 1] = FirstLine(m)
  BY <1>3, <1>7, Member
<1>11. e[Headed(m)] = EndOfLine
  BY <1>3, <1>7, <1>8, Member
<1>12. Within(BodyFault(m), e, Headed(m))
  BY <1>7, <1>8
<1> QED BY <1>2, <1>4, <1>7, <1>8, <1>9, <1>10, <1>11, <1>12 DEF e

-----------------------------------------------------------------------------
(* What the server makes of a head                                         *)

\* A field of this name.
IsNamed(l, name) == l.k = "field" /\ l.name = name

\* Get finds the field of that name, if there is one.
LEMMA GetAmong ==
  ASSUME NEW fs, Sequence(fs), NEW name, NEW none
  PROVE  \/ (\A i \in 1..Len(fs) : ~IsNamed(fs[i], name)) /\ Get(fs, name, none) = none
         \/ \E i \in 1..Len(fs) : IsNamed(fs[i], name) /\ Get(fs, name, none) = fs[i].value
<1> DEFINE found == {i \in DOMAIN fs : fs[i].k = "field" /\ fs[i].name = name}
<1>1. DOMAIN fs = 1..Len(fs) /\ found \in SUBSET Nat
  BY InSeq
<1>2. found # {} => Min(found) \in found
  BY <1>1, FirstIn
<1>3. Get(fs, name, none) = IF found = {} THEN none ELSE fs[Min(found)].value
  BY DEF Get
<1>4. \A i \in 1..Len(fs) : i \in found <=> IsNamed(fs[i], name)
  BY <1>1 DEF IsNamed
<1>5. found \subseteq 1..Len(fs)
  BY <1>1
<1> HIDE DEF found
<1> QED BY <1>2, <1>3, <1>4, <1>5

\* Lines of another name after those of a head change nothing.
Prolongs(gs, fs, name) ==
    /\ Sequence(fs) /\ Sequence(gs) /\ Len(fs) <= Len(gs)
    /\ \A i \in 1..Len(fs) : gs[i] = fs[i]
    /\ \A i \in 1..Len(gs) : i > Len(fs) => ~IsNamed(gs[i], name)

\* And it finds the same in a head that goes on with other fields.
LEMMA GetBefore ==
  ASSUME NEW fs, NEW gs, NEW name, NEW none, Prolongs(gs, fs, name)
  PROVE  Get(gs, name, none) = Get(fs, name, none)
<1> USE DEF Prolongs
<1> DEFINE found(s) == {i \in DOMAIN s : s[i].k = "field" /\ s[i].name = name}
<1>1. /\ DOMAIN fs = 1..Len(fs) /\ DOMAIN gs = 1..Len(gs) /\ Len(fs) \in Nat /\ Len(gs) \in Nat
      /\ found(fs) \in SUBSET Nat
  BY InSeq
<1>2. \A i \in 1..Len(gs) : i \in 1..Len(fs) \/ i > Len(fs)
  BY <1>1
<1>3. \A i \in 1..Len(fs) : i \in 1..Len(gs)
  BY <1>1
<1>4. found(gs) = found(fs)
  BY <1>1, <1>2, <1>3 DEF IsNamed
<1>5. \A s : Get(s, name, none) = IF found(s) = {} THEN none ELSE s[Min(found(s))].value
  BY DEF Get
<1>6. found(fs) # {} => Min(found(fs)) \in 1..Len(fs)
  <2>1. found(fs) # {} => Min(found(fs)) \in found(fs)
    BY <1>1, FirstIn
  <2>2. found(fs) \subseteq 1..Len(fs)
    BY <1>1
  <2> HIDE DEF found
  <2> QED BY <2>1, <2>2
<1> HIDE DEF found
<1>7. found(fs) # {} => gs[Min(found(fs))] = fs[Min(found(fs))]
  BY <1>6
<1> QED BY <1>4, <1>5, <1>7

\* The lengths that a head names.
LEMMA InLengths ==
  ASSUME NEW fs, Sequence(fs), NEW x
  PROVE  x \in Lengths(fs) <=> \E i \in 1..Len(fs) : fs[i].k = "length" /\ x = fs[i].n
<1>1. \A y : y \in ToSet(fs) <=> \E i \in 1..Len(fs) : y = fs[i]
  BY InSeq DEF ToSet
<1> QED BY <1>1 DEF Lengths

LEMMA Only ==
  ASSUME NEW S, IsFiniteSet(S), NEW x \in S, x \in Int
  PROVE  /\ Cardinality(S) = 1 <=> S = {x}
         /\ Cardinality(S) = 1 => Max(S) = x
         /\ Cardinality(S) \in Nat /\ Cardinality(S) > 0
<1>1. Cardinality(S) = 1 <=> S = {x}
  <2>1. Cardinality(S) = 1 => \E y : S = {y}
    BY FS_Singleton
  <2>2. S = {x} => Cardinality(S) = 1
    BY FS_Singleton
  <2> QED BY <2>1, <2>2
<1>2. Max({x}) = x
  <2>1. x \in {x} /\ \A z \in {x} : x >= z
    OBVIOUS
  <2> QED BY <2>1 DEF Max
<1>3. Cardinality(S) \in Nat /\ Cardinality(S) # 0
  BY FS_CardinalityType, FS_EmptySet
<1> QED BY <1>1, <1>2, <1>3

\* The lines of a head that say where its body ends: those of its framing, and those of
\* its fault (h).
Says(r, m, h) ==
    /\ \A i \in 1..Len(r) : IsNamed(r[i], "transfer-encoding") =>
          \/ m.framing = "chunked" /\ r[i].value = "chunked"
          \/ \E j \in 1..Len(h) : r[i] = h[j]
    /\ \A i \in 1..Len(r) : r[i].k = "length" =>
          \/ m.framing = "length" /\ r[i].n = Len(Body(m))
          \/ \E j \in 1..Len(h) : r[i] = h[j]
    /\ m.framing = "chunked" => \E i \in 1..Len(r) : r[i] = Field("transfer-encoding", "chunked")
    /\ m.framing = "length" => \E i \in 1..Len(r) : r[i] = ContentLength(Len(Body(m)))
    /\ \A j \in 1..Len(h) : \E i \in 1..Len(r) : r[i] = h[j]

LEMMA FoundIn ==
  ASSUME NEW s, NEW r, NEW k, Within(s, r, k), NEW j \in 1..Len(s)
  PROVE  \E i \in 1..Len(r) : r[i] = s[j]
<1>1. k + j \in 1..Len(r) /\ r[k + j] = s[j]
  BY DEF Within
<1> QED BY <1>1

\* Where the lines of a head come from that say how the body is delimited.
LEMMA HeadSays ==
  ASSUME NEW m, Orderly(m), NEW r, NEW h, IsThree(r, m.fields, Framing(m), h)
  PROVE  Says(r, m, h)
<1>1. ASSUME NEW i \in 1..Len(r)
      PROVE  \/ r[i].k = "field" /\ ~IsNamed(r[i], "transfer-encoding")
             \/ \E j \in 1..Len(Framing(m)) : r[i] = Framing(m)[j]
             \/ \E j \in 1..Len(h) : r[i] = h[j]
  <2>1. ASSUME NEW j \in 1..Len(m.fields)
        PROVE  m.fields[j].k = "field" /\ ~IsNamed(m.fields[j], "transfer-encoding")
    <3>1. m.fields[j] \in ToSet(m.fields)
      BY PiecesOf, InSeq DEF ToSet
    <3> QED BY <3>1 DEF Orderly, IsNamed
  <2> QED BY <2>1, OneOfThree
<1>2. /\ m.framing = "none" => Framing(m) = <<>>
      /\ m.framing = "length" => Framing(m) = <<ContentLength(Len(Body(m)))>>
      /\ m.framing = "chunked" => Framing(m) = <<Field("transfer-encoding", "chunked")>>
  BY DEF Framing
<1>3. ASSUME NEW x, NEW j \in 1..Len(Framing(m)), x = Framing(m)[j]
      PROVE  \/ m.framing = "length" /\ x = ContentLength(Len(Body(m)))
             \/ m.framing = "chunked" /\ x = Field("transfer-encoding", "chunked")
  BY <1>2, <1>3, OfFew DEF Orderly
<1>4. /\ ContentLength(Len(Body(m))).k = "length" /\ ContentLength(Len(Body(m))).n = Len(Body(m))
      /\ ~IsNamed(ContentLength(Len(Body(m))), "transfer-encoding")
      /\ Field("transfer-encoding", "chunked").k = "field"
      /\ Field("transfer-encoding", "chunked").value = "chunked"
  BY DEF ContentLength, Field, IsNamed
<1>5. \A j \in 1..Len(Framing(m)) : \E i \in 1..Len(r) : r[i] = Framing(m)[j]
  BY FoundIn DEF IsThree
<1>6. \A j \in 1..Len(h) : \E i \in 1..Len(r) : r[i] = h[j]
  BY FoundIn DEF IsThree
<1>7. /\ m.framing = "chunked" => \E i \in 1..Len(r) : r[i] = Field("transfer-encoding", "chunked")
      /\ m.framing = "length" => \E i \in 1..Len(r) : r[i] = ContentLength(Len(Body(m)))
  <2>1. \A x : Framing(m) = <<x>> => 1 \in 1..Len(Framing(m)) /\ Framing(m)[1] = x
    BY OneLong
  <2> QED BY <1>2, <1>5, <2>1
<1>8. ASSUME NEW i \in 1..Len(r), IsNamed(r[i], "transfer-encoding")
      PROVE  \/ m.framing = "chunked" /\ r[i].value = "chunked"
             \/ \E j \in 1..Len(h) : r[i] = h[j]
  BY <1>1, <1>3, <1>4, <1>8
<1>9. ASSUME NEW i \in 1..Len(r), r[i].k = "length"
      PROVE  \/ m.framing = "length" /\ r[i].n = Len(Body(m))
             \/ \E j \in 1..Len(h) : r[i] = h[j]
  BY <1>1, <1>3, <1>4, <1>9
<1> QED BY <1>6, <1>7, <1>8, <1>9 DEF Says

\* The coding that a head names, if it names one.
LEMMA CodingIs ==
  ASSUME NEW r, Sequence(r)
  PROVE  \/ (\A i \in 1..Len(r) : ~IsNamed(r[i], "transfer-encoding")) /\ Coding(r) = ""
         \/ \E i \in 1..Len(r) : IsNamed(r[i], "transfer-encoding") /\ Coding(r) = r[i].value
BY GetAmong DEF Coding

\* What a head says: X are the lines of its fault.
Tells(r, m, X) ==
    /\ \A n \in Lengths(r) : \/ m.framing = "length" /\ n = Len(Body(m))
                             \/ \E x \in X : x.k = "length" /\ n = x.n
    /\ m.framing = "length" => Len(Body(m)) \in Lengths(r)
    /\ \A x \in X : x.k = "length" => x.n \in Lengths(r)
    /\ \/ /\ Coding(r) = "" /\ m.framing # "chunked"
          /\ \A x \in X : ~IsNamed(x, "transfer-encoding")
       \/ Coding(r) = "chunked" /\ m.framing = "chunked"
       \/ \E x \in X : IsNamed(x, "transfer-encoding") /\ Coding(r) = x.value

LEMMA LineKinds ==
  /\ \A n : /\ ContentLength(n).k = "length" /\ ContentLength(n).n = n
            /\ \A name : ~IsNamed(ContentLength(n), name)
  /\ \A v : /\ Field("transfer-encoding", v).k # "length"
            /\ IsNamed(Field("transfer-encoding", v), "transfer-encoding")
            /\ ~IsNamed(Field("transfer-encoding", v), "connection")
            /\ Field("transfer-encoding", v).value = v
BY DEF ContentLength, Field, IsNamed

LEMMA HeadTells ==
  ASSUME NEW m, Orderly(m), NEW r, NEW h, IsThree(r, m.fields, Framing(m), h),
         NEW X, X = {h[j] : j \in 1..Len(h)}
  PROVE  Tells(r, m, X)
<1>1. Sequence(r)
  BY DEF IsThree
<1>2. Says(r, m, h)
  BY HeadSays
<1>3. ASSUME NEW i \in 1..Len(r), IsNamed(r[i], "transfer-encoding")
      PROVE  (m.framing = "chunked" /\ r[i].value = "chunked") \/ r[i] \in X
  BY <1>2, <1>3 DEF Says
<1>4. ASSUME NEW i \in 1..Len(r), r[i].k = "length"
      PROVE  (m.framing = "length" /\ r[i].n = Len(Body(m))) \/ r[i] \in X
  BY <1>2, <1>4 DEF Says
<1>5. \A x \in X : \E i \in 1..Len(r) : r[i] = x
  BY <1>2 DEF Says
<1>6. m.framing = "chunked" => \E i \in 1..Len(r) : r[i] = Field("transfer-encoding", "chunked")
  BY <1>2 DEF Says
<1>7. m.framing = "length" => \E i \in 1..Len(r) : r[i] = ContentLength(Len(Body(m)))
  BY <1>2 DEF Says
<1>8. \A n : n \in Lengths(r) <=> \E i \in 1..Len(r) : r[i].k = "length" /\ n = r[i].n
  BY <1>1, InLengths
<1>9. ASSUME NEW n \in Lengths(r)
      PROVE  (m.framing = "length" /\ n = Len(Body(m))) \/ \E x \in X : x.k = "length" /\ n = x.n
  BY <1>4, <1>8
<1>10. m.framing = "length" => Len(Body(m)) \in Lengths(r)
  BY <1>7, <1>8, LineKinds
<1>11. \A x \in X : x.k = "length" => x.n \in Lengths(r)
  BY <1>5, <1>8
<1>12. CASE (\A i \in 1..Len(r) : ~IsNamed(r[i], "transfer-encoding")) /\ Coding(r) = ""
  <2>1. m.framing # "chunked"
    BY <1>6, <1>12, LineKinds
  <2>2. \A x \in X : ~IsNamed(x, "transfer-encoding")
    BY <1>5, <1>12
  <2> QED BY <1>9, <1>10, <1>11, <1>12, <2>1, <2>2 DEF Tells
<1>13. CASE \E i \in 1..Len(r) : IsNamed(r[i], "transfer-encoding") /\ Coding(r) = r[i].value
  <2>1. PICK i \in 1..Len(r) : IsNamed(r[i], "transfer-encoding") /\ Coding(r) = r[i].value
    BY <1>13
  <2>2. (m.framing = "chunked" /\ Coding(r) = "chunked") \/ r[i] \in X
    BY <1>3, <2>1
  <2> QED BY <1>9, <1>10, <1>11, <2>1, <2>2 DEF Tells
<1> QED BY <1>1, <1>12, <1>13, CodingIs

\* A head without a fault says how the body is delimited.
LEMMA FramedWell ==
  ASSUME NEW m, Orderly(m), NEW r, r = m.fields \o Framing(m)
  PROVE  /\ Sequence(r) /\ Framed(r) = m.framing
         /\ m.framing = "length" => Cardinality(Lengths(r)) = 1 /\ Max(Lengths(r)) = Len(Body(m))
<1>1. Sequence(m.fields) /\ Sequence(Framing(m)) /\ Sequence(r)
  BY PiecesOf, HeadIs, Joined
<1>2. r = r \o <<>>
  <2>1. PICK X : r \in Seq(X)
    BY <1>1 DEF Sequence
  <2> QED BY <2>1, ConcatEmptySeq
<1>3. IsThree(r, m.fields, Framing(m), <<>>)
  <2>1. IsThree(m.fields \o Framing(m) \o <<>>, m.fields, Framing(m), <<>>)
    BY <1>1, Nothing, ThreeJoined
  <2> QED BY <1>2, <2>1
<1>4. Tells(r, m, {})
  <2>1. {} = {<<>>[j] : j \in 1..Len(<<>>)}
    BY Nothing
  <2> QED BY <1>3, <2>1, HeadTells
<1>5. CASE m.framing \in {"none", "length"}
  <2>1. Coding(r) = ""
    BY <1>4, <1>5 DEF Tells
  <2>2. Lengths(r) = IF m.framing = "length" THEN {Len(Body(m))} ELSE {}
    BY <1>4, <1>5 DEF Tells
  <2>3. Framed(r) = m.framing
    BY <1>5, <2>1, <2>2 DEF Framed
  <2>4. m.framing = "length" => Cardinality(Lengths(r)) = 1 /\ Max(Lengths(r)) = Len(Body(m))
    <3>1. IsFiniteSet({Len(Body(m))}) /\ Cardinality({Len(Body(m))}) = 1
      BY FS_Singleton
    <3>2. Len(Body(m)) \in Int
      BY PiecesOf
    <3>3. Max({Len(Body(m))}) = Len(Body(m))
      BY <3>1, <3>2, Only
    <3> QED BY <2>2, <3>1, <3>3
  <2> QED BY <1>1, <2>3, <2>4
<1>6. CASE m.framing = "chunked"
  <2>1. Coding(r) = "chunked" /\ Lengths(r) = {}
    BY <1>4, <1>6 DEF Tells
  <2> QED BY <1>1, <1>6, <2>1 DEF Framed
<1> QED BY <1>5, <1>6 DEF Orderly

\* A head with more than one length, or a wrong one.
LEMMA Measured ==
  ASSUME NEW m, Orderly(m), NEW r, NEW X, Tells(r, m, X), X # {},
         NEW N, IsFiniteSet(N), N \subseteq Int, X = {ContentLength(n) : n \in N}
  PROVE  /\ Framed(r) = IF m.framing = "chunked" THEN "400" ELSE "length"
         /\ N \subseteq Lengths(r) /\ Lengths(r) \subseteq N \cup {Len(Body(m))}
         /\ m.framing # "length" => Lengths(r) = N
         /\ IsFiniteSet(Lengths(r))
         /\ \A n \in N : /\ Cardinality(Lengths(r)) = 1 <=> Lengths(r) = {n}
                         /\ Cardinality(Lengths(r)) = 1 => Max(Lengths(r)) = n
                         /\ Cardinality(Lengths(r)) \in Nat /\ Cardinality(Lengths(r)) > 0
<1>1. \A x \in X : ~IsNamed(x, "transfer-encoding") /\ x.k = "length" /\ x.n \in N
  BY LineKinds
<1>2. N \subseteq Lengths(r)
  <2> SUFFICES ASSUME NEW n \in N PROVE n \in Lengths(r)
    OBVIOUS
  <2>1. ContentLength(n) \in X /\ ContentLength(n).k = "length" /\ ContentLength(n).n = n
    BY LineKinds
  <2> QED BY <2>1 DEF Tells
<1>3. \A n \in Lengths(r) : (m.framing = "length" /\ n = Len(Body(m))) \/ n \in N
  BY <1>1 DEF Tells
<1>4. Lengths(r) # {}
  BY <1>2
<1>5. Coding(r) = IF m.framing = "chunked" THEN "chunked" ELSE ""
  BY <1>1 DEF Tells
<1>6. Framed(r) = IF m.framing = "chunked" THEN "400" ELSE "length"
  BY <1>4, <1>5 DEF Framed
<1>7. Lengths(r) \in SUBSET (N \cup {Len(Body(m))})
  BY <1>3
<1>8. IsFiniteSet(Lengths(r))
  <2>1. IsFiniteSet(N \cup {Len(Body(m))})
    BY FS_AddElement
  <2> QED BY <1>7, <2>1, FS_Subset
<1>9. m.framing # "length" => Lengths(r) = N
  BY <1>2, <1>3
<1>10. ASSUME NEW n \in N
       PROVE  /\ Cardinality(Lengths(r)) = 1 <=> Lengths(r) = {n}
              /\ Cardinality(Lengths(r)) = 1 => Max(Lengths(r)) = n
              /\ Cardinality(Lengths(r)) \in Nat /\ Cardinality(Lengths(r)) > 0
  <2>1. n \in Lengths(r) /\ n \in Int
    BY <1>2
  <2> QED BY <1>8, <2>1, Only, Zenon
<1> QED BY <1>2, <1>6, <1>7, <1>8, <1>9, <1>10

\* A head whose fault is in how it says so is refused.
LEMMA FramedIll ==
  ASSUME NEW m, Orderly(m), NEW r, r = HeadLines(m)
  PROVE  /\ m.fault = "two codings" => Framed(r) = "400"
         /\ m.fault = "coding" => Framed(r) = IF m.framing = "none" THEN "501" ELSE "400"
         /\ m.fault \in {"two lengths", "no length", "too long"} =>
               IF m.framing = "chunked" THEN Framed(r) = "400"
               ELSE /\ Framed(r) = "length" /\ Cardinality(Lengths(r)) \in Nat /\ Cardinality(Lengths(r)) > 0
                    /\ m.fault = "two lengths" => Cardinality(Lengths(r)) > 1
                    /\ m.fault = "no length" /\ Cardinality(Lengths(r)) = 1 => Max(Lengths(r)) = NotANumber
                    /\ m.fault = "too long" /\ Cardinality(Lengths(r)) = 1 => Max(Lengths(r)) = MaxBody + 1
                    /\ m.fault = "too long" /\ m.framing = "none" => Cardinality(Lengths(r)) = 1
<1> DEFINE h == HeadFault(m)
           X == {h[j] : j \in 1..Len(h)}
<1>1. Sequence(r) /\ Tells(r, m, X)
  BY HeadIs, HeadTells
<1>2. /\ \A x : h = <<x>> => X = {x}
      /\ \A x, y : h = <<x, y>> => X = {x, y}
  <2> HIDE DEF h
  <2>1. ASSUME NEW x, h = <<x>> PROVE X = {x}
    <3>1. 1..Len(h) = {1} /\ h[1] = x
      BY <2>1
    <3> QED BY <3>1
  <2>2. ASSUME NEW x, NEW y, h = <<x, y>> PROVE X = {x, y}
    <3>1. 1..Len(h) = {1, 2} /\ h[1] = x /\ h[2] = y
      BY <2>2
    <3> QED BY <3>1
  <2> QED BY <2>1, <2>2
<1>3. /\ m.fault = "two codings" => h = <<ContentLength(1), Field("transfer-encoding", "chunked")>>
      /\ m.fault = "two lengths" => h = <<ContentLength(1), ContentLength(2)>>
      /\ m.fault = "no length" => h = <<ContentLength(NotANumber)>>
      /\ m.fault = "too long" => h = <<ContentLength(MaxBody + 1)>>
      /\ m.fault = "coding" => h = <<Field("transfer-encoding", "gzip")>>
  BY DEF HeadFault
<1> HIDE DEF h
<1>4. /\ m.fault = "two codings" => X = {ContentLength(1), Field("transfer-encoding", "chunked")}
      /\ m.fault = "two lengths" => X = {ContentLength(1), ContentLength(2)}
      /\ m.fault = "no length" => X = {ContentLength(NotANumber)}
      /\ m.fault = "too long" => X = {ContentLength(MaxBody + 1)}
      /\ m.fault = "coding" => X = {Field("transfer-encoding", "gzip")}
  BY <1>2, <1>3
<1> HIDE DEF X
<1>5. CASE m.fault = "two codings"
  <2>1. Coding(r) = "chunked"
    <3>1. \A x \in X : IsNamed(x, "transfer-encoding") => x.value = "chunked"
      <4>1. /\ ~IsNamed(ContentLength(1), "transfer-encoding")
            /\ Field("transfer-encoding", "chunked").value = "chunked"
        BY LineKinds
      <4> QED BY <1>4, <1>5, <4>1
    <3>2. \E x \in X : IsNamed(x, "transfer-encoding")
      BY <1>4, <1>5, LineKinds
    <3> QED BY <1>1, <3>1, <3>2 DEF Tells
  <2>2. 1 \in Lengths(r)
    <3>1. ContentLength(1) \in X /\ ContentLength(1).k = "length" /\ ContentLength(1).n = 1
      BY <1>4, <1>5, LineKinds
    <3> QED BY <1>1, <3>1 DEF Tells
  <2>3. Framed(r) = "400"
    BY <2>1, <2>2 DEF Framed
  <2> QED BY <1>5, <2>3
<1>6. CASE m.fault = "coding"
  <2>1. m.framing \in {"none", "length"}
    BY <1>6 DEF Orderly
  <2>2. Coding(r) = "gzip"
    BY <1>1, <1>4, <1>6, <2>1, LineKinds DEF Tells
  <2>3. m.framing = "length" => Lengths(r) # {}
    BY <1>1 DEF Tells
  <2>4. m.framing = "none" => Lengths(r) = {}
    <3>1. \A x \in X : x.k # "length"
      BY <1>4, <1>6, LineKinds
    <3>2. m.framing = "none" => \A n \in Lengths(r) : \E x \in X : x.k = "length" /\ n = x.n
      BY <1>1 DEF Tells
    <3> QED BY <3>1, <3>2
  <2>5. Framed(r) = IF m.framing = "none" THEN "501" ELSE "400"
    BY <2>1, <2>2, <2>3, <2>4 DEF Framed
  <2> QED BY <1>6, <2>5
<1>7. 1 \in Int /\ 2 \in Int /\ NotANumber \in Int /\ MaxBody + 1 \in Int
  BY Positive DEF NotANumber
<1>8. CASE m.fault = "two lengths"
  <2> DEFINE N == {1, 2}
  <2>1. IsFiniteSet(N)
    <3>1. IsFiniteSet({1})
      BY FS_Singleton
    <3>2. IsFiniteSet({1} \cup {2})
      BY <3>1, FS_AddElement
    <3>3. {1} \cup {2} = N
      OBVIOUS
    <3> QED BY <3>2, <3>3
  <2>2. X = {ContentLength(n) : n \in N} /\ X # {} /\ 1 \in N /\ 2 \in N /\ N \subseteq Int
    <3>1. X = {ContentLength(1), ContentLength(2)}
      BY <1>4, <1>8
    <3>2. {ContentLength(1), ContentLength(2)} = {ContentLength(n) : n \in N}
      OBVIOUS
    <3> QED BY <3>1, <3>2
  <2> HIDE DEF N
  <2>3. /\ Framed(r) = IF m.framing = "chunked" THEN "400" ELSE "length"
        /\ N \subseteq Lengths(r)
        /\ \A n \in N : /\ Cardinality(Lengths(r)) = 1 <=> Lengths(r) = {n}
                        /\ Cardinality(Lengths(r)) \in Nat /\ Cardinality(Lengths(r)) > 0
    BY <1>1, <2>1, <2>2, Measured
  <2>4. Cardinality(Lengths(r)) # 1 /\ Cardinality(Lengths(r)) \in Nat /\ Cardinality(Lengths(r)) > 0
    BY <2>2, <2>3
  <2>5. Cardinality(Lengths(r)) > 1
    BY <2>4
  <2> QED BY <1>8, <2>3, <2>4, <2>5
<1>9. CASE m.fault \in {"no length", "too long"}
  <2> DEFINE v == IF m.fault = "no length" THEN NotANumber ELSE MaxBody + 1
             N == {v}
  <2>1. X = {ContentLength(v)} /\ v \in Int
    BY <1>4, <1>7, <1>9
  <2>2. m.fault = "no length" => v = NotANumber
    OBVIOUS
  <2>3. m.fault = "too long" => v = MaxBody + 1
    OBVIOUS
  <2> HIDE DEF v
  <2>4. X = {ContentLength(n) : n \in N} /\ X # {} /\ v \in N /\ N \subseteq Int
    BY <2>1
  <2>5. IsFiniteSet(N) /\ Cardinality(N) = 1
    BY FS_Singleton
  <2> HIDE DEF N
  <2>6. /\ Framed(r) = IF m.framing = "chunked" THEN "400" ELSE "length"
        /\ m.framing # "length" => Lengths(r) = N
        /\ \A n \in N : /\ Cardinality(Lengths(r)) = 1 => Max(Lengths(r)) = n
                        /\ Cardinality(Lengths(r)) \in Nat /\ Cardinality(Lengths(r)) > 0
    BY <1>1, <2>4, <2>5, Measured
  <2>7. /\ Cardinality(Lengths(r)) = 1 => Max(Lengths(r)) = v
        /\ Cardinality(Lengths(r)) \in Nat /\ Cardinality(Lengths(r)) > 0
    BY <2>4, <2>6
  <2>8. m.framing = "none" => Cardinality(Lengths(r)) = 1
    BY <2>5, <2>6
  <2> QED BY <1>9, <2>2, <2>3, <2>6, <2>7, <2>8
<1>10. CASE m.fault \notin {"two codings", "coding", "two lengths", "no length", "too long"}
  BY <1>10
<1> QED BY <1>5, <1>6, <1>8, <1>9, <1>10

\* Whether a message is to be the last does not depend on its framing.
LEMMA KeepsFraming ==
  ASSUME NEW m, Orderly(m), NEW l
  PROVE  KeepAlive(l, m.fields \o Framing(m)) = KeepAlive(l, m.fields)
<1> DEFINE g == m.fields \o Framing(m)
<1>1. /\ Sequence(m.fields) /\ Sequence(Framing(m)) /\ Sequence(g) /\ Len(m.fields) \in Nat
      /\ Len(Framing(m)) \in Nat /\ Len(g) = Len(m.fields) + Len(Framing(m))
      /\ Within(m.fields, g, 0) /\ Within(Framing(m), g, Len(m.fields))
  BY PiecesOf, HeadIs, Joined
<1> HIDE DEF g
<1>2. ASSUME NEW j \in 1..Len(Framing(m)) PROVE ~IsNamed(Framing(m)[j], "connection")
  <2>1. /\ m.framing = "none" => Framing(m) = <<>>
        /\ m.framing = "length" => Framing(m) = <<ContentLength(Len(Body(m)))>>
        /\ m.framing = "chunked" => Framing(m) = <<Field("transfer-encoding", "chunked")>>
    BY DEF Framing
  <2>2. Framing(m)[j] \in {ContentLength(Len(Body(m))), Field("transfer-encoding", "chunked")}
    BY <2>1, OfFew DEF Orderly
  <2> QED BY <2>2, LineKinds
<1>3. \A i \in 1..Len(m.fields) : g[i] = m.fields[i]
  <2>1. \A i \in 1..Len(m.fields) : g[0 + i] = m.fields[i] /\ 0 + i = i
    BY <1>1 DEF Within
  <2> QED BY <2>1
<1>4. ASSUME NEW i \in 1..Len(g), i > Len(m.fields) PROVE ~IsNamed(g[i], "connection")
  <2>1. i - Len(m.fields) \in 1..Len(Framing(m)) /\ i = Len(m.fields) + (i - Len(m.fields))
    BY <1>1, <1>4
  <2>2. Within(Framing(m), g, Len(m.fields))
    BY <1>1
  <2>3. g[i] = Framing(m)[i - Len(m.fields)]
    BY <2>1, <2>2, Member
  <2> QED BY <1>2, <2>1, <2>3
<1>5. Len(m.fields) <= Len(g)
  BY <1>1
<1>6. \A none : Get(g, "connection", none) = Get(m.fields, "connection", none)
  <2>1. \A i \in 1..Len(g) : i > Len(m.fields) => ~IsNamed(g[i], "connection")
    BY <1>4
  <2>2. Sequence(m.fields) /\ Sequence(g)
    BY <1>1
  <2>3. Prolongs(g, m.fields, "connection")
    BY <1>3, <1>5, <2>1, <2>2, Zenon DEF Prolongs
  <2> QED BY <2>3, GetBefore
<1> QED BY <1>6 DEF KeepAlive, g

-----------------------------------------------------------------------------
(* What has been read of the message under way                             *)

\* The message under way.
Turn == Len(handled) + 1

Msg == script[Turn]

\* Where it begins, how much of it has been read, and how much after its head.
From == EndOf(Parts(script), Len(handled))

At == pos - From

Past == At - Headed(Msg)

\* s is how t begins.
Begins(s, t) == Len(s) <= Len(t) /\ \A i \in 1..Len(s) : s[i] = t[i]

\* Between messages, and in the empty lines before one.
AtFirst == /\ used = At /\ At \in Nat /\ line = EndOfLine /\ fields = <<>> /\ body = <<>>
           /\ IF Turn <= Len(script) THEN At <= Msg.strays ELSE At = 0

\* In its head.
AtLines == /\ Turn <= Len(script) /\ Msg.fault \notin FirstFaults
           /\ used = At /\ At = Msg.strays + 1 + Len(fields)
           /\ line = Msg.line /\ body = <<>>
           /\ Begins(fields, HeadLines(Msg))
           /\ \A i \in 1..Len(fields) : fields[i].k \in {"field", "length"}

\* In a body that is delimited by its length, or by nothing.
PlainAt == /\ stage \in {"data", "handle"} /\ Past = Len(body)
           /\ stage = "data" => need = Len(Body(Msg)) - Len(body) /\ Msg.framing = "length"
           /\ stage = "handle" => Len(body) = Len(Body(Msg))

\* In one that comes in the chunks C, one for each of the n pieces P.
ChunksAt(P, C, n) ==
    /\ stage = "size" => \E c \in 0..n : Past = EndOf(C, c) /\ Len(body) = EndOf(P, c)
    /\ stage = "data" => \E c \in 1..n : /\ Len(body) + need = EndOf(P, c) /\ EndOf(P, c - 1) <= Len(body)
                                         /\ Past = EndOf(C, c - 1) + 1 + Len(body) - EndOf(P, c - 1)
    /\ stage = "crlf" => \E c \in 1..n : Len(body) = EndOf(P, c) /\ Past = EndOf(C, c) - 1
    /\ stage \in {"trailer", "handle"} => Len(body) = Len(Body(Msg))
    /\ stage = "trailer" => \E t \in 0..Len(Msg.trailers) : /\ Past = EndOf(C, n) + 1 + t
                                                            /\ used = Headed(Msg) + t
    /\ stage = "handle" => Past = Len(Delimited(Msg))

\* In one that has gone wrong.
FirstChunk == IF Msg.fault = "many chunks" THEN MaxBody ELSE 1

AstrayAt ==
    /\ stage # "handle"
    /\ stage = "size" => \/ Past = 0 /\ Len(body) = 0
                         \/ Msg.fault = "many chunks" /\ Past = MaxBody + 2 /\ Len(body) = MaxBody
    /\ stage \in {"data", "crlf"} => Msg.fault \in {"many chunks", "overrun"} /\ Past = 1 + Len(body)
    /\ stage = "data" => Len(body) + need = FirstChunk
    /\ stage = "crlf" => Len(body) = FirstChunk
    /\ stage = "trailer" => /\ Msg.fault = "long trailers" /\ Past \in 1..MaxHeader
                            /\ used = Headed(Msg) + Past - 1

AtBody == /\ Turn <= Len(script) /\ line = Msg.line /\ fields = Msg.fields \o Framing(Msg)
          /\ Msg.fault \in {"none"} \cup BodyFaults
          /\ stage \in {"size", "data", "crlf"} => used = Headed(Msg)
          /\ stage = "data" => need \in Nat
          /\ IF Msg.fault # "none" THEN AstrayAt
             ELSE /\ Begins(body, Body(Msg))
                  /\ IF Msg.framing = "chunked" THEN ChunksAt(Msg.pieces, Chunks(Msg), Len(Msg.pieces))
                     ELSE PlainAt

\* The place of the server in the message under way.
Place == /\ stage = "first" => AtFirst
         /\ stage = "head" => AtLines
         /\ stage \notin {"first", "head", "closed"} => AtBody

\* What the handler has had are the messages so far, all of them in order, and none of
\* them but the last was to be the last.
Told == /\ Len(handled) \in Nat /\ Len(handled) <= Len(script)
        /\ handled = [i \in 1..Len(handled) |-> Meant(script[i])]
        /\ \A i \in 1..Len(handled) : script[i].fault = "none"
        /\ \A i \in 1..(IF stage = "closed" THEN Len(handled) - 1 ELSE Len(handled)) :
              KeepAlive(script[i].line, script[i].fields)

\* Why the i-th message is refused with the answer a.
Explained(i, a) == \/ a.status = 408
                   \/ /\ i <= Len(script)
                      /\ Moderate(script[i]) => script[i].fault # "none" /\ a.status = Refusal(script[i])

\* An answer.
Said == [status : Nat, keep : BOOLEAN]

\* Each message handled has had one answer at most, and only the message under way can
\* have had another: the refusal that ends the connection.
Replied == /\ answers \in Seq(Said)
           /\ stage # "closed" => Len(Finals) <= Len(handled) /\ \A i \in 1..Len(Finals) : Finals[i].keep
           /\ Len(Finals) <= Len(handled) + 1
           /\ \A i \in 1..Len(Finals) : i > Len(handled) => Explained(i, Finals[i])
           /\ \A i \in 1..(Len(Finals) - 1) : Finals[i].keep

\* The invariant.
InStep == Carried /\ pos <= sent /\ Sequence(body) /\ Told /\ Place /\ Replied

\* The parts of what is sent are the messages.
LEMMA PartsAre ==
  ASSUME NEW s \in Scripts, AllOrderly
  PROVE  /\ Sequence(s) /\ Len(s) \in Nat /\ \A i \in 1..Len(s) : Orderly(s[i])
         /\ Sequence(Parts(s)) /\ Len(Parts(s)) = Len(s)
         /\ \A i \in 1..Len(s) : Parts(s)[i] = Encoded(s[i]) /\ Sequence(Parts(s)[i])
<1>1. Sequence(s)
  BY DEF AllOrderly, Sequence
<1>2. Len(s) \in Nat /\ DOMAIN s = 1..Len(s)
  BY <1>1, InSeq
<1>3. ASSUME NEW i \in 1..Len(s) PROVE Orderly(s[i])
  <2>1. s[i] \in ToSet(s)
    BY <1>2 DEF ToSet
  <2> QED BY <2>1 DEF AllOrderly
<1>4. Parts(s) = [i \in 1..Len(s) |-> Encoded(s[i])]
  BY <1>2 DEF Parts
<1>5. \A i \in 1..Len(s) : Parts(s)[i] = Encoded(s[i])
  BY <1>4
<1>6. Parts(s) = [i \in 1..Len(s) |-> Parts(s)[i]]
  BY <1>4, <1>5
<1>7. Sequence(Parts(s)) /\ Len(Parts(s)) = Len(s)
  BY <1>2, <1>6, Tabled
<1>8. \A i \in 1..Len(s) : Sequence(Encoded(s[i]))
  BY <1>3, EncodedIs
<1> QED BY <1>1, <1>2, <1>3, <1>5, <1>7, <1>8

\* Where the message under way is found.
LEMMA Where ==
  ASSUME AllOrderly, Carried, Told
  PROVE  /\ Len(script) \in Nat /\ Len(wire) \in Nat /\ Turn \in Nat /\ Turn > 0 /\ From \in Nat
         /\ Turn - 1 = Len(handled)
         /\ Turn > Len(script) => From = Len(wire)
         /\ Turn <= Len(script) =>
               /\ Orderly(Msg) /\ Within(Encoded(Msg), wire, From)
               /\ EndOf(Parts(script), Turn) = From + Len(Encoded(Msg))
<1> DEFINE p == Parts(script)
           n == Len(handled)
<1>1. /\ Sequence(p) /\ Len(p) = Len(script) /\ Len(script) \in Nat
      /\ \A i \in 1..Len(script) : p[i] = Encoded(script[i]) /\ Sequence(p[i]) /\ Orderly(script[i])
  BY PartsAre DEF Carried
<1>2. n \in Nat /\ n <= Len(script)
  BY DEF Told
<1>3. wire = FlattenSeq(p)
  BY DEF Carried, Wire
<1> HIDE DEF p
<1>4. \A i \in 1..Len(p) : Sequence(p[i])
  BY <1>1
<1>5. /\ Len(wire) \in Nat /\ EndOf(p, Len(p)) = Len(wire)
      /\ \A i \in 0..Len(p) : EndOf(p, i) \in Nat
      /\ \A i \in 1..Len(p) : EndOf(p, i) = EndOf(p, i - 1) + Len(p[i]) /\ Within(p[i], wire, EndOf(p, i - 1))
  BY <1>1, <1>3, <1>4, Parted
<1>6. From = EndOf(p, n) /\ Turn = n + 1
  BY DEF From, Turn, p
<1> HIDE DEF n
<1>7. Turn \in Nat /\ Turn > 0 /\ From \in Nat /\ Turn - 1 = n
  BY <1>1, <1>2, <1>5, <1>6
<1>8. Turn > Len(script) => From = Len(wire)
  <2>1. Turn > Len(script) => n = Len(p)
    BY <1>1, <1>2, <1>6
  <2> QED BY <1>5, <1>6, <2>1
<1>9. ASSUME Turn <= Len(script)
      PROVE  Orderly(Msg) /\ Within(Encoded(Msg), wire, From) /\ EndOf(p, Turn) = From + Len(Encoded(Msg))
  <2>1. Turn \in 1..Len(script) /\ Turn \in 1..Len(p)
    BY <1>1, <1>7, <1>9
  <2>2. p[Turn] = Encoded(Msg) /\ Orderly(Msg)
    BY <1>1, <2>1 DEF Msg
  <2>3. EndOf(p, Turn) = EndOf(p, Turn - 1) + Len(p[Turn]) /\ Within(p[Turn], wire, EndOf(p, Turn - 1))
    BY <1>5, <2>1
  <2> QED BY <1>6, <1>7, <2>2, <2>3
<1> QED BY <1>1, <1>5, <1>7, <1>8, <1>9 DEF p, n

\* The next lexeme is the next of the message.
LEMMA Comes ==
  ASSUME AllOrderly, Carried, Told, Turn <= Len(script), At \in 0..(Len(Encoded(Msg)) - 1)
  PROVE  Lexeme = Encoded(Msg)[At + 1]
<1>1. Within(Encoded(Msg), wire, From) /\ From \in Nat /\ Orderly(Msg)
  BY Where
<1>2. pos \in Nat /\ At = pos - From
  BY DEF Carried, At
<1>3. pos + 1 = From + (At + 1) /\ At + 1 \in 1..Len(Encoded(Msg))
  <2>1. Len(Encoded(Msg)) \in Nat
    BY <1>1 DEF Within
  <2> QED BY <1>1, <1>2, <2>1
<1>4. wire[pos + 1] = Encoded(Msg)[At + 1]
  <2>1. wire[From + (At + 1)] = Encoded(Msg)[At + 1]
    BY <1>1, <1>3, Member
  <2> QED BY <1>3, <2>1
<1> QED BY <1>4 DEF Lexeme

\* There is a next one only if there is a message.
LEMMA NoneAfter ==
  ASSUME AllOrderly, Carried, Told, pos < sent, At \in Nat
  PROVE  Turn <= Len(script)
<1>1. /\ Len(script) \in Nat /\ Turn \in Nat /\ From \in Nat /\ Len(wire) \in Nat
      /\ Turn > Len(script) => From = Len(wire)
  BY Where
<1>2. pos \in Nat /\ sent \in 0..Len(wire) /\ At = pos - From
  BY DEF Carried, At
<1> QED BY <1>1, <1>2

\* Which line of it, and which lexeme of its body.
LEMMA ComesFirst ==
  ASSUME AllOrderly, Carried, Told, Turn <= Len(script), At \in Nat, At <= Msg.strays
  PROVE  /\ At < Msg.strays => Lexeme = EndOfLine
         /\ At = Msg.strays => Lexeme = FirstLine(Msg)
<1>1. Orderly(Msg)
  BY Where
<1>2. /\ Msg.strays \in Nat /\ Len(HeadLines(Msg)) \in Nat /\ Len(BodyFault(Msg)) \in Nat
      /\ Len(Encoded(Msg)) = Headed(Msg) + Len(BodyFault(Msg))
      /\ \A i \in 1..Msg.strays : Encoded(Msg)[i] = EndOfLine
      /\ Encoded(Msg)[Msg.strays + 1] = FirstLine(Msg)
  BY <1>1, EncodedIs, BodyIs
<1>3. At \in 0..(Len(Encoded(Msg)) - 1)
  BY <1>2 DEF Headed
<1>4. Lexeme = Encoded(Msg)[At + 1]
  BY <1>3, Comes
<1>5. At < Msg.strays => At + 1 \in 1..Msg.strays
  BY <1>2
<1> QED BY <1>2, <1>4, <1>5

LEMMA ComesLine ==
  ASSUME AllOrderly, Carried, Told, Turn <= Len(script), NEW i \in Nat, At = Msg.strays + 1 + i
  PROVE  /\ i < Len(HeadLines(Msg)) => Lexeme = HeadLines(Msg)[i + 1]
         /\ i = Len(HeadLines(Msg)) => Lexeme = EndOfLine
<1>1. Orderly(Msg)
  BY Where
<1>2. /\ Within(HeadLines(Msg), Encoded(Msg), Msg.strays + 1)
      /\ Encoded(Msg)[Headed(Msg)] = EndOfLine
  BY <1>1, EncodedIs
<1>3. /\ Msg.strays \in Nat /\ Len(HeadLines(Msg)) \in Nat /\ Len(BodyFault(Msg)) \in Nat
      /\ Headed(Msg) \in Nat /\ Len(Encoded(Msg)) = Headed(Msg) + Len(BodyFault(Msg))
      /\ Headed(Msg) = Msg.strays + Len(HeadLines(Msg)) + 2
  BY <1>1, EncodedIs, BodyIs DEF Headed
<1>4. i <= Len(HeadLines(Msg)) => At \in 0..(Len(Encoded(Msg)) - 1)
  BY <1>3, SMTT(30)
<1>5. i <= Len(HeadLines(Msg)) => Lexeme = Encoded(Msg)[At + 1]
  BY <1>4, Comes
<1>6. i < Len(HeadLines(Msg)) => Encoded(Msg)[At + 1] = HeadLines(Msg)[i + 1]
  <2>1. \A a, n \in Nat : i < n => i + 1 \in 1..n /\ a + 1 + i + 1 = a + 1 + (i + 1)
    OBVIOUS
  <2>2. Msg.strays \in Nat /\ Len(HeadLines(Msg)) \in Nat
    BY <1>3
  <2>3. i < Len(HeadLines(Msg)) => i + 1 \in 1..Len(HeadLines(Msg)) /\ At + 1 = Msg.strays + 1 + (i + 1)
    BY <2>1, <2>2, Zenon
  <2> QED BY <1>2, <2>3, Member
<1>7. i = Len(HeadLines(Msg)) => At + 1 = Headed(Msg)
  BY <1>3
<1>8. i < Len(HeadLines(Msg)) => i <= Len(HeadLines(Msg))
  BY <1>3, SMTT(30)
<1> QED BY <1>2, <1>5, <1>6, <1>7, <1>8

LEMMA ComesBody ==
  ASSUME AllOrderly, Carried, Told, Turn <= Len(script), Past \in 0..(Len(BodyFault(Msg)) - 1)
  PROVE  Lexeme = BodyFault(Msg)[Past + 1]
<1>1. Orderly(Msg)
  BY Where
<1>2. /\ Headed(Msg) \in Nat /\ Len(BodyFault(Msg)) \in Nat
      /\ Len(Encoded(Msg)) = Headed(Msg) + Len(BodyFault(Msg))
      /\ Within(BodyFault(Msg), Encoded(Msg), Headed(Msg))
  BY <1>1, EncodedIs, BodyIs
<1>3. At \in Int
  BY Where DEF Carried, At
<1>4. /\ At \in 0..(Len(Encoded(Msg)) - 1) /\ Past + 1 \in 1..Len(BodyFault(Msg))
      /\ At + 1 = Headed(Msg) + (Past + 1)
  BY <1>2, <1>3 DEF Past
<1> QED BY <1>2, <1>4, Comes, Member

\* The answers that are not interim, one answer later.
LEMMA FinalGrows ==
  ASSUME NEW as \in Seq(Said)
  PROVE  /\ Final(as) \in Seq(Said)
         /\ \A a \in Said : /\ Append(as, a) \in Seq(Said)
                            /\ a.status = 100 => Final(Append(as, a)) = Final(as)
                            /\ a.status # 100 => Final(Append(as, a)) = Append(Final(as), a)
<1> DEFINE one(a) == IF a.status = 100 THEN <<>> ELSE <<a>>
           g(bs) == [i \in DOMAIN bs |-> one(bs[i])]
<1>1. \A a \in Said : one(a) \in Seq(Said)
  OBVIOUS
<1>2. \A bs : Final(bs) = FlattenSeq(g(bs))
  BY DEF Final
<1> HIDE DEF one
<1>3. ASSUME NEW bs \in Seq(Said)
      PROVE  /\ g(bs) \in Seq(Seq(Said)) /\ Len(g(bs)) = Len(bs) /\ Len(bs) \in Nat
             /\ \A i \in 1..Len(bs) : g(bs)[i] = one(bs[i])
  <2>1. Len(bs) \in Nat /\ DOMAIN bs = 1..Len(bs) /\ \A i \in 1..Len(bs) : bs[i] \in Said
    OBVIOUS
  <2>2. \A i \in 1..Len(bs) : one(bs[i]) \in Seq(Said)
    BY <1>1, <2>1
  <2>3. g(bs) \in [1..Len(bs) -> Seq(Said)]
    BY <2>1, <2>2
  <2>4. \A i \in 1..Len(bs) : g(bs)[i] = one(bs[i])
    BY <2>1
  <2> HIDE DEF g
  <2> QED BY <2>1, <2>3, <2>4
<1> HIDE DEF g
<1>4. g(as) \in Seq(Seq(Said))
  BY <1>3
<1>5. FlattenSeq(g(as)) \in Seq(Said)
  BY <1>4, PartsPlaced
<1>6. ASSUME NEW a \in Said
      PROVE  /\ Append(as, a) \in Seq(Said)
             /\ FlattenSeq(g(Append(as, a))) = FlattenSeq(g(as)) \o one(a)
  <2> DEFINE bs == Append(as, a)
  <2>1. /\ bs \in Seq(Said) /\ Len(bs) = Len(as) + 1 /\ bs[Len(as) + 1] = a
        /\ \A i \in 1..Len(as) : bs[i] = as[i]
    <3>1. bs \in Seq(Said) /\ Len(bs) = Len(as) + 1
      BY AppendProperties
    <3>2. bs[Len(as) + 1] = a
      BY AppendProperties
    <3>3. \A i \in 1..Len(as) : bs[i] = as[i]
      BY AppendProperties
    <3> QED BY <3>1, <3>2, <3>3
  <2> HIDE DEF bs
  <2>2. Len(as) \in Nat /\ bs[Len(bs)] = a
    BY <2>1, LenProperties
  <2>3. (\A i \in 1..Len(as) : i \in 1..Len(bs)) /\ Len(bs) \in 1..Len(bs)
    <3>1. \A n \in Nat : (\A i \in 1..n : i \in 1..(n + 1)) /\ n + 1 \in 1..(n + 1)
      OBVIOUS
    <3> QED BY <2>1, <2>2, <3>1, Zenon
  <2>4. /\ g(bs) \in Seq(Seq(Said)) /\ Len(g(bs)) = Len(g(as)) + 1 /\ g(bs)[Len(g(bs))] = one(a)
        /\ \A i \in 1..Len(g(as)) : g(as)[i] = g(bs)[i]
    <3>1. /\ g(bs) \in Seq(Seq(Said)) /\ Len(g(bs)) = Len(bs)
          /\ \A i \in 1..Len(bs) : g(bs)[i] = one(bs[i])
      BY <1>3, <2>1
    <3>2. Len(g(as)) = Len(as) /\ \A i \in 1..Len(as) : g(as)[i] = one(as[i])
      BY <1>3
    <3> QED BY <2>1, <2>2, <2>3, <3>1, <3>2
  <2>5. FlattenSeq(g(bs)) = FlattenSeq(g(as)) \o g(bs)[Len(g(bs))]
    BY <1>4, <2>4, FlattenGrows
  <2> QED BY <2>1, <2>4, <2>5 DEF bs
<1>7. ASSUME NEW a \in Said
      PROVE  /\ a.status = 100 => FlattenSeq(g(as)) \o one(a) = FlattenSeq(g(as))
             /\ a.status # 100 => FlattenSeq(g(as)) \o one(a) = Append(FlattenSeq(g(as)), a)
  <2>1. \A s \in Seq(Said) : s \o <<>> = s /\ s \o <<a>> = Append(s, a)
    OBVIOUS
  <2>2. (a.status = 100 => one(a) = <<>>) /\ (a.status # 100 => one(a) = <<a>>)
    BY DEF one
  <2> QED BY <1>5, <2>1, <2>2
<1>8. /\ Final(as) = FlattenSeq(g(as))
      /\ \A a : Final(Append(as, a)) = FlattenSeq(g(Append(as, a)))
  BY <1>2
<1>9. ASSUME NEW a \in Said
      PROVE  /\ a.status = 100 => Final(Append(as, a)) = Final(as)
             /\ a.status # 100 => Final(Append(as, a)) = Append(Final(as), a)
  BY <1>6, <1>7, <1>8
<1> QED BY <1>5, <1>6, <1>8, <1>9

-----------------------------------------------------------------------------
(* Steps within a message                                                  *)

\* As long as no request is handed over, the message under way stays the same.
LEMMA SameMessage ==
  ASSUME AllOrderly, Carried, Told, UNCHANGED <<script, handled>>
  PROVE  /\ Turn' = Turn /\ Msg' = Msg /\ From' = From
         /\ stage # "closed" \/ stage' = "closed" => Told'
<1>1. Turn' = Turn /\ Msg' = Msg /\ From' = From
  BY DEF Turn, Msg, From
<1>2. ASSUME stage # "closed" \/ stage' = "closed" PROVE Told'
  <2>1. Len(handled) \in Nat
    BY DEF Told
  <2>2. \A n \in Nat : \A i \in 1..(n - 1) : i \in 1..n
    OBVIOUS
  <2> QED BY <1>2, <2>1, <2>2 DEF Told
<1> QED BY <1>1, <1>2

\* The server reads on, and says nothing or asks for the body.
LEMMA Onward ==
  ASSUME AllOrderly, InStep, stage # "closed", UNCHANGED <<script, handled>>,
         answers' \in Seq(Said), Finals' = Finals
  PROVE  Told' /\ Replied'
<1>1. Told' /\ UNCHANGED handled
  BY SameMessage DEF InStep
<1>2. Replied'
  BY <1>1 DEF InStep, Replied, Explained
<1> QED BY <1>1, <1>2

\* The message is refused, or the connection closed.
LEMMA Refused ==
  ASSUME AllOrderly, InStep, stage # "closed", stage' = "closed", UNCHANGED <<script, handled>>,
         answers' \in Seq(Said), NEW a \in Said, Explained(Turn, a), ~a.keep,
         Finals' \in {Finals, Append(Finals, a)}
  PROVE  Told' /\ Place' /\ Replied'
<1>1. Told' /\ UNCHANGED handled /\ Place'
  BY SameMessage DEF InStep, Place
<1>2. /\ Finals \in Seq(Said) /\ Len(Finals) \in Nat /\ Len(handled) \in Nat /\ Len(Finals) <= Len(handled)
      /\ \A i \in 1..Len(Finals) : Finals[i].keep
  BY FinalGrows DEF InStep, Replied, Finals, Told
<1>3. ASSUME NEW i, NEW b PROVE Explained(i, b)' <=> Explained(i, b)
  BY DEF Explained
<1>4. CASE Finals' = Finals
  BY <1>1, <1>2, <1>4 DEF Replied
<1>5. CASE Finals' = Append(Finals, a)
  <2>1. /\ Len(Finals') = Len(Finals) + 1 /\ Finals'[Len(Finals) + 1] = a
        /\ \A i \in 1..Len(Finals) : Finals'[i] = Finals[i]
    BY <1>2, <1>5, AppendProperties
  <2>2. Len(Finals') <= Len(handled)' + 1
    BY <1>1, <1>2, <2>1
  <2>3. ASSUME NEW i \in 1..Len(Finals'), i > Len(handled) PROVE Explained(i, Finals'[i])
    <3>1. i = Len(Finals) + 1 /\ i = Turn
      BY <1>2, <2>1, <2>3 DEF Turn
    <3> QED BY <2>1, <3>1
  <2>4. \A i \in 1..(Len(Finals') - 1) : Finals'[i].keep
    BY <1>2, <2>1
  <2> QED BY <1>1, <1>3, <2>2, <2>3, <2>4 DEF Replied
<1> QED BY <1>1, <1>4, <1>5

\* A step that reads nothing and writes nothing.
LEMMA Unread ==
  ASSUME AllOrderly, InStep, UNCHANGED <<script, pos, stage, used, line, fields, body, need, outcome>>
  PROVE  Told' /\ Place' /\ Replied'
<1>1. UNCHANGED <<handled, answers>>
  BY DEF outcome
<1>2. Turn' = Turn /\ Msg' = Msg /\ From' = From
  BY <1>1, SameMessage DEF InStep
<1>3. At' = At /\ Past' = Past
  BY <1>2 DEF At, Past
<1>4. (AtFirst' <=> AtFirst) /\ (AtLines' <=> AtLines)
  BY <1>2, <1>3 DEF AtFirst, AtLines
<1>5. (PlainAt' <=> PlainAt) /\ (AstrayAt' <=> AstrayAt)
  BY <1>2, <1>3 DEF PlainAt, AstrayAt, FirstChunk
<1>6. ChunksAt(Msg.pieces, Chunks(Msg), Len(Msg.pieces))' <=> ChunksAt(Msg.pieces, Chunks(Msg), Len(Msg.pieces))
  BY <1>2, <1>3 DEF ChunksAt
<1>7. AtBody' <=> AtBody
  BY <1>2, <1>5, <1>6 DEF AtBody
<1>8. Place'
  BY <1>4, <1>7 DEF InStep, Place
<1>9. Finals' = Finals
  BY <1>1 DEF Finals
<1>10. Told'
  BY <1>1, SameMessage DEF InStep, Told
<1>11. Replied'
  <2>1. ASSUME NEW i, NEW a PROVE Explained(i, a)' <=> Explained(i, a)
    BY DEF Explained
  <2> QED BY <1>1, <1>9, <2>1 DEF InStep, Replied
<1> QED BY <1>8, <1>10, <1>11

\* An error is written, or not.
LEMMA Refuses ==
  ASSUME AllOrderly, InStep, stage # "closed", UNCHANGED script, NEW status \in Nat, status # 100, Refuse(status),
         \A a \in Said : a.status = status => Explained(Turn, a)
  PROVE  Told' /\ Place' /\ Replied'
<1> DEFINE a == [status |-> status, keep |-> FALSE]
<1>1. a \in Said /\ a.status = status /\ ~a.keep
  BY DEF Said
<1> HIDE DEF a
<1>2. answers \in Seq(Said)
  BY DEF InStep, Replied
<1>3. UNCHANGED handled /\ stage' = "closed" /\ answers' \in {answers, Append(answers, a)}
  BY DEF Refuse, a
<1>4. Append(answers, a) \in Seq(Said) /\ Final(Append(answers, a)) = Append(Finals, a)
  BY <1>1, <1>2, FinalGrows DEF Finals
<1>5. answers' \in Seq(Said) /\ Finals' \in {Finals, Append(Finals, a)}
  <2>1. CASE answers' = answers
    BY <1>2, <2>1 DEF Finals
  <2>2. CASE answers' = Append(answers, a)
    BY <1>4, <2>2 DEF Finals
  <2> QED BY <1>3, <2>1, <2>2
<1>6. Explained(Turn, a)
  BY <1>1
<1> QED BY <1>1, <1>3, <1>5, <1>6, Refused

\* The first line of a message, as its fault leaves it.
LEMMA FirstIs ==
  ASSUME NEW m, Orderly(m), NEW l, l = FirstLine(m)
  PROVE  /\ Length(l) = 1 /\ l # EndOfLine
         /\ m.fault = "no request" => l.k = "text"
         /\ m.fault # "no request" => l.k = "request"
         /\ m.fault = "version" => l.version = "HTTP/2.0"
         /\ m.fault = "target" => ~GoodTarget(l.target)
         /\ m.fault = "climbs" => ~GoodTarget(l.target)
         /\ m.fault \notin FirstFaults => l = m.line
         /\ m.fault \in {"target", "climbs"} => l.version = m.line.version
<1> DEFINE q == m.line
           t == q.target
<1>1. /\ q = [k |-> "request", method |-> q.method, target |-> t, version |-> q.version]
      /\ t = [form |-> t.form, segs |-> t.segs]
      /\ m.fault = "climbs" => t.form # "asterisk"
  BY DEF Orderly, RequestLine
<1> HIDE DEF q, t
<1>2. CASE m.fault = "no request"
  BY <1>2 DEF FirstLine, Line, Length, EndOfLine, FirstFaults
<1>3. CASE m.fault = "version"
  <2>1. l = [q EXCEPT !.version = "HTTP/2.0"]
    BY <1>3 DEF FirstLine, q
  <2>2. l.k = "request" /\ l.version = "HTTP/2.0"
    BY <1>1, <2>1
  <2> QED BY <1>3, <2>2 DEF Length, EndOfLine, FirstFaults
<1>4. CASE m.fault = "target"
  <2>1. l = [q EXCEPT !.target.form = "other"]
    BY <1>4 DEF FirstLine, q
  <2>2. l.k = "request" /\ l.version = q.version /\ l.target = [t EXCEPT !.form = "other"]
    BY <1>1, <2>1
  <2>3. l.target.form = "other"
    BY <1>1, <2>2
  <2> QED BY <1>4, <2>2, <2>3 DEF Length, EndOfLine, FirstFaults, GoodTarget, q
<1>5. CASE m.fault = "climbs"
  <2>1. l = [q EXCEPT !.target.segs = <<"..">>]
    BY <1>5 DEF FirstLine, q
  <2>2. l.k = "request" /\ l.version = q.version /\ l.target = [t EXCEPT !.segs = <<"..">>]
    BY <1>1, <2>1
  <2>3. l.target.form = t.form /\ l.target.segs = <<"..">>
    BY <1>1, <2>2
  <2>4. ".." \in ToSet(<<"..">>)
    BY DEF ToSet
  <2> QED BY <1>1, <1>5, <2>2, <2>3, <2>4 DEF Length, EndOfLine, FirstFaults, GoodTarget, q
<1>6. CASE m.fault \notin FirstFaults
  <2>1. l = q
    BY <1>6 DEF FirstLine, FirstFaults, q
  <2>2. l.k = "request"
    BY <1>1, <2>1
  <2>3. m.fault \notin {"no request", "version", "target", "climbs"}
    BY <1>6 DEF FirstFaults
  <2>4. Length(l) = 1 /\ l # EndOfLine
    BY <2>2 DEF Length, EndOfLine
  <2> QED BY <2>1, <2>2, <2>3, <2>4 DEF q
<1> QED BY <1>2, <1>3, <1>4, <1>5, <1>6 DEF FirstFaults

-----------------------------------------------------------------------------
(* Reading the head of a message                                           *)

\* A message within the limits.
LEMMA ModerateIs ==
  ASSUME NEW m, Orderly(m), Moderate(m)
  PROVE  /\ Headed(m) + Len(m.trailers) + 1 <= MaxHeader /\ Len(m.trailers) \in Nat
         /\ Headed(m) <= MaxHeader /\ m.strays + Len(HeadLines(m)) + 1 <= MaxHeader /\ m.strays + 1 <= MaxHeader
<1>1. Len(m.trailers) \in Nat /\ m.strays \in Nat /\ Len(HeadLines(m)) \in Nat /\ MaxHeader \in Nat
  BY PiecesOf, InSeq, HeadIs, Positive DEF Orderly
<1>2. m.strays + 1 + Len(HeadLines(m)) + 1 + Len(m.trailers) + 1 <= MaxHeader
  BY DEF Moderate
<1>3. \A a, b, c, d \in Nat : a + 1 + b + 1 + c + 1 <= d =>
        /\ a + b + 2 + c + 1 <= d /\ a + b + 2 <= d /\ a + b + 1 <= d /\ a + 1 <= d
  OBVIOUS
<1> QED BY <1>1, <1>2, <1>3, Zenon DEF Headed

\* The request line: what is before it, and what is wrong with it.
LEMMA FirstInStep ==
  ASSUME AllOrderly, InStep, ReadFirst
  PROVE  Told' /\ Place' /\ Replied'
<1>1. /\ Carried /\ Told /\ AtFirst /\ stage = "first" /\ stage # "closed" /\ pos < sent /\ At \in Nat
      /\ UNCHANGED script
  BY DEF InStep, Place, ReadFirst, Reads, AtFirst, wireVars
<1>2. Turn <= Len(script)
  BY <1>1, NoneAfter
<1>3. /\ Orderly(Msg) /\ At <= Msg.strays /\ Msg.strays \in Nat /\ Turn \in Nat /\ From \in Nat /\ pos \in Nat
      /\ used = At /\ body = <<>> /\ fields = <<>> /\ line = EndOfLine
  BY <1>1, <1>2, Where DEF AtFirst, Orderly, Carried
<1>4. /\ At < Msg.strays => Lexeme = EndOfLine
      /\ At = Msg.strays => Lexeme = FirstLine(Msg)
  BY <1>1, <1>2, <1>3, ComesFirst
<1>5. /\ Length(Lexeme) = 1
      /\ Lexeme # EndOfLine => At = Msg.strays /\ Lexeme = FirstLine(Msg)
      /\ Lexeme = EndOfLine => At < Msg.strays
  <2>1. Length(EndOfLine) = 1
    BY DEF Length, EndOfLine
  <2>2. Length(FirstLine(Msg)) = 1 /\ FirstLine(Msg) # EndOfLine
    BY <1>3, FirstIs
  <2>3. At < Msg.strays \/ At = Msg.strays
    BY <1>1, <1>3
  <2> QED BY <1>4, <2>1, <2>2, <2>3
<1>6. Lexeme.k = "request" => Lexeme # EndOfLine
  BY DEF EndOfLine
<1>7. CASE Overlong /\ Refuse(431)
  <2>1. ~Moderate(Msg)
    <3>1. At + 1 > MaxHeader /\ MaxHeader \in Nat
      BY <1>3, <1>5, <1>7, Positive DEF Overlong
    <3> QED BY <1>1, <1>3, <3>1, ModerateIs
  <2>2. \A a \in Said : a.status = 431 => Explained(Turn, a)
    BY <1>2, <2>1 DEF Explained, Msg
  <2> QED BY <1>1, <1>7, <2>2, Refuses
<1>8. CASE /\ ~Overlong /\ Lexeme = EndOfLine
           /\ Consume /\ Arm(left)
           /\ UNCHANGED <<stage, line, fields, body, need, spent, outcome>>
  <2>1. UNCHANGED <<script, handled, answers, stage, line, fields, body>> /\ pos' = pos + 1 /\ used' = used + 1
    BY <1>1, <1>5, <1>8 DEF outcome, Consume
  <2>2. Turn' = Turn /\ Msg' = Msg /\ From' = From
    BY <1>1, <2>1, SameMessage
  <2>3. At' = At + 1 /\ At + 1 \in Nat /\ At + 1 <= Msg.strays
    BY <1>1, <1>3, <1>5, <1>8, <2>1, <2>2 DEF At
  <2>4. AtFirst'
    BY <1>1, <1>2, <1>3, <2>1, <2>2, <2>3 DEF AtFirst
  <2>5. Place'
    BY <1>1, <2>1, <2>4 DEF Place
  <2>6. Finals' = Finals /\ answers' \in Seq(Said)
    BY <2>1 DEF Finals, InStep, Replied
  <2> QED BY <1>1, <2>1, <2>5, <2>6, Onward
<1>9. CASE ~Overlong /\ Lexeme # EndOfLine /\ Lexeme.k # "request" /\ Refuse(400)
  <2>1. Msg.fault = "no request"
    BY <1>3, <1>5, <1>9, FirstIs
  <2>2. \A a \in Said : a.status = 400 => Explained(Turn, a)
    BY <1>2, <2>1 DEF Explained, Msg, Refusal
  <2> QED BY <1>1, <1>9, <2>2, Refuses
<1>10. CASE ~Overlong /\ Lexeme.k = "request" /\ Lexeme.version \notin {"HTTP/1.0", "HTTP/1.1"} /\ Refuse(505)
  <2>1. Lexeme = FirstLine(Msg)
    BY <1>5, <1>6, <1>10
  <2>2. Msg.fault = "version" \/ ~Moderate(Msg)
    <3>1. CASE Msg.fault \in FirstFaults \ {"no request", "version"}
      BY <1>3, <1>10, <2>1, <3>1, FirstIs DEF Moderate, FirstFaults
    <3>2. CASE Msg.fault \notin FirstFaults
      BY <1>3, <1>10, <2>1, <3>2, FirstIs DEF Moderate
    <3>3. Msg.fault # "no request"
      BY <1>3, <1>10, <2>1, FirstIs
    <3> QED BY <3>1, <3>2, <3>3
  <2>3. \A a \in Said : a.status = 505 => Explained(Turn, a)
    BY <1>2, <2>2 DEF Explained, Msg, Refusal
  <2> QED BY <1>1, <1>10, <2>3, Refuses
<1>11. CASE /\ ~Overlong /\ Lexeme.k = "request" /\ Lexeme.version \in {"HTTP/1.0", "HTTP/1.1"}
            /\ ~GoodTarget(Lexeme.target) /\ Refuse(400)
  <2>1. Lexeme = FirstLine(Msg)
    BY <1>5, <1>6, <1>11
  <2>2. Msg.fault \in {"target", "climbs"} \/ ~Moderate(Msg)
    <3>1. CASE Msg.fault \notin FirstFaults
      BY <1>3, <1>11, <2>1, <3>1, FirstIs DEF Moderate
    <3>2. Msg.fault \notin {"no request", "version"}
      BY <1>3, <1>11, <2>1, FirstIs
    <3> QED BY <3>1, <3>2 DEF FirstFaults
  <2>3. \A a \in Said : a.status = 400 => Explained(Turn, a)
    BY <1>2, <2>2 DEF Explained, Msg, Refusal
  <2> QED BY <1>1, <1>11, <2>3, Refuses
<1>12. CASE /\ ~Overlong /\ Lexeme.k = "request" /\ Lexeme.version \in {"HTTP/1.0", "HTTP/1.1"}
            /\ GoodTarget(Lexeme.target)
            /\ Consume /\ stage' = "head" /\ line' = Lexeme
            /\ Arm(RequestTimeout) /\ spent' = 0
            /\ UNCHANGED <<fields, body, need, outcome>>
  <2>1. /\ UNCHANGED <<script, handled, answers, fields, body>> /\ pos' = pos + 1 /\ used' = used + 1
        /\ Lexeme = FirstLine(Msg) /\ line' = Lexeme /\ stage' = "head" /\ At = Msg.strays
    BY <1>1, <1>5, <1>6, <1>12 DEF outcome, Consume
  <2>2. Turn' = Turn /\ Msg' = Msg /\ From' = From
    BY <1>1, <2>1, SameMessage
  <2>3. Msg.fault \notin FirstFaults /\ line' = Msg.line
    <3>1. Msg.fault \notin {"no request", "version", "target", "climbs"}
      BY <1>3, <1>12, <2>1, FirstIs
    <3>2. Msg.fault \notin FirstFaults
      BY <3>1 DEF FirstFaults
    <3>3. \A l : l = FirstLine(Msg) => (Msg.fault \notin FirstFaults => l = Msg.line)
      BY <1>3, FirstIs
    <3> QED BY <2>1, <3>2, <3>3
  <2>4. At' = At + 1 /\ used' = At' /\ At' = Msg.strays + 1 + 0
    BY <1>1, <1>3, <2>1, <2>2 DEF At
  <2>5. Len(fields') = 0 /\ Begins(fields', HeadLines(Msg)) /\ 1..Len(fields') = {}
    <3>1. fields' = <<>> /\ Len(HeadLines(Msg)) \in Nat
      BY <1>3, <2>1, HeadIs
    <3> QED BY <3>1 DEF Begins
  <2>6. AtLines'
    BY <1>2, <1>3, <2>1, <2>2, <2>3, <2>4, <2>5 DEF AtLines
  <2>7. Place'
    BY <2>1, <2>6 DEF Place
  <2>8. Finals' = Finals /\ answers' \in Seq(Said)
    BY <2>1 DEF Finals, InStep, Replied
  <2> QED BY <1>1, <2>1, <2>7, <2>8, Onward
<1> QED BY <1>7, <1>8, <1>9, <1>10, <1>11, <1>12, Zenon DEF ReadFirst

\* One lexeme further.
LEMMA Further ==
  ASSUME AllOrderly, Carried, Told, UNCHANGED <<script, handled>>, pos' = pos + 1
  PROVE  /\ At \in Int /\ At' = At + 1
         /\ Turn <= Len(script) => Headed(Msg) \in Nat /\ Past \in Int /\ Past' = Past + 1 /\ Past = At - Headed(Msg)
<1>1. Turn' = Turn /\ Msg' = Msg /\ From' = From
  BY SameMessage
<1>2. From \in Nat /\ pos \in Nat /\ (Turn <= Len(script) => Headed(Msg) \in Nat)
  BY Where, EncodedIs DEF Carried
<1>3. At \in Int /\ At' = At + 1
  BY <1>1, <1>2 DEF At
<1>4. Past = At - Headed(Msg) /\ Past' = At' - Headed(Msg)
  BY <1>1 DEF Past
<1> QED BY <1>2, <1>3, <1>4

\* One element further.
LEMMA BeginsGrows ==
  ASSUME NEW s, NEW t, Sequence(s), Begins(s, t), Len(t) \in Nat, Len(s) < Len(t)
  PROVE  Begins(Append(s, t[Len(s) + 1]), t)
<1> DEFINE x == t[Len(s) + 1]
           r == Append(s, x)
<1>1. /\ Len(s) \in Nat /\ Len(r) = Len(s) + 1 /\ \A i \in 1..Len(s) : r[i] = s[i]
      /\ r[Len(s) + 1] = x
  BY Grown
<1> HIDE DEF r
<1>2. ASSUME NEW i \in 1..Len(r) PROVE r[i] = t[i]
  <2>1. i \in 1..Len(s) \/ i = Len(s) + 1
    BY <1>1
  <2> QED BY <1>1, <2>1 DEF Begins
<1>3. Len(r) <= Len(t)
  BY <1>1
<1>4. Begins(r, t)
  BY <1>2, <1>3 DEF Begins
<1> QED BY <1>4 DEF r

\* The lines of a head and how long they are.
LEMMA LineLengths ==
  ASSUME NEW m, Orderly(m), NEW i \in 1..Len(HeadLines(m)), NEW l, l = HeadLines(m)[i]
  PROVE  \/ l.k \in {"field", "length"} /\ Length(l) = 1
         \/ m.fault = "flood" /\ Length(l) = MaxHeader + 1
         \/ m.fault \in {"nameless", "folded"} /\ Length(l) = 1
<1>1. \/ l.k \in {"field", "length"}
      \/ m.fault = "flood" /\ l = Line("text", MaxHeader + 1)
      \/ m.fault = "nameless" /\ l = Line("text", 1)
      \/ m.fault = "folded" /\ l = Line("folded", 1)
  BY LinesAre
<1>2. l.k \in {"field", "length"} => Length(l) = 1
  BY DEF Length
<1>3. \A n : Length(Line("text", n)) = n /\ Length(Line("folded", n)) = n
  BY DEF Length, Line
<1> QED BY <1>1, <1>2, <1>3

\* A line of the head, which is the next one of the message's.
LEMMA FieldInStep ==
  ASSUME AllOrderly, InStep, ReadField
  PROVE  Told' /\ Place' /\ Replied'
<1> DEFINE i == Len(fields)
           h == HeadLines(Msg)
<1>1. /\ Carried /\ Told /\ AtLines /\ stage = "head" /\ stage # "closed" /\ pos < sent
      /\ UNCHANGED script /\ Lexeme # EndOfLine /\ Turn <= Len(script) /\ Sequence(fields)
  BY DEF InStep, Place, ReadField, Reads, AtLines, wireVars, Carried, Sequence
<1>2. /\ Orderly(Msg) /\ Msg.strays \in Nat /\ Turn \in Nat /\ From \in Nat /\ pos \in Nat
      /\ i \in Nat /\ Len(h) \in Nat
  BY <1>1, Where, InSeq, HeadIs DEF Orderly, Carried
<1>3. /\ used = At /\ At = Msg.strays + 1 + i /\ i <= Len(h) /\ Begins(fields, h)
      /\ \A j \in 1..i : fields[j].k \in {"field", "length"}
  BY <1>1 DEF AtLines, Begins
<1>4. i < Len(h) /\ Lexeme = h[i + 1]
  <2>1. /\ i < Len(h) => Lexeme = h[i + 1]
        /\ i = Len(h) => Lexeme = EndOfLine
    BY <1>1, <1>2, <1>3, ComesLine
  <2>2. i < Len(h) \/ i = Len(h)
    BY <1>2, <1>3
  <2> QED BY <1>1, <2>1, <2>2
<1>5. \/ Lexeme.k \in {"field", "length"} /\ Length(Lexeme) = 1
      \/ Msg.fault = "flood" /\ Length(Lexeme) = MaxHeader + 1
      \/ Msg.fault \in {"nameless", "folded"} /\ Length(Lexeme) = 1
  <2>1. i + 1 \in 1..Len(h)
    BY <1>2, <1>4
  <2> QED BY <1>2, <1>4, <2>1, LineLengths
<1> HIDE DEF i, h
<1>6. CASE Overlong /\ Refuse(431)
  <2>1. Msg.fault = "flood" \/ ~Moderate(Msg)
    <3>1. Length(Lexeme) = 1 => Msg.strays + Len(h) + 1 > MaxHeader
      <4>1. \A a, b, c, d \in Nat : b < c /\ a + 1 + b + 1 > d => a + c + 1 > d
        OBVIOUS
      <4> QED BY <1>2, <1>3, <1>4, <1>6, <4>1, Positive DEF Overlong
    <3>2. Moderate(Msg) => Msg.strays + Len(h) + 1 <= MaxHeader
      BY <1>2, ModerateIs DEF h
    <3>3. MaxHeader \in Nat
      BY Positive
    <3> QED BY <1>2, <1>5, <3>1, <3>2, <3>3
  <2>2. \A a \in Said : a.status = 431 => Explained(Turn, a)
    BY <1>1, <2>1 DEF Explained, Msg, Refusal
  <2> QED BY <1>1, <1>6, <2>2, Refuses
<1>7. CASE ~Overlong /\ Lexeme.k \notin {"field", "length"} /\ Refuse(400)
  <2>1. Length(Lexeme) # MaxHeader + 1
    BY <1>2, <1>3, <1>7, Positive DEF Overlong
  <2>2. Msg.fault \in {"nameless", "folded"}
    BY <1>5, <1>7, <2>1
  <2>3. \A a \in Said : a.status = 400 => Explained(Turn, a)
    BY <1>1, <2>2 DEF Explained, Msg, Refusal
  <2> QED BY <1>1, <1>7, <2>3, Refuses
<1>8. CASE /\ ~Overlong /\ Lexeme.k \in {"field", "length"}
           /\ Consume /\ fields' = Append(fields, Lexeme) /\ Arm(left)
           /\ UNCHANGED <<stage, line, body, need, spent, outcome>>
  <2>1. Length(Lexeme) = 1
    BY <1>8 DEF Length
  <2>2. /\ UNCHANGED <<script, handled, answers, stage, line, body>> /\ pos' = pos + 1 /\ used' = used + 1
        /\ fields' = Append(fields, Lexeme)
    BY <1>1, <1>8, <2>1 DEF outcome, Consume
  <2>3. Turn' = Turn /\ Msg' = Msg /\ From' = From
    BY <1>1, <2>2, SameMessage
  <2>4. /\ Len(fields') = i + 1 /\ \A j \in 1..(i + 1) : fields'[j].k \in {"field", "length"}
    <3>1. /\ Len(fields') = i + 1 /\ fields'[i + 1] = Lexeme /\ \A j \in 1..i : fields'[j] = fields[j]
      BY <1>1, <2>2, Grown DEF i
    <3>2. \A j \in 1..(i + 1) : j \in 1..i \/ j = i + 1
      BY <1>2
    <3> QED BY <1>3, <1>8, <3>1, <3>2
  <2>5. Begins(fields', h)
    BY <1>1, <1>2, <1>3, <1>4, <2>2, BeginsGrows DEF i
  <2>6. At' = At + 1 /\ used' = At' /\ At' = Msg.strays + 1 + (i + 1)
    <3>1. At' = At + 1
      BY <1>1, <2>2, Further
    <3> QED BY <1>2, <1>3, <2>2, <3>1
  <2>7. /\ Msg.fault \notin FirstFaults /\ line' = Msg.line /\ body' = <<>> /\ Turn <= Len(script)
    BY <1>1, <2>2 DEF AtLines
  <2>8. AtLines'
    BY <2>2, <2>3, <2>4, <2>5, <2>6, <2>7 DEF AtLines, h
  <2>9. Place'
    BY <1>1, <2>2, <2>8 DEF Place
  <2>10. Finals' = Finals /\ answers' \in Seq(Said)
    BY <2>2 DEF Finals, InStep, Replied
  <2> QED BY <1>1, <2>2, <2>9, <2>10, Onward
<1> QED BY <1>6, <1>7, <1>8 DEF ReadField

\* A head that has been read to its end is without the faults that its lines show.
LEMMA CleanHead ==
  ASSUME NEW m, Orderly(m), \A j \in 1..Len(HeadLines(m)) : HeadLines(m)[j].k \in {"field", "length"}
  PROVE  m.fault \notin {"flood", "nameless", "folded"}
<1> DEFINE x == IF m.fault = "flood" THEN Line("text", MaxHeader + 1)
                ELSE IF m.fault = "nameless" THEN Line("text", 1) ELSE Line("folded", 1)
<1>1. ASSUME m.fault \in {"flood", "nameless", "folded"} PROVE FALSE
  <2>1. HeadFault(m) = <<x>>
    BY <1>1 DEF HeadFault
  <2>2. x.k \in {"text", "folded"}
    BY DEF Line
  <2> HIDE DEF x
  <2>3. Len(HeadFault(m)) = 1 /\ HeadFault(m)[1] = x
    BY <2>1, OneLong
  <2>4. Within(HeadFault(m), HeadLines(m), Len(m.fields) + Len(Framing(m)))
    BY HeadIs DEF IsThree
  <2>5. 1 \in 1..Len(HeadFault(m))
    BY <2>3
  <2>6. \E j \in 1..Len(HeadLines(m)) : HeadLines(m)[j] = HeadFault(m)[1]
    BY <2>4, <2>5, FoundIn
  <2> QED BY <2>2, <2>3, <2>6
<1> QED BY <1>1

\* A message whose head is well formed.
LEMMA WellHeaded ==
  ASSUME NEW m, Orderly(m), m.fault \in {"none"} \cup BodyFaults
  PROVE  HeadLines(m) = m.fields \o Framing(m)
<1>1. HeadFault(m) = <<>>
  BY DEF HeadFault, BodyFaults
<1>2. HeadLines(m) = m.fields \o Framing(m) \o <<>>
  BY <1>1 DEF HeadLines
<1>3. \A s : Sequence(s) => s \o <<>> = s
  BY DEF Sequence
<1>4. Sequence(m.fields \o Framing(m))
  BY PiecesOf, HeadIs, Joined
<1> QED BY <1>2, <1>3, <1>4

\* The empty line comes after all of the head.
LEMMA HeadEnds ==
  ASSUME AllOrderly, InStep, stage = "head", Lexeme = EndOfLine
  PROVE  /\ Turn <= Len(script) /\ Orderly(Msg) /\ fields = HeadLines(Msg) /\ At = Headed(Msg) - 1 /\ used = At
         /\ At \in Nat /\ Headed(Msg) \in Nat /\ line = Msg.line /\ body = <<>>
         /\ Msg.fault \notin FirstFaults /\ Msg.fault \notin {"flood", "nameless", "folded"}
<1> DEFINE i == Len(fields)
           h == HeadLines(Msg)
<1>1. /\ Carried /\ Told /\ AtLines /\ Turn <= Len(script) /\ Sequence(fields)
  BY DEF InStep, Place, AtLines, Carried, Sequence
<1>2. /\ Orderly(Msg) /\ Msg.strays \in Nat /\ i \in Nat /\ Len(h) \in Nat /\ Sequence(h)
  BY <1>1, Where, InSeq, HeadIs DEF Orderly
<1>3. /\ used = At /\ At = Msg.strays + 1 + i /\ i <= Len(h) /\ \A j \in 1..i : fields[j] = h[j]
      /\ \A j \in 1..i : fields[j].k \in {"field", "length"}
      /\ line = Msg.line /\ body = <<>> /\ Msg.fault \notin FirstFaults
  BY <1>1 DEF AtLines, Begins
<1>4. i = Len(h)
  <2>1. i < Len(h) => Lexeme = h[i + 1]
    BY <1>1, <1>2, <1>3, ComesLine
  <2>2. ASSUME i < Len(h) PROVE FALSE
    <3>1. i + 1 \in 1..Len(h)
      BY <1>2, <2>2
    <3>2. \/ h[i + 1].k \in {"field", "length"}
          \/ h[i + 1] = Line("text", MaxHeader + 1) \/ h[i + 1] = Line("text", 1)
          \/ h[i + 1] = Line("folded", 1)
      BY <1>2, <3>1, LinesAre
    <3>3. EndOfLine.k = "eol" /\ \A n : Line("text", n).k = "text" /\ Line("folded", n).k = "folded"
      BY DEF EndOfLine, Line
    <3> HIDE DEF i, h
    <3> QED BY <2>1, <2>2, <3>2, <3>3
  <2> QED BY <1>2, <1>3, <2>2
<1>5. fields = h
  <2> HIDE DEF h
  <2> QED BY <1>1, <1>2, <1>3, <1>4, Same
<1>6. Msg.fault \notin {"flood", "nameless", "folded"}
  <2>1. \A j \in 1..Len(h) : h[j].k \in {"field", "length"}
    BY <1>3, <1>4, <1>5
  <2> QED BY <1>2, <2>1, CleanHead
<1>7. Headed(Msg) = Msg.strays + Len(h) + 2
  BY DEF Headed
<1>8. At = Headed(Msg) - 1 /\ At \in Nat /\ Headed(Msg) \in Nat
  <2> HIDE DEF i, h
  <2> QED BY <1>2, <1>3, <1>4, <1>7
<1> QED BY <1>1, <1>2, <1>3, <1>5, <1>6, <1>8

\* What EndOfHead does: interim is 100 Continue, where it is asked for.
Interim == IF Get(fields, "expect", "") = "100-continue"
           THEN <<[status |-> 100, keep |-> TRUE]>> ELSE <<>>

\* How EndOfHead refuses, and how it goes on.
RefuseThen(status) ==
    /\ stage' = "closed"
    /\ \/ answers' = answers \o Interim \o <<[status |-> status, keep |-> FALSE]>>
       \/ answers' = answers \o Interim

Turned(next, n) == stage' = next /\ need' = n /\ answers' = answers \o Interim

LEMMA HeadChoices ==
  ASSUME EndOfHead
  PROVE  /\ Reads("head") /\ Lexeme = EndOfLine /\ UNCHANGED wireVars
         /\ \/ Overlong /\ Refuse(431)
            \/ /\ ~Overlong /\ Consume /\ UNCHANGED <<line, fields, body, handled>>
               /\ \/ Framed(fields) = "400" /\ RefuseThen(400)
                  \/ Framed(fields) = "501" /\ RefuseThen(501)
                  \/ Framed(fields) = "chunked" /\ Turned("size", 0)
                  \/ Framed(fields) = "none" /\ Turned("handle", 0)
                  \/ /\ Framed(fields) = "length"
                     /\ \/ Cardinality(Lengths(fields)) > 1 /\ RefuseThen(400)
                        \/ Max(Lengths(fields)) = NotANumber /\ RefuseThen(400)
                        \/ /\ Cardinality(Lengths(fields)) = 1 /\ Max(Lengths(fields)) > MaxBody
                           /\ RefuseThen(413)
                        \/ /\ Cardinality(Lengths(fields)) = 1 /\ Max(Lengths(fields)) \in 0..MaxBody
                           /\ Turned("data", Max(Lengths(fields)))
<1> DEFINE interim == IF Get(fields, "expect", "") = "100-continue"
                      THEN <<[status |-> 100, keep |-> TRUE]>> ELSE <<>>
<1>1. interim = Interim
  BY DEF Interim
<1> QED BY <1>1, Zenon DEF EndOfHead, RefuseThen, Turned, ReadExact

\* 100 Continue is not an answer.
LEMMA InterimIs ==
  ASSUME answers \in Seq(Said)
  PROVE  /\ answers \o Interim \in Seq(Said) /\ Final(answers \o Interim) = Finals
<1> DEFINE a == [status |-> 100, keep |-> TRUE]
<1>1. \A s \in Seq(Said) : \A x \in Said : s \o <<>> = s /\ s \o <<x>> = Append(s, x)
  OBVIOUS
<1>2. Interim = <<a>> \/ Interim = <<>>
  BY DEF Interim
<1>3. a \in Said /\ a.status = 100
  BY DEF Said
<1> HIDE DEF a
<1>4. CASE Interim = <<>>
  BY <1>1, <1>3, <1>4 DEF Finals
<1>5. CASE Interim = <<a>>
  <2>1. Append(answers, a) \in Seq(Said) /\ Final(Append(answers, a)) = Final(answers)
    BY <1>3, FinalGrows
  <2>2. answers \o <<a>> = Append(answers, a)
    BY <1>1, <1>3
  <2> QED BY <1>5, <2>1, <2>2 DEF Finals
<1> QED BY <1>2, <1>4, <1>5

LEMMA ThenRefuses ==
  ASSUME AllOrderly, InStep, stage # "closed", UNCHANGED <<script, handled>>,
         NEW status \in Nat, status # 100, RefuseThen(status),
         \A a \in Said : a.status = status => Explained(Turn, a)
  PROVE  Told' /\ Place' /\ Replied'
<1> DEFINE a == [status |-> status, keep |-> FALSE]
           as == answers \o Interim
<1>1. a \in Said /\ a.status = status /\ ~a.keep
  BY DEF Said
<1>2. stage' = "closed" /\ answers' \in {as, as \o <<a>>}
  BY DEF RefuseThen
<1>3. as \in Seq(Said) /\ Final(as) = Finals
  BY InterimIs DEF InStep, Replied
<1> HIDE DEF a, as
<1>4. \A s \in Seq(Said) : \A x \in Said : s \o <<x>> = Append(s, x)
  OBVIOUS
<1>5. Append(as, a) \in Seq(Said) /\ Final(Append(as, a)) = Append(Finals, a) /\ as \o <<a>> = Append(as, a)
  BY <1>1, <1>3, <1>4, FinalGrows
<1>6. answers' \in Seq(Said) /\ Finals' \in {Finals, Append(Finals, a)}
  <2>1. CASE answers' = as
    BY <1>3, <2>1 DEF Finals
  <2>2. CASE answers' = as \o <<a>>
    BY <1>5, <2>2 DEF Finals
  <2> QED BY <1>2, <2>1, <2>2
<1> QED BY <1>1, <1>2, <1>6, Refused

\* The body that follows a head, of which nothing has been read yet.
LEMMA BodyAwaits ==
  ASSUME AllOrderly, InStep, stage = "head", Lexeme = EndOfLine, UNCHANGED <<script, handled, line, fields, body>>,
         Consume, Msg.fault \in {"none"} \cup BodyFaults, Framed(fields) = Msg.framing
  PROVE  /\ stage' = "handle" /\ Msg.framing = "none" => Place'
         /\ stage' = "data" /\ Msg.framing = "length" /\ need' = Len(Body(Msg)) => Place'
         /\ stage' = "size" /\ Msg.framing = "chunked" => Place'
<1>1. /\ Turn <= Len(script) /\ Orderly(Msg) /\ fields = HeadLines(Msg) /\ At = Headed(Msg) - 1 /\ used = At
      /\ At \in Nat /\ Headed(Msg) \in Nat /\ line = Msg.line /\ body = <<>>
  BY HeadEnds
<1>2. pos' = pos + 1 /\ used' = used + 1
  BY DEF Consume, Length, EndOfLine
<1>3. Turn' = Turn /\ Msg' = Msg /\ At' = At + 1 /\ Past' = Past + 1 /\ Past = At - Headed(Msg)
  BY <1>1, <1>2, SameMessage, Further DEF InStep
<1>4. Past' = 0 /\ used' = Headed(Msg) /\ Len(body') = 0 /\ body' = <<>>
  <2>1. Past' = 0 /\ used' = Headed(Msg)
    BY <1>1, <1>2, <1>3
  <2> QED BY <1>1, <2>1, Nothing
<1>5. fields' = Msg.fields \o Framing(Msg)
  BY <1>1, WellHeaded
<1>6. Begins(body', Body(Msg)) /\ Len(Body(Msg)) \in Nat
  <2>1. Len(Body(Msg)) \in Nat /\ 1..0 = {}
    BY <1>1, PiecesOf
  <2> QED BY <1>4, <2>1 DEF Begins
<1>7. Msg.fault \in BodyFaults => Msg.framing = "chunked"
  BY <1>1 DEF Orderly
<1>8. ASSUME stage' = "handle", Msg.framing = "none" PROVE AtBody'
  <2>1. Len(Body(Msg)) = 0
    <3>1. Msg.pieces = <<>>
      BY <1>1, <1>8 DEF Orderly
    <3>2. FlattenSeq(<<>>) = <<>>
      <4>1. <<>> \in Seq({})
        OBVIOUS
      <4> QED BY <4>1, FlattenIs
    <3> QED BY <3>1, <3>2, Nothing DEF Body
  <2>2. PlainAt'
    BY <1>3, <1>4, <1>8, <2>1 DEF PlainAt
  <2>3. Msg.fault = "none"
    BY <1>7, <1>8
  <2> QED BY <1>1, <1>3, <1>5, <1>6, <1>8, <2>2, <2>3 DEF AtBody
<1>9. ASSUME stage' = "data", Msg.framing = "length", need' = Len(Body(Msg)) PROVE AtBody'
  <2>1. PlainAt'
    BY <1>3, <1>4, <1>6, <1>9 DEF PlainAt
  <2>2. Msg.fault = "none"
    BY <1>7, <1>9
  <2> QED BY <1>1, <1>3, <1>4, <1>5, <1>6, <1>9, <2>1, <2>2 DEF AtBody
<1>10. ASSUME stage' = "size", Msg.framing = "chunked" PROVE AtBody'
  <2>1. CASE Msg.fault = "none"
    <3>1. EndOf(Chunks(Msg), 0) = 0 /\ EndOf(Msg.pieces, 0) = 0 /\ 0 \in 0..Len(Msg.pieces)
      <4>1. EndOf(Chunks(Msg), 0) = 0
        BY <1>1, ChunksOf, Parted
      <4>2. EndOf(Msg.pieces, 0) = 0 /\ Len(Msg.pieces) \in Nat
        BY <1>1, PiecesOf, Parted
      <4> QED BY <4>1, <4>2
    <3>2. ChunksAt(Msg.pieces, Chunks(Msg), Len(Msg.pieces))'
      BY <1>3, <1>4, <1>10, <3>1 DEF ChunksAt
    <3> QED BY <1>1, <1>3, <1>4, <1>5, <1>6, <1>10, <2>1, <3>2 DEF AtBody
  <2>2. CASE Msg.fault # "none"
    <3>1. AstrayAt'
      BY <1>3, <1>4, <1>10 DEF AstrayAt
    <3> QED BY <1>1, <1>3, <1>4, <1>5, <1>10, <2>2, <3>1 DEF AtBody
  <2> QED BY <2>1, <2>2
<1> QED BY <1>8, <1>9, <1>10 DEF Place

\* The faults that show only when the head is complete.
HeadFaults == {"two codings", "two lengths", "no length", "too long", "coding"}

\* A head that contradicts itself, or asks for what the server does not do.
LEMMA IllHeaded ==
  ASSUME NEW m, Orderly(m), m.fault \in HeadFaults, NEW r, r = HeadLines(m)
  PROVE  /\ Framed(r) \in {"400", "501", "length"}
         /\ Framed(r) = "400" /\ Moderate(m) => Refusal(m) = 400
         /\ Framed(r) = "501" /\ Moderate(m) => Refusal(m) = 501
         /\ Framed(r) = "length" =>
               /\ Cardinality(Lengths(r)) > 1 /\ Moderate(m) => Refusal(m) = 400
               /\ Max(Lengths(r)) = NotANumber /\ Moderate(m) => Refusal(m) = 400
               /\ Cardinality(Lengths(r)) = 1 => /\ Max(Lengths(r)) > MaxBody => Refusal(m) = 413
                                                 /\ Max(Lengths(r)) \notin 0..MaxBody
<1>1. MaxBody \in Nat /\ m.framing \in {"none", "length", "chunked"}
  BY Positive DEF Orderly
<1>2. CASE m.fault = "two codings"
  <2>1. Framed(r) = "400"
    BY <1>2, FramedIll
  <2> QED BY <1>2, <2>1 DEF Refusal
<1>3. CASE m.fault = "coding"
  <2>1. Framed(r) = IF m.framing = "none" THEN "501" ELSE "400"
    BY <1>3, FramedIll
  <2>2. Moderate(m) => m.framing = "none"
    BY <1>3 DEF Moderate
  <2> QED BY <1>3, <2>1, <2>2 DEF Refusal
<1>4. CASE m.fault \in {"two lengths", "no length", "too long"}
  <2> DEFINE c == Cardinality(Lengths(r))
             n == Max(Lengths(r))
  <2>1. IF m.framing = "chunked" THEN Framed(r) = "400"
        ELSE /\ Framed(r) = "length" /\ c \in Nat /\ c > 0
             /\ m.fault = "two lengths" => c > 1
             /\ m.fault = "no length" /\ c = 1 => n = NotANumber
             /\ m.fault = "too long" /\ c = 1 => n = MaxBody + 1
             /\ m.fault = "too long" /\ m.framing = "none" => c = 1
    BY <1>4, FramedIll
  <2>2. m.fault = "too long" /\ Moderate(m) => m.framing = "none"
    BY DEF Moderate
  <2>3. /\ m.fault = "too long" => Refusal(m) = 413
        /\ m.fault # "too long" => Refusal(m) = 400
    BY <1>4 DEF Refusal
  <2> HIDE DEF c, n
  <2>4. CASE m.framing = "chunked"
    BY <1>4, <2>1, <2>2, <2>3, <2>4
  <2>5. CASE m.framing # "chunked"
    <3>1. Framed(r) = "length" /\ c \in Nat
      BY <2>1, <2>5
    <3>2. ~(c > 1 /\ c = 1)
      BY <3>1
    <3>3. c > 1 /\ Moderate(m) => Refusal(m) = 400
      <4>1. c > 1 /\ Moderate(m) => m.fault # "too long"
        <5>1. m.framing \in {"none", "length", "chunked"}
          BY <1>1
        <5> QED BY <2>1, <2>2, <2>5, <3>2, Zenon
      <4> QED BY <2>3, <4>1
    <3>4. n = NotANumber /\ Moderate(m) => Refusal(m) = 400
      <4>1. MaxBody + 1 # NotANumber
        BY <1>1 DEF NotANumber
      <4> QED BY <2>1, <2>2, <2>3, <2>5, <4>1
    <3>5. c = 1 => (n > MaxBody => Refusal(m) = 413) /\ n \notin 0..MaxBody
      <4>1. /\ MaxBody + 1 \notin 0..MaxBody /\ NotANumber \notin 0..MaxBody /\ ~(NotANumber > MaxBody)
        BY <1>1 DEF NotANumber
      <4>2. c = 1 => m.fault # "two lengths"
        BY <2>1, <2>5, <3>2, Zenon
      <4>3. c = 1 => (n = MaxBody + 1 /\ Refusal(m) = 413) \/ n = NotANumber
        BY <1>4, <2>1, <2>3, <2>5, <4>2, Zenon
      <4> QED BY <4>1, <4>3, Zenon
    <3> QED BY <3>1, <3>3, <3>4, <3>5 DEF c, n
  <2> QED BY <2>4, <2>5
<1> QED BY <1>2, <1>3, <1>4 DEF HeadFaults

\* The end of the head: the framing is that of the message, or its fault is found.
LEMMA HeadInStep ==
  ASSUME AllOrderly, InStep, EndOfHead
  PROVE  Told' /\ Place' /\ Replied'
<1>1. /\ stage = "head" /\ stage # "closed" /\ Lexeme = EndOfLine /\ UNCHANGED script
  BY HeadChoices DEF Reads, wireVars
<1>2. /\ Turn <= Len(script) /\ Orderly(Msg) /\ fields = HeadLines(Msg) /\ At = Headed(Msg) - 1 /\ used = At
      /\ Headed(Msg) \in Nat /\ Msg.fault \notin FirstFaults /\ Msg.fault \notin {"flood", "nameless", "folded"}
  BY <1>1, HeadEnds
<1>3. Msg.fault \in HeadFaults \/ Msg.fault \in {"none"} \cup BodyFaults
  BY <1>2 DEF Orderly, LineFaults, HeadFaults
<1>4. CASE Overlong /\ Refuse(431)
  <2>1. ~Moderate(Msg)
    <3>1. Length(EndOfLine) = 1
      BY DEF Length, EndOfLine
    <3>2. Headed(Msg) > MaxHeader /\ MaxHeader \in Nat
      BY <1>1, <1>2, <1>4, <3>1, Positive DEF Overlong
    <3> QED BY <1>2, <3>2, ModerateIs
  <2>2. \A a \in Said : a.status = 431 => Explained(Turn, a)
    BY <1>2, <2>1 DEF Explained, Msg
  <2> QED BY <1>1, <1>4, <2>2, Refuses
<1>5. ASSUME UNCHANGED handled, NEW status \in Nat, status # 100, RefuseThen(status),
             Moderate(Msg) => Msg.fault # "none" /\ Refusal(Msg) = status
      PROVE  Told' /\ Place' /\ Replied'
  <2>1. \A a \in Said : a.status = status => Explained(Turn, a)
    BY <1>2, <1>5 DEF Explained, Msg
  <2> QED BY <1>1, <1>5, <2>1, ThenRefuses
<1>6. CASE /\ ~Overlong /\ Consume /\ UNCHANGED <<line, fields, body, handled>>
           /\ Msg.fault \in HeadFaults
  <2>1. Msg.fault # "none"
    BY <1>6 DEF HeadFaults
  <2>2. /\ Framed(fields) \in {"400", "501", "length"}
        /\ Framed(fields) = "400" /\ Moderate(Msg) => Refusal(Msg) = 400
        /\ Framed(fields) = "501" /\ Moderate(Msg) => Refusal(Msg) = 501
        /\ Framed(fields) = "length" =>
               /\ Cardinality(Lengths(fields)) > 1 /\ Moderate(Msg) => Refusal(Msg) = 400
               /\ Max(Lengths(fields)) = NotANumber /\ Moderate(Msg) => Refusal(Msg) = 400
               /\ Cardinality(Lengths(fields)) = 1 => /\ Max(Lengths(fields)) > MaxBody => Refusal(Msg) = 413
                                                      /\ Max(Lengths(fields)) \notin 0..MaxBody
    BY <1>2, <1>6, IllHeaded
  <2>3. \/ RefuseThen(400) /\ (Moderate(Msg) => Refusal(Msg) = 400)
        \/ RefuseThen(501) /\ (Moderate(Msg) => Refusal(Msg) = 501)
        \/ RefuseThen(413) /\ (Moderate(Msg) => Refusal(Msg) = 413)
        \/ Overlong /\ Refuse(431)
    BY <2>2, HeadChoices
  <2>4. /\ 400 \in Nat /\ 400 # 100 /\ 501 \in Nat /\ 501 # 100 /\ 413 \in Nat /\ 413 # 100
    OBVIOUS
  <2> QED BY <1>4, <1>5, <1>6, <2>1, <2>3, <2>4
<1>7. CASE /\ ~Overlong /\ Consume /\ UNCHANGED <<line, fields, body, handled>>
           /\ Msg.fault \in {"none"} \cup BodyFaults
  <2>1. /\ Framed(fields) = Msg.framing /\ Msg.framing \in {"none", "length", "chunked"}
        /\ Msg.framing = "length" => Cardinality(Lengths(fields)) = 1 /\ Max(Lengths(fields)) = Len(Body(Msg))
    <3>1. fields = Msg.fields \o Framing(Msg)
      BY <1>2, <1>7, WellHeaded
    <3> QED BY <1>2, <3>1, FramedWell DEF Orderly
  <2>2. Len(Body(Msg)) \in Nat /\ (Moderate(Msg) => Len(Body(Msg)) <= MaxBody) /\ MaxBody \in Nat
    BY <1>2, PiecesOf, Positive DEF Moderate
  <2>3. Len(Body(Msg)) # NotANumber
    BY <2>2 DEF NotANumber
  <2>4. ASSUME NEW next, NEW n, Turned(next, n), next # "closed", next # "first", next # "head",
               \/ next = "handle" /\ Msg.framing = "none"
               \/ next = "data" /\ Msg.framing = "length" /\ n = Len(Body(Msg))
               \/ next = "size" /\ Msg.framing = "chunked"
        PROVE  Told' /\ Place' /\ Replied'
    <3>1. Place'
      BY <1>1, <1>7, <2>1, <2>4, BodyAwaits DEF Turned
    <3>2. answers' \in Seq(Said) /\ Finals' = Finals
      BY <2>4, InterimIs DEF Turned, Finals, InStep, Replied
    <3> QED BY <1>1, <1>7, <3>1, <3>2, Onward
  <2>5. CASE Msg.framing = "chunked"
    <3>1. Turned("size", 0)
      BY <1>7, <2>1, <2>5, HeadChoices
    <3> QED BY <2>4, <2>5, <3>1
  <2>6. CASE Msg.framing = "none"
    <3>1. Turned("handle", 0)
      BY <1>7, <2>1, <2>6, HeadChoices
    <3> QED BY <2>4, <2>6, <3>1
  <2>7. CASE Msg.framing = "length"
    <3>1. \/ Len(Body(Msg)) > MaxBody /\ RefuseThen(413)
          \/ Turned("data", Len(Body(Msg)))
      BY <1>7, <2>1, <2>2, <2>3, <2>7, HeadChoices
    <3>2. CASE Len(Body(Msg)) > MaxBody /\ RefuseThen(413)
      <4>1. ~Moderate(Msg)
        BY <2>2, <3>2
      <4> QED BY <1>5, <1>7, <3>2, <4>1
    <3>3. CASE Turned("data", Len(Body(Msg)))
      BY <2>4, <2>7, <3>3
    <3> QED BY <3>1, <3>2, <3>3
  <2> QED BY <2>1, <2>5, <2>6, <2>7
<1> QED BY <1>3, <1>4, <1>6, <1>7, HeadChoices

-----------------------------------------------------------------------------
(* Reading its body                                                        *)

\* The c-th piece of a chunked body: p long, it begins after q of the body and, with its
\* chunk, after e of what is sent.
PieceAt(m, c, q, e, p) ==
    /\ q = EndOf(m.pieces, c - 1) /\ e = EndOf(Chunks(m), c - 1)
    /\ q \in Nat /\ e \in Nat /\ p \in Nat /\ p > 0
    /\ EndOf(m.pieces, c) = q + p /\ EndOf(Chunks(m), c) = e + p + 2
    /\ e + p + 2 < Len(Delimited(m)) /\ q + p <= Len(Body(m))
    /\ Delimited(m)[e + 1] = ChunkSize(p)
    /\ \A j \in 1..p : Delimited(m)[e + 1 + j] = Body(m)[q + j]
    /\ Delimited(m)[e + p + 2] = EndOfLine

\* There is one for each piece.
LEMMA ChunkAt ==
  ASSUME NEW m, Orderly(m), m.framing = "chunked", NEW c \in 1..Len(m.pieces)
  PROVE  \E q, e, p : PieceAt(m, c, q, e, p)
<1> DEFINE P == m.pieces
           C == Chunks(m)
           n == Len(P)
           D == Delimited(m)
           x == P[c]
           q == EndOf(P, c - 1)
           e == EndOf(C, c - 1)
           p == Len(x)
<1>1. /\ Sequence(P) /\ (\A i \in 1..n : Sequence(P[i])) /\ Sequence(x)
      /\ Sequence(C) /\ Len(C) = n /\ n \in Nat /\ \A i \in 1..n : C[i] = Chunk(P[i]) /\ Sequence(C[i])
  BY PiecesOf, ChunksOf
<1>2. /\ EndOf(P, c) = q + p /\ Within(x, Body(m), q) /\ q \in Nat
      /\ EndOf(P, c) \in Nat /\ EndOf(P, c) <= Len(Body(m))
  <2>1. c - 1 \in 0..n /\ c \in 0..n
    BY <1>1
  <2> HIDE DEF P, n
  <2> QED BY <1>1, <2>1, Parted DEF Body, P, n
<1>3. /\ EndOf(C, c) = e + Len(Chunk(x)) /\ e \in Nat /\ EndOf(C, c) \in Nat /\ EndOf(C, c) <= EndOf(C, n)
  <2>1. c - 1 \in 0..n /\ c \in 0..n /\ C[c] = Chunk(x)
    BY <1>1
  <2>2. /\ EndOf(C, Len(C)) = Len(FlattenSeq(C))
        /\ \A i \in 0..Len(C) : EndOf(C, i) \in Nat /\ EndOf(C, i) <= Len(FlattenSeq(C))
        /\ \A i \in 1..Len(C) : EndOf(C, i) = EndOf(C, i - 1) + Len(C[i])
    <3> HIDE DEF C
    <3> QED BY <1>1, Parted
  <2> QED BY <1>1, <2>1, <2>2
<1>4. /\ p \in Nat /\ Len(Chunk(x)) = p + 2
      /\ Within(<<ChunkSize(p)>>, Chunk(x), 0) /\ Within(x, Chunk(x), 1) /\ Within(<<EndOfLine>>, Chunk(x), p + 1)
  BY <1>1, ChunkIs
<1>5. /\ Within(Chunk(x), D, e) /\ Len(D) = EndOf(C, n) + Len(m.trailers) + 2 /\ Len(m.trailers) \in Nat
      /\ EndOf(C, n) \in Nat
  BY ChunkedIs
<1>6. p > 0
  <2>1. x # <<>>
    <3>1. x \in ToSet(P)
      BY <1>1, InSeq DEF ToSet
    <3> QED BY <3>1 DEF Orderly
  <2> QED BY <1>1, <2>1, EmptySeq DEF Sequence
<1> HIDE DEF x, q, e, p, D, C, n, P
<1>7. /\ Within(<<ChunkSize(p)>>, D, e + 0) /\ Within(x, D, e + 1) /\ Within(<<EndOfLine>>, D, e + (p + 1))
  BY <1>4, <1>5, Inside
<1>8. D[e + 1] = ChunkSize(p)
  <2>1. \A y : Within(<<y>>, D, e + 0) => D[e + 0 + 1] = y
    BY OneLong DEF Within
  <2> QED BY <1>3, <1>7, <2>1
<1>9. D[e + p + 2] = EndOfLine
  <2>1. \A y : Within(<<y>>, D, e + (p + 1)) => D[e + (p + 1) + 1] = y
    BY OneLong DEF Within
  <2>2. e + (p + 1) + 1 = e + p + 2
    BY <1>3, <1>4
  <2> QED BY <1>7, <2>1, <2>2
<1>10. \A j \in 1..p : D[e + 1 + j] = Body(m)[q + j]
  <2>1. Len(x) = p
    BY DEF p
  <2> QED BY <1>2, <1>7, <2>1 DEF Within
<1>11. e + p + 2 < Len(D) /\ q + p <= Len(Body(m)) /\ EndOf(C, c) = e + p + 2
  BY <1>2, <1>3, <1>4, <1>5
<1>12. PieceAt(m, c, q, e, p)
  <2> USE DEF q, e, D, C, P
  <2> HIDE DEF p, x
  <2> QED BY <1>2, <1>3, <1>4, <1>6, <1>8, <1>9, <1>10, <1>11, Zenon DEF PieceAt
<1> QED BY <1>12

\* What follows the chunks.
LEMMA LastAt ==
  ASSUME NEW m, Orderly(m), m.framing = "chunked", NEW n, n = Len(m.pieces), NEW e, e = EndOf(Chunks(m), n)
  PROVE  /\ n \in Nat /\ e \in Nat /\ EndOf(m.pieces, n) = Len(Body(m))
         /\ Len(m.trailers) \in Nat /\ Len(Delimited(m)) = e + Len(m.trailers) + 2
         /\ Delimited(m)[e + 1] = ChunkSize(0)
         /\ \A t \in 1..Len(m.trailers) : /\ Delimited(m)[e + 1 + t] = m.trailers[t]
                                          /\ m.trailers[t].k = "field"
         /\ Delimited(m)[e + 1 + Len(m.trailers) + 1] = EndOfLine
<1> DEFINE D == Delimited(m)
           T == m.trailers
<1>1. /\ n \in Nat /\ e \in Nat /\ Len(T) \in Nat
      /\ Len(D) = e + Len(T) + 2 /\ Within(<<ChunkSize(0)>>, D, e)
      /\ Within(T, D, e + 1) /\ Within(<<EndOfLine>>, D, e + 1 + Len(T))
  BY ChunkedIs
<1>2. EndOf(m.pieces, n) = Len(Body(m))
  BY PiecesOf, Parted DEF Body
<1>3. ASSUME NEW t \in 1..Len(T) PROVE T[t].k = "field"
  <2>1. T[t] \in ToSet(T)
    BY PiecesOf, InSeq DEF ToSet
  <2> QED BY <2>1 DEF Orderly
<1> HIDE DEF D, T
<1>4. \A y, k : Within(<<y>>, D, k) => D[k + 1] = y
  BY OneLong DEF Within
<1>5. D[e + 1] = ChunkSize(0) /\ D[e + 1 + Len(T) + 1] = EndOfLine
  BY <1>1, <1>4, Zenon
<1>6. \A t \in 1..Len(T) : D[e + 1 + t] = T[t]
  BY <1>1 DEF Within
<1> QED BY <1>1, <1>2, <1>3, <1>5, <1>6 DEF D, T

\* The server is in the body of the message under way.
LEMMA InBody ==
  ASSUME AllOrderly, InStep, stage \in {"size", "data", "crlf", "trailer", "handle"}
  PROVE  /\ AtBody /\ Carried /\ Told /\ stage # "closed" /\ Turn <= Len(script) /\ Orderly(Msg)
         /\ line = Msg.line /\ fields = Msg.fields \o Framing(Msg) /\ Framed(fields) = Msg.framing
         /\ Msg.fault \in {"none"} \cup BodyFaults /\ Sequence(body) /\ Len(body) \in Nat
         /\ Sequence(Body(Msg)) /\ Len(Body(Msg)) \in Nat
         /\ Headed(Msg) \in Nat /\ At \in Int /\ Past = At - Headed(Msg) /\ Past \in Int
         /\ Msg.fault # "none" => Msg.framing = "chunked" /\ AstrayAt
         /\ Msg.fault = "none" /\ Msg.framing = "chunked" =>
               /\ Begins(body, Body(Msg))
               /\ ChunksAt(Msg.pieces, Chunks(Msg), Len(Msg.pieces))
         /\ Msg.fault = "none" /\ Msg.framing # "chunked" => Begins(body, Body(Msg)) /\ PlainAt
         /\ Msg.fault = "none" => BodyFault(Msg) = Delimited(Msg)
<1>1. /\ AtBody /\ Carried /\ Told /\ stage # "closed" /\ Turn <= Len(script) /\ Sequence(body)
      /\ line = Msg.line /\ fields = Msg.fields \o Framing(Msg) /\ Msg.fault \in {"none"} \cup BodyFaults
  BY DEF InStep, Place, AtBody
<1>2. Orderly(Msg) /\ From \in Nat /\ pos \in Nat
  BY <1>1, Where DEF Carried
<1>3. Framed(fields) = Msg.framing /\ Len(body) \in Nat /\ Headed(Msg) \in Nat
      /\ Sequence(Body(Msg)) /\ Len(Body(Msg)) \in Nat
  BY <1>1, <1>2, FramedWell, InSeq, EncodedIs, PiecesOf
<1>4. At \in Int /\ Past = At - Headed(Msg) /\ Past \in Int
  BY <1>2, <1>3 DEF At, Past
<1>5. Msg.fault # "none" => Msg.framing = "chunked" /\ AstrayAt
  BY <1>1, <1>2 DEF AtBody, Orderly
<1>6. /\ Msg.fault = "none" /\ Msg.framing = "chunked" =>
               /\ Begins(body, Body(Msg))
               /\ ChunksAt(Msg.pieces, Chunks(Msg), Len(Msg.pieces))
      /\ Msg.fault = "none" /\ Msg.framing # "chunked" => Begins(body, Body(Msg)) /\ PlainAt
  BY <1>1 DEF AtBody
<1>7. Msg.fault = "none" => BodyFault(Msg) = Delimited(Msg)
  <2>1. "none" \notin BodyFaults
    BY DEF BodyFaults
  <2> QED BY <1>2, <2>1, BodyIs
<1> QED BY <1>1, <1>2, <1>3, <1>4, <1>5, <1>6, <1>7

\* The server reads on in the body.
LEMMA StaysInBody ==
  ASSUME AllOrderly, InStep, stage \in {"size", "data", "crlf", "trailer", "handle"},
         stage' \in {"size", "data", "crlf", "trailer", "handle"},
         UNCHANGED <<script, handled, answers, line, fields>>,
         stage' \in {"size", "data", "crlf"} => used' = Headed(Msg),
         stage' = "data" => need' \in Nat,
         Msg.fault # "none" => AstrayAt',
         Msg.fault = "none" => Begins(body', Body(Msg)),
         Msg.fault = "none" /\ Msg.framing = "chunked" =>
             ChunksAt(Msg.pieces, Chunks(Msg), Len(Msg.pieces))',
         Msg.fault = "none" /\ Msg.framing # "chunked" => PlainAt'
  PROVE  Told' /\ Place' /\ Replied'
<1>1. /\ Carried /\ Told /\ stage # "closed" /\ Turn <= Len(script)
      /\ line = Msg.line /\ fields = Msg.fields \o Framing(Msg) /\ Msg.fault \in {"none"} \cup BodyFaults
  BY InBody
<1>2. Turn' = Turn /\ Msg' = Msg
  BY <1>1, SameMessage
<1>3. AtBody'
  BY <1>1, <1>2 DEF AtBody
<1>4. Place'
  BY <1>3 DEF Place
<1>5. answers' \in Seq(Said) /\ Finals' = Finals
  BY DEF InStep, Replied, Finals
<1> QED BY <1>1, <1>4, <1>5, Onward

\* A byte of the body, which is the next one of the message's.
LEMMA DataInStep ==
  ASSUME AllOrderly, InStep, ReadData
  PROVE  Told' /\ Place' /\ Replied'
<1> DEFINE m == Msg
           B == Body(Msg)
           l == Len(body)
<1>1. /\ stage = "data" /\ stage \in {"size", "data", "crlf", "trailer", "handle"} /\ stage' = stage
      /\ need > 0 /\ need' = need - 1 /\ pos' = pos + 1 /\ body' = Append(body, Lexeme)
      /\ UNCHANGED <<script, handled, answers, line, fields, used>>
  BY DEF ReadData, Reads, wireVars, outcome
<1>2. /\ AtBody /\ Carried /\ Told /\ Turn <= Len(script) /\ Orderly(m)
      /\ Sequence(body) /\ l \in Nat /\ Sequence(B) /\ Len(B) \in Nat /\ Past \in Int
  BY <1>1, InBody
<1>3. Turn' = Turn /\ Msg' = m /\ Past' = Past + 1
  BY <1>1, <1>2, SameMessage, Further
<1>4. Len(body') = l + 1 /\ used' = Headed(m) /\ need' \in Nat /\ need \in Nat
  <2>1. Len(body') = l + 1
    BY <1>1, <1>2, Grown
  <2>2. used = Headed(m) /\ need \in Nat
    BY <1>1, <1>2 DEF AtBody
  <2> QED BY <1>1, <2>1, <2>2
<1>5. ASSUME m.fault # "none" PROVE AstrayAt'
  <2>1. m.fault \in {"many chunks", "overrun"} /\ Past = 1 + l /\ l + need = FirstChunk
    BY <1>1, <1>5, InBody DEF AstrayAt
  <2>2. Past' = 1 + Len(body') /\ Len(body') + need' = FirstChunk
    <3>1. \A a, b \in Nat : 1 + a + 1 = 1 + (a + 1) /\ a + 1 + (b - 1) = a + b
      OBVIOUS
    <3> QED BY <1>1, <1>2, <1>3, <1>4, <2>1, <3>1, Zenon
  <2>3. FirstChunk' = FirstChunk
    BY <1>3 DEF FirstChunk
  <2> QED BY <1>1, <1>3, <2>1, <2>2, <2>3 DEF AstrayAt
<1>6. ASSUME m.fault = "none", m.framing = "chunked"
      PROVE  /\ Lexeme = B[l + 1] /\ l < Len(B)
             /\ ChunksAt(m.pieces, Chunks(m), Len(m.pieces))'
  <2>1. PICK c \in 1..Len(m.pieces) :
            /\ l + need = EndOf(m.pieces, c) /\ EndOf(m.pieces, c - 1) <= l
            /\ Past = EndOf(Chunks(m), c - 1) + 1 + l - EndOf(m.pieces, c - 1)
    BY <1>1, <1>6, InBody DEF ChunksAt
  <2>2. PICK q, e, p : PieceAt(m, c, q, e, p)
    BY <1>2, <1>6, ChunkAt
  <2>3. /\ q \in Nat /\ e \in Nat /\ p \in Nat /\ l + need = q + p /\ q <= l /\ Past = e + 1 + l - q
        /\ e + p + 2 < Len(Delimited(m)) /\ q + p <= Len(B) /\ EndOf(m.pieces, c) = q + p
        /\ q = EndOf(m.pieces, c - 1) /\ e = EndOf(Chunks(m), c - 1)
    BY <2>1, <2>2 DEF PieceAt
  <2>4. \A j \in 1..p : Delimited(m)[e + 1 + j] = B[q + j]
    BY <2>2 DEF PieceAt
  <2> DEFINE j == l + 1 - q
  <2>5. /\ j \in 1..p /\ e + 1 + j = Past + 1 /\ q + j = l + 1 /\ l < Len(B)
        /\ Past \in 0..(Len(Delimited(m)) - 1)
    <3>1. Len(Delimited(m)) \in Nat
      BY <1>2, DelimitedIs
    <3>2. \A a, b, x, y, z, d, n \in Nat :
             a + n = x + z /\ x <= a /\ n > 0 /\ y + z + 2 < d /\ x + z <= b =>
                /\ a + 1 - x \in 1..z /\ y + 1 + (a + 1 - x) = y + 1 + a - x + 1 /\ x + (a + 1 - x) = a + 1
                /\ a < b /\ y + 1 + a - x \in 0..(d - 1)
      OBVIOUS
    <3> HIDE DEF m, B, l
    <3>3. /\ l + 1 - q \in 1..p /\ e + 1 + (l + 1 - q) = e + 1 + l - q + 1 /\ q + (l + 1 - q) = l + 1
          /\ l < Len(B) /\ e + 1 + l - q \in 0..(Len(Delimited(m)) - 1)
      <4>1. l \in Nat /\ need \in Nat /\ need > 0 /\ Len(B) \in Nat
        BY <1>1, <1>2, <1>4
      <4>2. q \in Nat /\ e \in Nat /\ p \in Nat /\ l + need = q + p /\ q <= l /\ e + p + 2 < Len(Delimited(m)) /\ q + p <= Len(B)
        BY <2>3
      <4> QED BY <3>1, <3>2, <4>1, <4>2
    <3> QED BY <2>3, <3>3
  <2>6. Lexeme = B[l + 1]
    <3>1. Lexeme = Delimited(m)[Past + 1]
      BY <1>2, <1>6, <1>1, <2>5, ComesBody, InBody
    <3> HIDE DEF j
    <3> QED BY <2>4, <2>5, <3>1
  <2>7. /\ Len(body') + need' = EndOf(m.pieces, c) /\ EndOf(m.pieces, c - 1) <= Len(body')
        /\ Past' = EndOf(Chunks(m), c - 1) + 1 + Len(body') - EndOf(m.pieces, c - 1)
    <3>1. \A a, x, y, z, n \in Nat :
             a + n = x + z /\ x <= a =>
                a + 1 + (n - 1) = x + z /\ x <= a + 1 /\ y + 1 + a - x + 1 = y + 1 + (a + 1) - x
      OBVIOUS
    <3> HIDE DEF m, B, l
    <3>2. l \in Nat /\ need \in Nat
      BY <1>2, <1>4
    <3>3. q \in Nat /\ e \in Nat /\ p \in Nat /\ l + need = q + p /\ q <= l
      BY <2>3
    <3>4. l + 1 + (need - 1) = q + p /\ q <= l + 1 /\ e + 1 + l - q + 1 = e + 1 + (l + 1) - q
      BY <3>1, <3>2, <3>3
    <3>5. Past' = e + 1 + l - q + 1 /\ Len(body') = l + 1 /\ need' = need - 1
      BY <1>1, <1>3, <1>4, <2>3, Zenon
    <3> QED BY <2>3, <3>4, <3>5
  <2>8. ChunksAt(m.pieces, Chunks(m), Len(m.pieces))'
    BY <1>1, <1>3, <2>7 DEF ChunksAt
  <2> QED BY <2>5, <2>6, <2>8
<1>7. ASSUME m.fault = "none", m.framing # "chunked"
      PROVE  Lexeme = B[l + 1] /\ l < Len(B) /\ PlainAt'
  <2>1. Past = l /\ need = Len(B) - l /\ m.framing = "length" /\ Delimited(m) = B
    BY <1>1, <1>2, <1>7, InBody, DelimitedIs DEF PlainAt
  <2>2. l < Len(B) /\ Past \in 0..(Len(Delimited(m)) - 1)
    <3> HIDE DEF m, B, l
    <3> QED BY <1>1, <1>2, <1>4, <2>1
  <2>3. Lexeme = Delimited(m)[Past + 1]
    BY <1>1, <1>2, <1>7, <2>2, ComesBody, InBody
  <2>4. Past' = Len(body') /\ need' = Len(B) - Len(body')
    <3> HIDE DEF m, B, l
    <3> QED BY <1>1, <1>2, <1>3, <1>4, <2>1
  <2>5. PlainAt'
    BY <1>1, <1>3, <2>1, <2>4 DEF PlainAt
  <2> QED BY <2>1, <2>2, <2>3, <2>5
<1>8. ASSUME m.fault = "none" PROVE Begins(body', B)
  <2>1. Begins(body, B)
    BY <1>1, <1>8, InBody
  <2>2. Lexeme = B[l + 1] /\ l < Len(B)
    BY <1>6, <1>7, <1>8
  <2> QED BY <1>1, <1>2, <2>1, <2>2, BeginsGrows
<1> QED BY <1>1, <1>3, <1>4, <1>5, <1>6, <1>7, <1>8, StaysInBody

\* The end of what was announced, which is the end of the body or of a piece.
LEMMA DoneInStep ==
  ASSUME AllOrderly, InStep, DataDone
  PROVE  Told' /\ Place' /\ Replied'
<1> DEFINE m == Msg
<1>1. /\ stage = "data" /\ stage \in {"size", "data", "crlf", "trailer", "handle"} /\ need = 0
      /\ stage' = IF Chunked THEN "crlf" ELSE "handle"
      /\ UNCHANGED <<script, handled, answers, line, fields, used, pos, body>>
  BY DEF DataDone, ReadExact, wireVars, outcome
<1>2. /\ AtBody /\ Carried /\ Told /\ Turn <= Len(script) /\ Orderly(m) /\ Len(body) \in Nat /\ Past \in Int
      /\ Framed(fields) = m.framing
  BY <1>1, InBody
<1>3. Turn' = Turn /\ Msg' = m /\ From' = From
  BY <1>1, <1>2, SameMessage
<1>4. Past' = Past
  BY <1>1, <1>3 DEF Past, At
<1>5. stage' = IF m.framing = "chunked" THEN "crlf" ELSE "handle"
  BY <1>1, <1>2 DEF Chunked
<1>6. ASSUME m.fault # "none" PROVE AstrayAt'
  <2>1. /\ m.fault \in {"many chunks", "overrun"} /\ Past = 1 + Len(body) /\ Len(body) + need = FirstChunk
        /\ m.framing = "chunked"
    BY <1>1, <1>6, InBody DEF AstrayAt
  <2>2. Past' = 1 + Len(body') /\ Len(body') = FirstChunk
    <3>1. \A a \in Nat : a + 0 = a
      OBVIOUS
    <3> QED BY <1>1, <1>2, <1>4, <2>1, <3>1, Zenon
  <2>3. FirstChunk' = FirstChunk
    BY <1>3 DEF FirstChunk
  <2> QED BY <1>3, <1>5, <2>1, <2>2, <2>3 DEF AstrayAt
<1>7. ASSUME m.fault = "none", m.framing = "chunked" PROVE ChunksAt(m.pieces, Chunks(m), Len(m.pieces))'
  <2>1. PICK c \in 1..Len(m.pieces) :
            /\ Len(body) + need = EndOf(m.pieces, c) /\ EndOf(m.pieces, c - 1) <= Len(body)
            /\ Past = EndOf(Chunks(m), c - 1) + 1 + Len(body) - EndOf(m.pieces, c - 1)
    BY <1>1, <1>7, InBody DEF ChunksAt
  <2>2. PICK q, e, p : PieceAt(m, c, q, e, p)
    BY <1>2, <1>7, ChunkAt
  <2>3. /\ q \in Nat /\ e \in Nat /\ p \in Nat /\ Len(body) + 0 = q + p /\ Past = e + 1 + Len(body) - q
        /\ EndOf(m.pieces, c) = q + p /\ EndOf(Chunks(m), c) = e + p + 2
    BY <1>1, <2>1, <2>2 DEF PieceAt
  <2>4. Len(body') = EndOf(m.pieces, c) /\ Past' = EndOf(Chunks(m), c) - 1
    <3> HIDE DEF m
    <3> QED BY <1>1, <1>2, <1>4, <2>3
  <2> QED BY <1>3, <1>5, <1>7, <2>4 DEF ChunksAt
<1>8. ASSUME m.fault = "none", m.framing # "chunked" PROVE PlainAt'
  <2>1. Past = Len(body) /\ need = Len(Body(m)) - Len(body) /\ Len(Body(m)) \in Nat
    BY <1>1, <1>8, InBody DEF PlainAt
  <2>2. Len(body) = Len(Body(m))
    BY <1>1, <1>2, <2>1
  <2> QED BY <1>1, <1>3, <1>4, <1>5, <1>8, <2>1, <2>2 DEF PlainAt
<1>9. used = Headed(m)
  BY <1>1, <1>2 DEF AtBody
<1>10. m.fault = "none" => Begins(body', Body(m))
  BY <1>1, InBody
<1>11. stage' \in {"crlf", "handle"}
  BY <1>5
<1> QED BY <1>1, <1>3, <1>6, <1>7, <1>8, <1>9, <1>10, <1>11, StaysInBody

\* The end of the line after a chunk, which is there unless the body has gone wrong.
LEMMA CrlfInStep ==
  ASSUME AllOrderly, InStep, ReadCrlf
  PROVE  Told' /\ Place' /\ Replied'
<1> DEFINE m == Msg
           l == Len(body)
<1>1. stage = "crlf" /\ stage \in {"size", "data", "crlf", "trailer", "handle"} /\ UNCHANGED script
  BY DEF ReadCrlf, Reads, wireVars
<1>2. /\ AtBody /\ Carried /\ Told /\ Turn <= Len(script) /\ Orderly(m) /\ stage # "closed" /\ l \in Nat
      /\ m.fault \in {"none"} \cup BodyFaults
  BY <1>1, InBody
<1>3. m.fault = "none" => m.framing = "chunked"
  BY <1>1, InBody DEF PlainAt
<1>4. CASE Lexeme # EndOfLine /\ Refuse(400)
  <2>1. CASE m.fault = "none"
    <3>1. PICK c \in 1..Len(m.pieces) : l = EndOf(m.pieces, c) /\ Past = EndOf(Chunks(m), c) - 1
      BY <1>1, <1>3, <2>1, InBody DEF ChunksAt
    <3>2. PICK q, e, p : PieceAt(m, c, q, e, p)
      BY <1>2, <1>3, <2>1, ChunkAt
    <3>3. /\ e \in Nat /\ p \in Nat /\ Past = e + p + 2 - 1 /\ e + p + 2 < Len(Delimited(m))
          /\ Delimited(m)[e + p + 2] = EndOfLine
      BY <3>1, <3>2 DEF PieceAt
    <3>4. Past \in 0..(Len(Delimited(m)) - 1) /\ Past + 1 = e + p + 2
      <4>1. Len(Delimited(m)) \in Nat
        BY <1>2, DelimitedIs
      <4> HIDE DEF m
      <4> QED BY <3>3, <4>1
    <3>5. Lexeme = Delimited(m)[Past + 1]
      BY <1>1, <1>2, <2>1, <3>4, ComesBody, InBody
    <3> QED BY <1>4, <3>3, <3>4, <3>5
  <2>2. CASE m.fault # "none"
    <3>1. /\ m.fault \in {"many chunks", "overrun"} /\ Past = 1 + l
          /\ l = IF m.fault = "many chunks" THEN MaxBody ELSE 1
      BY <1>1, <2>2, InBody DEF AstrayAt, FirstChunk
    <3>2. CASE m.fault = "many chunks"
      <4>1. Past = 1 + MaxBody /\ MaxBody \in Nat
        BY <3>1, <3>2, Positive
      <4>2. Len(BodyFault(m)) > MaxBody + 2 /\ Len(BodyFault(m)) \in Nat
            /\ BodyFault(m)[MaxBody + 2] = EndOfLine
        BY <1>2, <3>2, WrongBody, BodyIs
      <4>3. Past \in 0..(Len(BodyFault(m)) - 1) /\ Past + 1 = MaxBody + 2
        <5> HIDE DEF m
        <5> QED BY <4>1, <4>2
      <4>4. Lexeme = BodyFault(m)[Past + 1]
        BY <1>2, <4>3, ComesBody
      <4> QED BY <1>4, <4>2, <4>3, <4>4
    <3>3. CASE m.fault = "overrun"
      <4>1. \A a \in Said : a.status = 400 => Explained(Turn, a)
        BY <1>2, <3>3 DEF Explained, Msg, Refusal
      <4> QED BY <1>1, <1>2, <1>4, <4>1, Refuses
    <3> QED BY <3>1, <3>2, <3>3
  <2> QED BY <2>1, <2>2
<1>5. CASE /\ Lexeme = EndOfLine /\ pos' = pos + 1 /\ ReadExact(0, "size")
           /\ UNCHANGED <<used, line, fields, body, spent, outcome>>
  <2>1. /\ stage' = "size" /\ pos' = pos + 1 /\ UNCHANGED <<script, handled, answers, line, fields, used, body>>
    BY <1>1, <1>5 DEF ReadExact, outcome
  <2>2. Turn' = Turn /\ Msg' = m /\ Past' = Past + 1 /\ Past \in Int
    BY <1>2, <2>1, SameMessage, Further
  <2>3. used' = Headed(m)
    BY <1>1, <1>2, <2>1 DEF AtBody
  <2>4. ASSUME m.fault = "none" PROVE ChunksAt(m.pieces, Chunks(m), Len(m.pieces))'
    <3>1. PICK c \in 1..Len(m.pieces) : l = EndOf(m.pieces, c) /\ Past = EndOf(Chunks(m), c) - 1
      BY <1>1, <1>3, <2>4, InBody DEF ChunksAt
    <3>2. PICK q, e, p : PieceAt(m, c, q, e, p)
      BY <1>2, <1>3, <2>4, ChunkAt
    <3>3. EndOf(Chunks(m), c) \in Nat /\ c \in 0..Len(m.pieces)
      <4>1. /\ e \in Nat /\ p \in Nat /\ EndOf(Chunks(m), c) = e + p + 2
        BY <3>2 DEF PieceAt
      <4>2. Len(m.pieces) \in Nat
        BY <1>2, PiecesOf, InSeq
      <4> HIDE DEF m
      <4> QED BY <4>1, <4>2
    <3>4. Past' = EndOf(Chunks(m), c)
      <4> HIDE DEF m
      <4> QED BY <2>2, <3>1, <3>3
    <3> QED BY <2>1, <2>2, <3>1, <3>3, <3>4 DEF ChunksAt
  <2>5. ASSUME m.fault # "none" PROVE AstrayAt'
    <3>1. /\ m.fault \in {"many chunks", "overrun"} /\ Past = 1 + l
          /\ l = IF m.fault = "many chunks" THEN MaxBody ELSE 1
      BY <1>1, <2>5, InBody DEF AstrayAt, FirstChunk
    <3>2. CASE m.fault = "many chunks"
      <4>1. l = MaxBody /\ MaxBody \in Nat
        BY <3>1, <3>2, Positive
      <4>2. Past' = MaxBody + 2
        <5>1. Past' = 1 + MaxBody + 1
          BY <2>2, <3>1, <4>1, Zenon
        <5>2. 1 + MaxBody + 1 = MaxBody + 2
          BY <4>1
        <5> QED BY <5>1, <5>2
      <4> QED BY <2>1, <2>2, <3>2, <4>1, <4>2 DEF AstrayAt
    <3>3. CASE m.fault = "overrun"
      <4>1. Len(BodyFault(m)) > 2 /\ Len(BodyFault(m)) \in Nat /\ BodyFault(m)[3] = ChunkSize(1)
        BY <1>2, <3>3, WrongBody, BodyIs
      <4>2. Past = 2
        BY <3>1, <3>3
      <4>3. Past \in 0..(Len(BodyFault(m)) - 1) /\ Past + 1 = 3
        <5> HIDE DEF m
        <5> QED BY <4>1, <4>2
      <4>4. Lexeme = BodyFault(m)[Past + 1]
        BY <1>2, <4>3, ComesBody
      <4>5. ChunkSize(1) # EndOfLine
        BY DEF ChunkSize, EndOfLine
      <4> QED BY <1>5, <4>1, <4>3, <4>4, <4>5
    <3> QED BY <3>1, <3>2, <3>3
  <2>6. m.fault = "none" => Begins(body', Body(m))
    BY <1>1, <2>1, InBody
  <2> QED BY <1>1, <1>3, <2>1, <2>3, <2>4, <2>5, <2>6, StaysInBody
<1> QED BY <1>4, <1>5 DEF ReadCrlf

\* The size of a chunk, which is that of the next piece, or zero after the last.
LEMMA SizeInStep ==
  ASSUME AllOrderly, InStep, ReadSize
  PROVE  Told' /\ Place' /\ Replied'
<1> DEFINE m == Msg
           l == Len(body)
           Took(n) == Lexeme = ChunkSize(n) /\ Lexeme.k = "size" /\ Lexeme.n = n /\ Length(Lexeme) = 1
<1>1. stage = "size" /\ stage \in {"size", "data", "crlf", "trailer", "handle"} /\ UNCHANGED script
  BY DEF ReadSize, Reads, wireVars
<1>2. /\ AtBody /\ Carried /\ Told /\ Turn <= Len(script) /\ Orderly(m) /\ stage # "closed" /\ l \in Nat
      /\ m.fault \in {"none"} \cup BodyFaults
  BY <1>1, InBody
<1>3. used = Headed(m) /\ (m.fault = "none" => m.framing = "chunked")
  BY <1>1, <1>2, InBody DEF AtBody, PlainAt
<1>4. MaxBody \in Nat /\ MaxBody > 0 /\ MaxChunkLine \in Nat /\ MaxChunkLine > 0
  BY Positive
<1>5. \A n : Lexeme = ChunkSize(n) => Took(n)
  BY DEF ChunkSize, Length
<1>6. ASSUME NEW status \in {400, 413, 431}, Refuse(status),
             Moderate(m) => m.fault # "none" /\ Refusal(m) = status
      PROVE  Told' /\ Place' /\ Replied'
  <2>1. \A a \in Said : a.status = status => Explained(Turn, a)
    BY <1>2, <1>6 DEF Explained, Msg
  <2> QED BY <1>1, <1>2, <1>6, <2>1, Refuses
\* The size of a chunk that fits, and the last one.
<1>7. ASSUME NEW n \in Nat, Took(n)
      PROVE  \/ ~Fits(n) /\ Refuse(413)
             \/ /\ Fits(n) /\ stage' = (IF n = 0 THEN "trailer" ELSE "data") /\ need' = n /\ pos' = pos + 1
                /\ UNCHANGED <<script, handled, answers, line, fields, used, body>>
                /\ Turn' = Turn /\ Msg' = m /\ Past' = Past + 1 /\ Past \in Int
  <2>1. Length(Lexeme) = 1 /\ Lexeme.k = "size" /\ Lexeme.n = n /\ ~(Length(Lexeme) > MaxChunkLine)
    <3>1. Length(Lexeme) = 1 /\ Lexeme.k = "size" /\ Lexeme.n = n
      BY <1>7
    <3>2. ~(1 > MaxChunkLine)
      BY <1>4
    <3> QED BY <3>1, <3>2
  <2>2. \/ ~Fits(n) /\ Refuse(413)
        \/ /\ Fits(n) /\ pos' = pos + 1 /\ ReadExact(n, IF n = 0 THEN "trailer" ELSE "data")
           /\ UNCHANGED <<used, line, fields, body, spent, outcome>>
    <3>1. \/ ~Fits(Lexeme.n) /\ Refuse(413)
          \/ /\ Fits(Lexeme.n) /\ pos' = pos + 1
             /\ ReadExact(Lexeme.n, IF Lexeme.n = 0 THEN "trailer" ELSE "data")
             /\ UNCHANGED <<used, line, fields, body, spent, outcome>>
      BY <2>1, Zenon DEF ReadSize
    <3> QED BY <2>1, <3>1 DEF Fits, ReadExact
  <2>3. CASE /\ Fits(n) /\ pos' = pos + 1 /\ ReadExact(n, IF n = 0 THEN "trailer" ELSE "data")
             /\ UNCHANGED <<used, line, fields, body, spent, outcome>>
    <3>1. /\ stage' = (IF n = 0 THEN "trailer" ELSE "data") /\ need' = n /\ pos' = pos + 1
          /\ UNCHANGED <<script, handled, answers, line, fields, used, body>>
      BY <1>1, <2>3 DEF ReadExact, outcome
    <3>2. Turn' = Turn /\ Msg' = m /\ Past' = Past + 1 /\ Past \in Int
      BY <1>2, <3>1, SameMessage, Further
    <3> QED BY <2>3, <3>1, <3>2
  <2> QED BY <2>2, <2>3
<1>8. /\ \A n \in Nat : l = 0 => (Fits(n) <=> n <= MaxBody)
      /\ l = MaxBody => ~Fits(1)
  <2>1. \A n : l = 0 => (Fits(n) <=> 0 + n <= MaxBody)
    BY DEF Fits
  <2>2. l = MaxBody => (Fits(1) <=> MaxBody + 1 <= MaxBody)
    BY DEF Fits
  <2> HIDE DEF l
  <2> QED BY <1>4, <2>1, <2>2
<1> HIDE DEF Took
<1>9. CASE m.fault = "none"
  <2> DEFINE P == m.pieces
             C == Chunks(m)
             N == Len(m.pieces)
  <2>1. PICK i \in 0..N : Past = EndOf(C, i) /\ l = EndOf(P, i)
    BY <1>1, <1>3, <1>9, InBody DEF ChunksAt
  <2>2. N \in Nat /\ EndOf(P, N) = Len(Body(m)) /\ Len(Body(m)) \in Nat
    BY <1>2, <1>3, <1>9, LastAt, PiecesOf
  <2>3. Begins(body, Body(m)) /\ BodyFault(m) = Delimited(m) /\ Len(Delimited(m)) \in Nat
    BY <1>1, <1>2, <1>9, InBody, DelimitedIs
  <2>4. Moderate(m) => Len(Body(m)) <= MaxBody
    BY DEF Moderate
  <2>5. CASE i = N
    <3> DEFINE e == EndOf(C, N)
    <3>1. /\ e \in Nat /\ Len(m.trailers) \in Nat /\ Len(Delimited(m)) = e + Len(m.trailers) + 2
          /\ Delimited(m)[e + 1] = ChunkSize(0)
      BY <1>2, <1>3, <1>9, LastAt
    <3>2. Past = e /\ l = Len(Body(m))
      BY <2>1, <2>2, <2>5
    <3>3. Past \in 0..(Len(Delimited(m)) - 1)
      <4>1. \A a, b \in Nat : a \in 0..(a + b + 2 - 1)
        OBVIOUS
      <4>2. e \in 0..(e + Len(m.trailers) + 2 - 1)
        <5> HIDE DEF m, e
        <5> QED BY <3>1, <4>1
      <4> QED BY <3>1, <3>2, <4>2
    <3>4. Lexeme = BodyFault(m)[Past + 1]
      BY <1>2, <2>3, <3>3, ComesBody
    <3>5. Took(0)
      BY <1>5, <2>3, <3>1, <3>2, <3>4
    <3>6. CASE ~Fits(0) /\ Refuse(413)
      <4>1. ~Moderate(m)
        <5>1. l + 0 > MaxBody
          BY <1>2, <1>4, <3>6 DEF Fits
        <5> QED BY <1>2, <1>4, <2>2, <2>4, <3>2, <5>1
      <4> QED BY <1>6, <3>6, <4>1
    <3>7. CASE /\ stage' = "trailer" /\ need' = 0 /\ pos' = pos + 1
               /\ UNCHANGED <<script, handled, answers, line, fields, used, body>>
               /\ Turn' = Turn /\ Msg' = m /\ Past' = Past + 1
      <4>1. Past' = EndOf(C, N) + 1 + 0 /\ used' = Headed(m) + 0 /\ 0 \in 0..Len(m.trailers)
            /\ Len(body') = Len(Body(m))
        <5>1. Headed(m) \in Nat
          BY <1>2, EncodedIs
        <5>2. \A a \in Nat : a + 1 = a + 1 + 0 /\ a = a + 0 /\ 0 \in 0..a
          OBVIOUS
        <5>3. Past' = e + 1 /\ used' = Headed(m) /\ Len(body') = Len(Body(m))
          BY <1>3, <3>2, <3>7
        <5> QED BY <3>1, <5>1, <5>2, <5>3
      <4>2. ChunksAt(P, C, N)'
        BY <3>7, <4>1 DEF ChunksAt
      <4> QED BY <1>1, <1>3, <1>9, <2>3, <3>7, <4>2, StaysInBody
    <3> QED BY <1>7, <3>5, <3>6, <3>7
  <2>6. CASE i # N
    <3>1. i + 1 \in 1..N /\ i + 1 - 1 = i
      BY <2>1, <2>2, <2>6
    <3>2. PICK q, e, p : PieceAt(m, i + 1, q, e, p)
      BY <1>2, <1>3, <1>9, <3>1, ChunkAt
    <3>3. /\ q = l /\ e = Past /\ q \in Nat /\ e \in Nat /\ p \in Nat /\ p > 0
          /\ EndOf(P, i + 1) = q + p /\ e + p + 2 < Len(Delimited(m)) /\ q + p <= Len(Body(m))
          /\ Delimited(m)[e + 1] = ChunkSize(p)
      <4>1. q = EndOf(P, i + 1 - 1) /\ e = EndOf(C, i + 1 - 1)
        BY <3>2 DEF PieceAt
      <4> QED BY <2>1, <3>1, <3>2, <4>1 DEF PieceAt
    <3>4. Past \in 0..(Len(Delimited(m)) - 1)
      <4>1. e \in 0..(Len(Delimited(m)) - 1)
        <5> HIDE DEF m
        <5> QED BY <2>3, <3>3
      <4> QED BY <3>3, <4>1
    <3>5. Lexeme = BodyFault(m)[Past + 1]
      BY <1>2, <2>3, <3>4, ComesBody
    <3>6. Took(p)
      BY <1>5, <2>3, <3>3, <3>5
    <3>7. CASE ~Fits(p) /\ Refuse(413)
      <4>1. ~Moderate(m)
        <5>1. l + p > MaxBody
          BY <1>2, <1>4, <3>3, <3>7 DEF Fits
        <5>2. q + p > MaxBody /\ q + p <= Len(Body(m))
          BY <3>3, <5>1
        <5>3. Len(Body(m)) > MaxBody
          BY <1>4, <2>2, <3>3, <5>2
        <5> QED BY <1>4, <2>2, <2>4, <5>3
      <4> QED BY <1>6, <3>7, <4>1
    <3>8. CASE /\ stage' = "data" /\ need' = p /\ pos' = pos + 1
               /\ UNCHANGED <<script, handled, answers, line, fields, used, body>>
               /\ Turn' = Turn /\ Msg' = m /\ Past' = Past + 1
      <4>1. /\ Len(body') + need' = EndOf(P, i + 1) /\ EndOf(P, i + 1 - 1) <= Len(body')
            /\ Past' = EndOf(C, i + 1 - 1) + 1 + Len(body') - EndOf(P, i + 1 - 1)
        <5>1. \A a, b \in Nat : a <= a /\ b + 1 = b + 1 + a - a
          OBVIOUS
        <5>2. Len(body') = l /\ need' = p /\ Past' = Past + 1
          BY <3>8
        <5>3. EndOf(P, i + 1 - 1) = l /\ EndOf(C, i + 1 - 1) = Past /\ Past \in Nat
          BY <2>1, <3>1, <3>3
        <5>4. l + p = EndOf(P, i + 1)
          BY <3>3
        <5> HIDE DEF l, P, C
        <5> QED BY <1>2, <5>1, <5>2, <5>3, <5>4
      <4>2. ChunksAt(P, C, N)'
        BY <3>1, <3>8, <4>1 DEF ChunksAt
      <4>3. need' \in Nat
        BY <3>3, <3>8
      <4> QED BY <1>1, <1>3, <1>9, <2>3, <3>8, <4>2, <4>3, StaysInBody
    <3>9. p # 0
      BY <3>3
    <3> QED BY <1>7, <3>3, <3>6, <3>7, <3>8, <3>9
  <2> QED BY <2>5, <2>6
\* A size line gone wrong.
<1>10. CASE m.fault # "none"
  <2>1. \/ Past = 0 /\ l = 0
        \/ m.fault = "many chunks" /\ Past = MaxBody + 2 /\ l = MaxBody
    BY <1>1, <1>10, InBody DEF AstrayAt
  <2> DEFINE b == BodyFault(m)
  <2>2. Len(b) \in Nat /\ Len(b) > 0
    BY <1>2, <1>10, WrongBody
  <2>3. Past = 0 => Lexeme = b[1]
    <3>1. Past = 0 => Past \in 0..(Len(b) - 1) /\ Past + 1 = 1
      BY <2>2
    <3> QED BY <1>2, <3>1, ComesBody
  <2>4. ASSUME NEW n \in Nat, Took(n), ~Fits(n), m.fault \in {"huge chunk", "many chunks"}
        PROVE  Told' /\ Place' /\ Replied'
    <3>1. Refuse(413)
      BY <1>7, <2>4
    <3>2. Refusal(m) = 413
      BY <2>4 DEF Refusal
    <3> QED BY <1>6, <1>10, <3>1, <3>2
  <2>5. ASSUME NEW n \in Nat, Took(n), Fits(n), l = 0, Past = 0,
               \/ n # 0 /\ m.fault \in {"many chunks", "overrun"}
                  /\ n = IF m.fault = "many chunks" THEN MaxBody ELSE 1
               \/ n = 0 /\ m.fault = "long trailers"
        PROVE  Told' /\ Place' /\ Replied'
    <3>1. /\ stage' = (IF n = 0 THEN "trailer" ELSE "data") /\ need' = n
          /\ UNCHANGED <<script, handled, answers, line, fields, used, body>>
          /\ Turn' = Turn /\ Msg' = m /\ Past' = Past + 1
      BY <1>7, <2>5
    <3>2. Past' = 1 /\ Len(body') = 0
      <4>1. 0 + 1 = 1
        OBVIOUS
      <4>2. Past' = 0 + 1 /\ body' = body
        BY <2>5, <3>1, Zenon
      <4> QED BY <2>5, <4>1, <4>2
    <3>3. CASE n # 0
      <4>1. Past' = 1 + Len(body') /\ Len(body') + need' = n
        BY <3>1, <3>2
      <4>2. FirstChunk' = n
        <5>1. n = IF m.fault = "many chunks" THEN MaxBody ELSE 1
          BY <2>5, <3>3, Zenon
        <5>2. FirstChunk' = IF m.fault = "many chunks" THEN MaxBody ELSE 1
          BY <3>1 DEF FirstChunk
        <5> QED BY <5>1, <5>2
      <4>3. m.fault \in {"many chunks", "overrun"} /\ n # 0
        BY <2>5, <3>3, Zenon
      <4>4. stage' = "data"
        BY <3>1, <4>3
      <4>5. Msg'.fault \in {"many chunks", "overrun"}
        BY <3>1, <4>3
      <4>6. AstrayAt'
        BY <4>1, <4>2, <4>4, <4>5 DEF AstrayAt
      <4>7. used' = Headed(m) /\ need' \in Nat
        BY <1>3, <3>1
      <4> QED BY <1>1, <1>10, <3>1, <4>4, <4>6, <4>7, StaysInBody
    <3>4. CASE n = 0
      <4>1. MaxHeader \in Nat /\ MaxHeader > 0 /\ Headed(m) \in Nat
        BY <1>2, Positive, EncodedIs
      <4>2. Past' \in 1..MaxHeader /\ used' = Headed(m) + Past' - 1
        <5>1. \A a \in Nat : a = a + 1 - 1
          OBVIOUS
        <5>2. 1 \in 1..MaxHeader
          BY <4>1
        <5> QED BY <1>3, <3>1, <3>2, <4>1, <5>1, <5>2
      <4>3. stage' = "trailer" /\ Msg' = m /\ m.fault = "long trailers"
        BY <2>5, <3>1, <3>4, Zenon
      <4>4. AstrayAt'
        BY <4>2, <4>3 DEF AstrayAt
      <4> QED BY <1>1, <1>10, <3>1, <4>3, <4>4, StaysInBody
    <3> QED BY <2>5, <3>3, <3>4
  <2>6. CASE Past = 0 /\ l = 0 /\ m.fault = "no size"
    <3>1. Lexeme = Line("text", 1)
      BY <2>3, <2>6, WrongBody
    <3>2. Length(Lexeme) = 1 /\ Lexeme.k = "text"
      BY <3>1 DEF Length, Line
    <3>3. ~(1 > MaxChunkLine)
      BY <1>4
    <3>4. Refuse(400)
      BY <3>2, <3>3 DEF ReadSize
    <3>5. Refusal(m) = 400
      BY <2>6 DEF Refusal
    <3> QED BY <1>6, <1>10, <3>4, <3>5
  <2>7. CASE Past = 0 /\ l = 0 /\ m.fault = "long size"
    <3>1. Lexeme = Line("text", MaxChunkLine + 1)
      BY <2>3, <2>7, WrongBody
    <3>2. Length(Lexeme) = MaxChunkLine + 1 /\ Lexeme.k = "text"
      BY <3>1 DEF Length, Line
    <3>3. ~(MaxChunkLine + 1 <= MaxChunkLine)
      BY <1>4
    <3>4. Refuse(431)
      BY <3>2, <3>3 DEF ReadSize
    <3>5. Refusal(m) = 431
      BY <2>7 DEF Refusal
    <3> QED BY <1>6, <1>10, <3>4, <3>5
  <2>8. CASE Past = 0 /\ l = 0 /\ m.fault = "huge chunk"
    <3>1. Lexeme = ChunkSize(MaxBody + 1)
      BY <2>3, <2>8, WrongBody
    <3>2. MaxBody + 1 \in Nat /\ ~Fits(MaxBody + 1)
      <4>1. MaxBody + 1 \in Nat /\ ~(MaxBody + 1 <= MaxBody)
        BY <1>4
      <4> QED BY <1>8, <2>8, <4>1, Zenon
    <3> QED BY <1>5, <2>4, <2>8, <3>1, <3>2
  <2>9. CASE Past = 0 /\ l = 0 /\ m.fault = "many chunks"
    <3>1. Lexeme = ChunkSize(MaxBody) /\ Fits(MaxBody)
      <4>1. Fits(MaxBody)
        <5>1. MaxBody <= MaxBody
          BY <1>4
        <5> QED BY <1>4, <1>8, <2>9, <5>1, Zenon
      <4> QED BY <2>3, <2>9, <4>1, WrongBody
    <3>2. MaxBody \in Nat /\ MaxBody # 0
      BY <1>4
    <3>3. Took(MaxBody)
      BY <1>5, <3>1
    <3>4. m.fault \in {"many chunks", "overrun"} /\ MaxBody = IF m.fault = "many chunks" THEN MaxBody ELSE 1
      BY <2>9
    <3> QED BY <2>5, <2>9, <3>1, <3>2, <3>3, <3>4, Zenon
  <2>10. CASE m.fault = "many chunks" /\ Past = MaxBody + 2 /\ l = MaxBody
    <3>1. Len(b) > MaxBody + 2 /\ b[MaxBody + 3] = ChunkSize(1)
      BY <2>10, WrongBody
    <3>2. MaxBody + 2 \in 0..(Len(b) - 1) /\ MaxBody + 2 + 1 = MaxBody + 3
      <4> HIDE DEF b
      <4> QED BY <1>4, <2>2, <3>1
    <3>3. Lexeme = b[Past + 1]
      BY <1>2, <2>10, <3>2, ComesBody
    <3>4. Lexeme = ChunkSize(1)
      BY <2>10, <3>1, <3>2, <3>3
    <3>5. ~Fits(1)
      BY <1>4, <1>8, <2>10
    <3> QED BY <1>5, <2>4, <2>10, <3>4, <3>5
  <2>11. CASE Past = 0 /\ l = 0 /\ m.fault = "overrun"
    <3>1. Lexeme = ChunkSize(1) /\ Fits(1)
      <4>1. Fits(1)
        BY <1>4, <1>8, <2>11
      <4> QED BY <2>3, <2>11, <4>1, WrongBody
    <3> QED BY <1>5, <2>5, <2>11, <3>1
  <2>12. CASE Past = 0 /\ l = 0 /\ m.fault = "long trailers"
    <3>1. Lexeme = ChunkSize(0) /\ Fits(0)
      <4>1. Fits(0)
        <5>1. 0 \in Nat /\ 0 <= MaxBody
          BY <1>4
        <5> QED BY <1>8, <2>12, <5>1, Zenon
      <4> QED BY <2>3, <2>12, <4>1, WrongBody
    <3>2. Took(0) /\ 0 \in Nat
      BY <1>5, <3>1
    <3> QED BY <2>5, <2>12, <3>1, <3>2, Zenon
  <2>13. m.fault \in {"no size", "long size", "huge chunk", "many chunks", "overrun", "long trailers"}
    BY <1>2, <1>10 DEF BodyFaults
  <2> QED BY <2>1, <2>6, <2>7, <2>8, <2>9, <2>10, <2>11, <2>12, <2>13
<1> QED BY <1>9, <1>10

\* A trailer, or the end of the message.
LEMMA TrailerInStep ==
  ASSUME AllOrderly, InStep, ReadTrailer
  PROVE  Told' /\ Place' /\ Replied'
<1> DEFINE m == Msg
           l == Len(body)
           T == Len(m.trailers)
<1>1. stage = "trailer" /\ stage \in {"size", "data", "crlf", "trailer", "handle"} /\ UNCHANGED script
  BY DEF ReadTrailer, Reads, wireVars
<1>2. /\ AtBody /\ Carried /\ Told /\ Turn <= Len(script) /\ Orderly(m) /\ stage # "closed"
      /\ m.fault \in {"none"} \cup BodyFaults /\ (m.fault = "none" => m.framing = "chunked")
  BY <1>1, InBody DEF PlainAt
<1>3. MaxHeader \in Nat /\ Headed(m) \in Nat /\ Headed(m) > 1
  <2>1. MaxHeader \in Nat /\ Headed(m) \in Nat /\ m.strays \in Nat /\ Len(HeadLines(m)) \in Nat
    BY <1>2, Positive, EncodedIs
  <2> QED BY <2>1 DEF Headed
<1>4. ASSUME NEW status \in {431}, Refuse(status),
             Moderate(m) => m.fault # "none" /\ Refusal(m) = status
      PROVE  Told' /\ Place' /\ Replied'
  <2>1. \A a \in Said : a.status = status => Explained(Turn, a)
    BY <1>2, <1>4 DEF Explained, Msg
  <2> QED BY <1>1, <1>2, <1>4, <2>1, Refuses
<1>5. ASSUME ~Overlong, Length(Lexeme) = 1, ~(Overlong /\ Refuse(431))
      PROVE  /\ stage' = (IF Lexeme = EndOfLine THEN "handle" ELSE "trailer") /\ pos' = pos + 1 /\ used' = used + 1
             /\ UNCHANGED <<script, handled, answers, line, fields, body>>
             /\ Turn' = Turn /\ Msg' = m /\ Past' = Past + 1
  <2>1. /\ stage' = (IF Lexeme = EndOfLine THEN "handle" ELSE "trailer") /\ pos' = pos + 1 /\ used' = used + 1
        /\ UNCHANGED <<script, handled, answers, line, fields, body>>
    BY <1>1, <1>5 DEF ReadTrailer, Consume, outcome
  <2> QED BY <1>2, <2>1, SameMessage, Further
<1>6. (Overlong /\ Refuse(431)) \/ ~Overlong
  BY DEF ReadTrailer
<1>7. CASE m.fault = "none"
  <2> DEFINE P == m.pieces
             C == Chunks(m)
             N == Len(m.pieces)
             e == EndOf(C, N)
  <2>1. PICK t \in 0..T : Past = e + 1 + t /\ used = Headed(m) + t
    BY <1>1, <1>2, <1>7, InBody DEF ChunksAt
  <2>2. /\ e \in Nat /\ T \in Nat /\ Len(Delimited(m)) = e + T + 2
        /\ \A i \in 1..T : Delimited(m)[e + 1 + i] = m.trailers[i] /\ m.trailers[i].k = "field"
        /\ Delimited(m)[e + 1 + T + 1] = EndOfLine
    BY <1>2, <1>7, LastAt
  <2>3. BodyFault(m) = Delimited(m) /\ Begins(body, Body(m)) /\ l = Len(Body(m))
    BY <1>1, <1>2, <1>7, InBody DEF ChunksAt
  <2>4. Moderate(m) => Headed(m) + T + 1 <= MaxHeader
    BY <1>2, ModerateIs
  <2>5. Lexeme = Delimited(m)[Past + 1]
    <3>1. e + 1 + t \in 0..(Len(Delimited(m)) - 1)
      <4> HIDE DEF m, e, T
      <4> QED BY <2>1, <2>2
    <3>2. Past \in 0..(Len(BodyFault(m)) - 1)
      BY <2>1, <2>3, <3>1
    <3> QED BY <1>2, <2>3, <3>2, ComesBody
  <2>6. /\ t < T => Lexeme.k = "field"
        /\ t = T => Lexeme = EndOfLine
    <3>1. t < T => t + 1 \in 1..T /\ e + 1 + t + 1 = e + 1 + (t + 1)
      <4> HIDE DEF m, e, T
      <4> QED BY <2>1, <2>2
    <3>2. Past + 1 = e + 1 + t + 1
      BY <2>1
    <3>3. t < T => Delimited(m)[e + 1 + (t + 1)].k = "field"
      BY <2>2, <3>1
    <3>4. t < T => Delimited(m)[Past + 1].k = "field"
      BY <3>1, <3>2, <3>3
    <3>5. t = T => Delimited(m)[Past + 1] = EndOfLine
      BY <2>2, <3>2
    <3> QED BY <2>5, <3>4, <3>5
  <2>7. Length(Lexeme) = 1 /\ (t < T => Lexeme # EndOfLine) /\ (t < T \/ t = T)
    <3>1. t < T \/ t = T
      <4> HIDE DEF m, T
      <4> QED BY <2>1, <2>2
    <3> QED BY <2>6, <3>1 DEF Length, EndOfLine
  <2>8. CASE Overlong /\ Refuse(431)
    <3>1. ~Moderate(m)
      <4>1. ~(Headed(m) + t + 1 <= MaxHeader)
        <5>1. Headed(m) + t + 1 > MaxHeader
          BY <2>1, <2>7, <2>8 DEF Overlong
        <5> HIDE DEF m, T
        <5> QED BY <1>3, <2>1, <2>2, <5>1
      <4>2. Headed(m) + T + 1 <= MaxHeader => Headed(m) + t + 1 <= MaxHeader
        <5> HIDE DEF m, T
        <5> QED BY <1>3, <2>1, <2>2
      <4> QED BY <2>4, <4>1, <4>2
    <3> QED BY <1>4, <2>8, <3>1
  <2>9. CASE ~Overlong /\ t < T
    <3>1. /\ stage' = "trailer" /\ used' = used + 1 /\ UNCHANGED <<script, handled, answers, line, fields, body>>
          /\ Turn' = Turn /\ Msg' = m /\ Past' = Past + 1
      BY <1>5, <2>7, <2>9
    <3>2. Past' = e + 1 + (t + 1) /\ used' = Headed(m) + (t + 1) /\ t + 1 \in 0..T
      <4>1. e + 1 + t + 1 = e + 1 + (t + 1) /\ Headed(m) + t + 1 = Headed(m) + (t + 1) /\ t + 1 \in 0..T
        <5>1. \A x, h, y, z \in Nat : z < y => /\ x + 1 + z + 1 = x + 1 + (z + 1)
                                              /\ h + z + 1 = h + (z + 1) /\ z + 1 \in 0..y
          OBVIOUS
        <5>2. t \in Nat
          OBVIOUS
        <5> HIDE DEF m, T, e
        <5> QED BY <1>3, <2>2, <2>9, <5>1, <5>2
      <4> QED BY <2>1, <3>1, <4>1
    <3>3. ChunksAt(P, C, N)'
      BY <2>3, <3>1, <3>2 DEF ChunksAt
    <3> QED BY <1>1, <1>2, <1>7, <2>3, <3>1, <3>3, StaysInBody
  <2>10. CASE ~Overlong /\ t = T
    <3>1. /\ stage' = "handle" /\ UNCHANGED <<script, handled, answers, line, fields, body>>
          /\ Turn' = Turn /\ Msg' = m /\ Past' = Past + 1
      BY <1>5, <2>6, <2>7, <2>10
    <3>2. Past' = Len(Delimited(m))
      <4>1. e + 1 + T + 1 = e + T + 2
        <5> HIDE DEF m, T, e
        <5> QED BY <2>2
      <4> QED BY <2>1, <2>2, <2>10, <3>1, <4>1
    <3>3. ChunksAt(P, C, N)'
      BY <2>3, <3>1, <3>2 DEF ChunksAt
    <3> QED BY <1>1, <1>2, <1>7, <2>3, <3>1, <3>3, StaysInBody
  <2> QED BY <1>6, <2>7, <2>8, <2>9, <2>10
\* Trailers without end.
<1>8. CASE m.fault # "none"
  <2> DEFINE b == BodyFault(m)
  <2>1. m.fault = "long trailers" /\ Past \in 1..MaxHeader /\ used = Headed(m) + Past - 1
    BY <1>1, <1>8, InBody DEF AstrayAt
  <2>2. Len(b) = MaxHeader + 1 /\ \A i \in 1..MaxHeader : b[1 + i] = Field("x", "x")
    BY <2>1, WrongBody
  <2>3. Lexeme = Field("x", "x")
    <3>1. Past \in 0..(Len(b) - 1) /\ Past + 1 = 1 + Past
      <4>1. \A x \in Nat : \A y \in 1..x : y \in 0..(x + 1 - 1) /\ y + 1 = 1 + y
        OBVIOUS
      <4>2. \A z : z = MaxHeader + 1 => Past \in 0..(z - 1)
        <5>1. Past \in 0..(MaxHeader + 1 - 1)
          BY <1>3, <2>1, <4>1, Zenon
        <5> QED BY <1>3, <5>1
      <4>3. Len(b) = MaxHeader + 1
        BY <2>2
      <4>4. Past \in 0..(Len(b) - 1)
        BY <4>2, <4>3, Zenon
      <4>5. Past + 1 = 1 + Past
        BY <1>3, <2>1, <4>1, Zenon
      <4> QED BY <4>4, <4>5
    <3>2. Lexeme = b[Past + 1]
      BY <1>2, <3>1, ComesBody
    <3>3. b[1 + Past] = Field("x", "x")
      BY <2>1, <2>2
    <3> QED BY <3>1, <3>2, <3>3
  <2>4. Length(Lexeme) = 1 /\ Lexeme # EndOfLine
    BY <2>3 DEF Field, Length, EndOfLine
  <2>5. CASE Overlong /\ Refuse(431)
    <3>1. Refusal(m) = 431
      BY <2>1 DEF Refusal
    <3> QED BY <1>4, <1>8, <2>5, <3>1
  <2>6. CASE ~Overlong
    <3>1. /\ stage' = "trailer" /\ used' = used + 1 /\ UNCHANGED <<script, handled, answers, line, fields, body>>
          /\ Turn' = Turn /\ Msg' = m /\ Past' = Past + 1
      BY <1>5, <2>4, <2>6
    <3>2. ~(Headed(m) + Past - 1 + 1 > MaxHeader)
      BY <2>1, <2>4, <2>6 DEF Overlong
    <3>3. Past' \in 1..MaxHeader /\ used' = Headed(m) + Past' - 1
      <4>1. \A h, p, x \in Nat : h > 1 /\ p \in 1..x /\ ~(h + p - 1 + 1 > x) =>
                p + 1 \in 1..x /\ h + p - 1 + 1 = h + (p + 1) - 1
        OBVIOUS
      <4>2. Past \in Nat
        <5>1. \A x \in Nat : \A y \in 1..x : y \in Nat
          OBVIOUS
        <5> QED BY <1>3, <2>1, <5>1, Zenon
      <4>3. Past + 1 \in 1..MaxHeader /\ Headed(m) + Past - 1 + 1 = Headed(m) + (Past + 1) - 1
        BY <1>3, <2>1, <3>2, <4>1, <4>2
      <4> QED BY <2>1, <3>1, <4>3
    <3>4. AstrayAt'
      BY <2>1, <3>1, <3>3 DEF AstrayAt
    <3> QED BY <1>1, <1>8, <3>1, <3>4, StaysInBody
  <2> QED BY <1>6, <2>5, <2>6
<1> QED BY <1>7, <1>8

\* The end of the stream, or of the server's patience.
LEMMA EndInStep ==
  ASSUME AllOrderly, InStep, Eof \/ TimedOut
  PROVE  Told' /\ Place' /\ Replied'
<1>1. stage # "closed" /\ UNCHANGED script
  BY DEF Eof, TimedOut, wireVars
<1> DEFINE a == [status |-> 408, keep |-> FALSE]
<1>2. a \in Said /\ Explained(Turn, a) /\ ~a.keep
  BY DEF Said, Explained
<1> HIDE DEF a
<1>3. CASE Close
  <2>1. stage' = "closed" /\ UNCHANGED <<handled, answers>>
    BY <1>3 DEF Close, outcome
  <2>2. answers' \in Seq(Said) /\ Finals' = Finals
    BY <2>1 DEF InStep, Replied, Finals
  <2> QED BY <1>1, <1>2, <2>1, <2>2, Refused
<1>4. CASE Refuse(408)
  <2>1. \A b \in Said : b.status = 408 => Explained(Turn, b)
    BY DEF Explained
  <2> QED BY <1>1, <1>4, <2>1, Refuses
<1> QED BY <1>3, <1>4 DEF Eof, TimedOut

-----------------------------------------------------------------------------
(* Answering it                                                            *)

\* A request is handed over when all of its message has been read, and nothing else.
LEMMA Handed ==
  ASSUME AllOrderly, InStep, stage = "handle"
  PROVE  /\ Msg.fault = "none" /\ Request = Meant(Msg) /\ At = Len(Encoded(Msg))
         /\ KeepAlive(line, fields) = KeepAlive(Msg.line, Msg.fields)
         /\ Turn <= Len(script) /\ Carried /\ Told
<1> DEFINE m == Msg
<1>1. /\ Carried /\ Told /\ Turn <= Len(script) /\ Orderly(m)
      /\ line = m.line /\ fields = m.fields \o Framing(m)
      /\ Sequence(body) /\ Len(body) \in Nat /\ Sequence(Body(m)) /\ Len(Body(m)) \in Nat
      /\ Headed(m) \in Nat /\ At \in Int /\ Past = At - Headed(m)
      /\ stage \in {"size", "data", "crlf", "trailer", "handle"}
  BY InBody
<1>2. m.fault = "none"
  BY <1>1, InBody DEF AstrayAt
<1>3. /\ Begins(body, Body(m)) /\ Len(body) = Len(Body(m)) /\ Past = Len(Delimited(m))
      /\ BodyFault(m) = Delimited(m)
  <2>1. CASE m.framing = "chunked"
    BY <1>1, <1>2, <2>1, InBody DEF ChunksAt
  <2>2. CASE m.framing # "chunked"
    <3>1. Delimited(m) = Body(m)
      BY <1>1, <2>2, DelimitedIs
    <3> QED BY <1>1, <1>2, <2>2, <3>1, InBody DEF PlainAt
  <2> QED BY <2>1, <2>2
<1>4. body = Body(m)
  <2>1. \A i \in 1..Len(body) : body[i] = Body(m)[i]
    BY <1>3 DEF Begins
  <2> QED BY <1>1, <1>3, <2>1, Same
<1>5. Request = Meant(m)
  BY <1>1, <1>4 DEF Request, Meant
<1>6. At = Len(Encoded(m))
  <2>1. Len(Encoded(m)) = Headed(m) + Len(BodyFault(m))
    BY <1>1, EncodedIs
  <2>2. \A a \in Int : \A h \in Nat : \A d : d = a - h => a = h + d
    OBVIOUS
  <2>3. Len(Delimited(m)) = At - Headed(m)
    BY <1>1, <1>3
  <2>4. At = Headed(m) + Len(Delimited(m))
    <3>1. At \in Int /\ Headed(m) \in Nat
      BY <1>1
    <3> HIDE DEF m
    <3> QED BY <2>2, <2>3, <3>1
  <2> QED BY <1>3, <2>1, <2>4
<1>7. KeepAlive(line, fields) = KeepAlive(m.line, m.fields)
  BY <1>1, KeepsFraming
<1> QED BY <1>1, <1>2, <1>5, <1>6, <1>7

\* It becomes the last of those handled.
LEMMA Takes ==
  ASSUME AllOrderly, InStep, stage = "handle", handled' = Append(handled, Request), UNCHANGED <<script, pos>>,
         stage' \in {"first", "closed"}, stage' = "first" => KeepAlive(line, fields)
  PROVE  /\ Told' /\ Len(handled)' = Len(handled) + 1
         /\ Turn' \in Nat /\ At' = 0
<1> DEFINE n == Len(handled)
           M == [i \in 1..(n + 1) |-> Meant(script[i])]
<1>1. /\ n \in Nat /\ handled = [i \in 1..n |-> Meant(script[i])] /\ \A i \in 1..n : script[i].fault = "none"
      /\ \A i \in 1..n : KeepAlive(script[i].line, script[i].fields)
  BY DEF InStep, Told
<1>2. /\ Turn = n + 1 /\ Msg = script[n + 1] /\ Turn <= Len(script) /\ Request = Meant(Msg)
      /\ Msg.fault = "none" /\ KeepAlive(line, fields) = KeepAlive(Msg.line, Msg.fields)
  BY Handed DEF Turn, Msg
<1>3. Sequence(handled) /\ \A i \in 1..n : handled[i] = Meant(script[i])
  <2> HIDE DEF n
  <2>1. \A i \in 1..n : handled[i] = Meant(script[i])
    BY <1>1
  <2>2. handled = [i \in 1..n |-> handled[i]]
    BY <1>1
  <2> QED BY <1>1, <2>1, <2>2, Tabled
<1>4. /\ Sequence(handled') /\ Len(handled') = n + 1 /\ handled'[n + 1] = Meant(script[n + 1])
      /\ \A i \in 1..n : handled'[i] = Meant(script[i])
  BY <1>2, <1>3, Grown
<1>5. n + 1 \in Nat /\ n + 1 > 0 /\ n + 1 - 1 = n /\ \A i \in 1..(n + 1) : i \in 1..n \/ i = n + 1
  <2> HIDE DEF n
  <2> QED BY <1>1
<1>6. Sequence(M) /\ Len(M) = n + 1 /\ \A i \in 1..(n + 1) : M[i] = Meant(script[i])
  <2>1. \A i \in 1..(n + 1) : M[i] = Meant(script[i])
    OBVIOUS
  <2>2. M = [i \in 1..(n + 1) |-> M[i]]
    BY <2>1
  <2> HIDE DEF M
  <2> QED BY <1>5, <2>1, <2>2, Tabled
<1>7. handled' = M
  <2>1. \A i \in 1..(n + 1) : handled'[i] = Meant(script[i])
    BY <1>4, <1>5
  <2> HIDE DEF M
  <2> QED BY <1>4, <1>6, <2>1, Same
<1>8. /\ \A i \in 1..(n + 1) : script[i].fault = "none"
      /\ \A i \in 1..(IF stage' = "closed" THEN n ELSE n + 1) : KeepAlive(script[i].line, script[i].fields)
  BY <1>1, <1>2, <1>5
<1>9. n + 1 <= Len(script)
  BY <1>2
<1>10. Told'
  <2>1. Len(handled') = n + 1 /\ script' = script
    BY <1>4
  <2>2. handled' = [i \in 1..Len(handled') |-> Meant(script[i])]
    BY <1>7, <2>1
  <2>3. \A i \in 1..(IF stage' = "closed" THEN Len(handled') - 1 ELSE Len(handled')) :
            KeepAlive(script[i].line, script[i].fields)
    BY <1>5, <1>8, <2>1
  <2> HIDE DEF n, M
  <2> QED BY <1>5, <1>8, <1>9, <2>1, <2>2, <2>3 DEF Told
<1>11. Turn' \in Nat
  <2>1. Turn' = n + 1 + 1
    BY <1>4 DEF Turn
  <2> QED BY <1>5, <2>1
<1>12. At' = 0
  <2>1. EndOf(Parts(script), Turn) = From + Len(Encoded(Msg)) /\ From \in Nat
    BY <1>2, Handed, Where
  <2>2. From' = From + Len(Encoded(Msg))
    BY <1>2, <1>4, <2>1 DEF From
  <2>3. At = Len(Encoded(Msg)) /\ At = pos - From /\ pos \in Nat
    BY Handed DEF At, Carried
  <2>4. From' = From + (pos - From)
    BY <2>2, <2>3, Zenon
  <2>5. From + (pos - From) = pos /\ pos - pos = 0
    BY <2>1, <2>3
  <2> QED BY <2>4, <2>5 DEF At
<1> QED BY <1>4, <1>10, <1>11, <1>12

\* The handler has the request, and answers; the next message comes next.
LEMMA AnswerInStep ==
  ASSUME AllOrderly, InStep, NEW status \in Nat, Answer(status)
  PROVE  Told' /\ Place' /\ Replied'
<1> DEFINE keeps == KeepAlive(line, fields) /\ ~stopping
           a == [status |-> status, keep |-> keeps]
           n == Len(handled)
<1>1. /\ stage = "handle" /\ handled' = Append(handled, Request) /\ UNCHANGED <<script, pos>>
      /\ \/ /\ answers' = Append(answers, a) /\ keeps /\ stage' = "first" /\ used' = 0
            /\ line' = EndOfLine /\ fields' = <<>> /\ body' = <<>>
         \/ stage' = "closed" /\ answers' \in {answers, Append(answers, a)}
  BY DEF Answer, wireVars
<1>2. a \in Said /\ a.keep = keeps /\ a.status = status
  BY DEF Said
<1>3. Told' /\ Len(handled)' = n + 1 /\ Turn' \in Nat /\ At' = 0
  BY <1>1, Takes
<1>4. Place'
  <2>1. CASE stage' = "first"
    <3>1. Turn' <= Len(script') => 0 <= Msg'.strays
      <4>1. Len(script) \in Nat /\ \A i \in 1..Len(script) : Orderly(script[i])
        BY PartsAre DEF InStep, Carried
      <4>2. Turn' <= Len(script) => Turn' \in 1..Len(script)
        <5>1. Turn' = n + 1 + 1 /\ n \in Nat
          BY <1>3 DEF Turn, InStep, Told
        <5> HIDE DEF n
        <5> QED BY <4>1, <5>1
      <4>3. Turn' <= Len(script) => Orderly(Msg')
        BY <1>1, <4>1, <4>2 DEF Msg
      <4> QED BY <1>1, <4>3 DEF Orderly
    <3>2. AtFirst'
      BY <1>1, <1>3, <2>1, <3>1 DEF AtFirst
    <3> QED BY <2>1, <3>2 DEF Place
  <2>2. CASE stage' = "closed"
    BY <2>2 DEF Place
  <2> QED BY <1>1, <2>1, <2>2
<1>5. /\ answers \in Seq(Said) /\ n \in Nat /\ Len(Finals) <= n /\ \A i \in 1..Len(Finals) : Finals[i].keep
  BY <1>1 DEF InStep, Replied, Told
<1> HIDE DEF a, keeps
<1>6. /\ Finals \in Seq(Said) /\ Len(Finals) \in Nat /\ Append(answers, a) \in Seq(Said)
      /\ Final(Append(answers, a)) \in {Finals, Append(Finals, a)}
  <2>1. Final(answers) \in Seq(Said) /\ Append(answers, a) \in Seq(Said)
        /\ Final(Append(answers, a)) \in {Final(answers), Append(Final(answers), a)}
    BY <1>2, <1>5, FinalGrows
  <2> QED BY <2>1 DEF Finals
<1>7. answers' \in Seq(Said) /\ Finals' \in {Finals, Append(Finals, a)}
  <2>1. CASE answers' = answers
    BY <1>5, <2>1 DEF Finals
  <2>2. CASE answers' = Append(answers, a)
    BY <1>6, <2>2 DEF Finals
  <2> QED BY <1>1, <2>1, <2>2
<1>8. stage' # "closed" => a.keep
  BY <1>1, <1>2
<1>9. /\ Len(Finals') \in Nat /\ Len(Finals') <= n + 1
      /\ stage' # "closed" => \A i \in 1..Len(Finals') : Finals'[i].keep
      /\ \A i \in 1..(Len(Finals') - 1) : Finals'[i].keep
  <2>1. CASE Finals' = Finals
    <3>1. Len(Finals) <= n + 1 /\ \A i \in 1..(Len(Finals) - 1) : i \in 1..Len(Finals)
      BY <1>5, <1>6
    <3> QED BY <1>5, <1>6, <2>1, <3>1
  <2>2. CASE Finals' = Append(Finals, a)
    <3>1. Len(Finals') = Len(Finals) + 1
      BY <1>6, <2>2, AppendProperties
    <3>2. Finals'[Len(Finals) + 1] = a
      BY <1>6, <2>2, AppendProperties
    <3>3. \A i \in 1..Len(Finals) : Finals'[i] = Finals[i]
      BY <1>6, <2>2, AppendProperties
    <3>4. \A x, y \in Nat : x <= y => /\ x + 1 \in Nat /\ x + 1 <= y + 1 /\ x + 1 - 1 = x
                                      /\ \A i \in 1..(x + 1) : i \in 1..x \/ i = x + 1
      OBVIOUS
    <3>5. /\ Len(Finals) + 1 \in Nat /\ Len(Finals) + 1 <= n + 1 /\ Len(Finals) + 1 - 1 = Len(Finals)
          /\ \A i \in 1..(Len(Finals) + 1) : i \in 1..Len(Finals) \/ i = Len(Finals) + 1
      BY <1>5, <1>6, <3>4
    <3> QED BY <1>5, <1>8, <3>1, <3>2, <3>3, <3>5
  <2> QED BY <1>7, <2>1, <2>2
<1>10. Replied'
  <2>1. Len(handled') = n + 1 /\ n + 1 \in Nat /\ n + 1 <= n + 1 + 1
    BY <1>3, <1>5
  <2>2. Len(Finals') <= Len(handled') /\ Len(Finals') <= Len(handled') + 1
    <3> HIDE DEF n
    <3> QED BY <1>9, <2>1
  <2>3. \A i \in 1..Len(Finals') : ~(i > Len(handled'))
    <3> HIDE DEF n
    <3> QED BY <1>9, <2>1
  <2> QED BY <1>7, <1>9, <2>2, <2>3 DEF Replied
<1> QED BY <1>3, <1>4, <1>10

-----------------------------------------------------------------------------
(* All of them together                                                    *)

\* The client, the time and the shutdown read nothing.
LEMMA IdleInStep ==
  ASSUME AllOrderly, InStep, Client \/ Tick \/ Shutdown \/ UNCHANGED connVars
  PROVE  Told' /\ Place' /\ Replied'
<1>1. UNCHANGED <<script, pos, stage, used, line, fields, body, need, outcome>>
  BY DEF Client, Arrive, HangUp, Drip, Tick, Shutdown, connVars, wireVars, request
<1> QED BY <1>1, Unread

\* No more is read than has arrived, and what is read of a body is a sequence.
LEMMA SentKeeps ==
  ASSUME Carried, pos <= sent, Sequence(body), ConnStep \/ (\E status \in Nat : Answer(status)) \/ UNCHANGED connVars
  PROVE  Carried' /\ pos' <= sent' /\ Sequence(body')
<1>1. pos \in Nat /\ sent \in Nat /\ Len(wire) \in Nat
  BY DEF Carried, Wire
<1>2. Carried'
  <2>1. CASE UNCHANGED connVars
    BY <2>1 DEF Carried, connVars, wireVars, request
  <2>2. CASE ConnStep \/ \E status \in Nat : Answer(status)
    BY <2>2, CarriedKeeps
  <2> QED BY <2>1, <2>2
<1>3. /\ sent' \in {sent, sent + 1}
      /\ pos' = pos \/ (pos < sent /\ pos' = pos + 1 /\ sent' = sent)
      /\ body' \in {body, <<>>, Append(body, Lexeme)}
  <2>1. CASE Client \/ Tick \/ Shutdown \/ UNCHANGED connVars
    BY <2>1 DEF Client, Arrive, HangUp, Drip, Tick, Shutdown, connVars, wireVars, request
  <2>2. CASE ReadFirst \/ ReadField
    BY <2>2 DEF ReadFirst, ReadField, Reads, Refuse, Consume, wireVars, request
  <2>3. CASE EndOfHead
    BY <2>3 DEF EndOfHead, Reads, Refuse, Consume, wireVars, request
  <2>4. CASE ReadSize \/ ReadCrlf \/ ReadTrailer
    BY <2>4 DEF ReadSize, ReadCrlf, ReadTrailer, Reads, Refuse, Consume, wireVars, request
  <2>5. CASE ReadData \/ DataDone
    BY <2>5 DEF ReadData, DataDone, Reads, wireVars
  <2>6. CASE Eof \/ TimedOut
    BY <2>6 DEF Eof, TimedOut, Close, Refuse, wireVars, request
  <2>7. CASE \E status \in Nat : Answer(status)
    BY <2>7 DEF Answer, wireVars, request
  <2> QED BY <2>1, <2>2, <2>3, <2>4, <2>5, <2>6, <2>7 DEF ConnStep, Reading
<1>4. pos' <= sent'
  BY <1>1, <1>3
<1>5. Sequence(body')
  <2>1. Sequence(<<>>)
    <3>1. <<>> \in Seq({})
      OBVIOUS
    <3> QED BY <3>1 DEF Sequence
  <2>2. Sequence(Append(body, Lexeme))
    BY Grown
  <2> QED BY <1>3, <2>1, <2>2
<1> QED BY <1>2, <1>4, <1>5

\* At first nothing has been read, handled or said.
LEMMA StartsInStep ==
  ASSUME AllOrderly, ConnInit
  PROVE  InStep
<1>1. /\ script \in Scripts /\ wire = Wire(script) /\ sent = 0 /\ pos = 0 /\ stage = "first"
      /\ used = 0 /\ line = EndOfLine /\ fields = <<>> /\ body = <<>> /\ handled = <<>> /\ answers = <<>>
  BY DEF ConnInit
<1>2. \A S : <<>> \in Seq(S) /\ Len(<<>>) = 0
  OBVIOUS
<1>3. /\ Len(script) \in Nat /\ (\A i \in 1..Len(script) : Orderly(script[i]) /\ Sequence(Parts(script)[i]))
      /\ Sequence(Parts(script)) /\ Len(Parts(script)) = Len(script)
  BY <1>1, PartsAre
<1>4. Len(wire) \in Nat /\ EndOf(Parts(script), 0) = 0
  <2> DEFINE p == Parts(script)
  <2>1. Sequence(p) /\ (\A i \in 1..Len(p) : Sequence(p[i])) /\ wire = FlattenSeq(p)
    BY <1>1, <1>3 DEF Wire
  <2> HIDE DEF p
  <2> QED BY <2>1, Parted DEF p
<1>5. Carried /\ pos <= sent /\ Sequence(body)
  BY <1>1, <1>2, <1>4 DEF Carried, Sequence
<1>6. Len(handled) = 0
  BY <1>1
<1>7. Told
  <2>1. handled = [i \in 1..0 |-> Meant(script[i])]
    BY <1>1
  <2> QED BY <1>1, <1>3, <1>6, <2>1 DEF Told
<1>8. Place
  <2>1. Turn = 1 /\ From = 0
    BY <1>4, <1>6 DEF Turn, From
  <2>2. At = 0
    BY <1>1, <2>1 DEF At
  <2>3. 1 <= Len(script) => Msg.strays \in Nat
    <3>1. 1 <= Len(script) => 1 \in 1..Len(script)
      BY <1>3
    <3>2. Msg = script[1]
      BY <2>1 DEF Msg
    <3>3. 1 \in 1..Len(script) => Orderly(script[1])
      BY <1>3
    <3> QED BY <3>1, <3>2, <3>3 DEF Orderly
  <2>4. AtFirst
    BY <1>1, <2>1, <2>2, <2>3 DEF AtFirst
  <2> QED BY <1>1, <2>4 DEF Place
<1>9. Replied
  <2>1. Final(<<>>) = <<>>
    <3>1. [i \in DOMAIN <<>> |-> IF <<>>[i].status = 100 THEN <<>> ELSE <<<<>>[i]>>] = <<>>
      OBVIOUS
    <3>2. FlattenSeq(<<>>) = <<>>
      <4>1. <<>> \in Seq({})
        OBVIOUS
      <4> QED BY <4>1, FlattenIs
    <3> QED BY <3>1, <3>2 DEF Final
  <2>2. Finals = <<>> /\ Len(Finals) = 0
    BY <1>1, <2>1 DEF Finals
  <2> QED BY <1>1, <1>2, <1>6, <2>2 DEF Replied
<1> QED BY <1>5, <1>7, <1>8, <1>9 DEF InStep

\* No step of any kind breaks the invariant.
LEMMA InStepKeeps ==
  ASSUME AllOrderly, InStep, [ConnNext]_connVars
  PROVE  InStep'
<1>1. Told' /\ Place' /\ Replied'
  <2>1. CASE Client \/ Tick \/ Shutdown \/ UNCHANGED connVars
    BY <2>1, IdleInStep
  <2>2. CASE Reading
    BY <2>2, FirstInStep, FieldInStep, HeadInStep, SizeInStep, DataInStep, DoneInStep, CrlfInStep,
       TrailerInStep, EndInStep DEF Reading
  <2>3. ASSUME NEW status \in Nat, Answer(status) PROVE Told' /\ Place' /\ Replied'
    BY <2>3, AnswerInStep
  <2> QED BY <2>1, <2>2, <2>3 DEF ConnNext, ConnStep
<1>2. Carried' /\ pos' <= sent' /\ Sequence(body')
  BY SentKeeps DEF InStep, ConnNext
<1> QED BY <1>1, <1>2 DEF InStep

\* What the invariant says of the requests.
LEMMA InStepIntact == ASSUME InStep PROVE RequestsIntact
<1> DEFINE n == Len(handled)
           N == IF stage = "closed" THEN n - 1 ELSE n
<1>1. /\ n \in Nat /\ n <= Len(script) /\ handled = [i \in 1..n |-> Meant(script[i])]
      /\ \A i \in 1..n : script[i].fault = "none"
      /\ \A i \in 1..N : KeepAlive(script[i].line, script[i].fields)
  BY DEF InStep, Told
<1>2. DOMAIN handled = 1..n /\ \A i \in 1..n : handled[i] = Meant(script[i])
  <2> HIDE DEF n
  <2> QED BY <1>1
<1>3. \A i \in 1..n : \A j \in 1..(i - 1) : j \in 1..N
  <2> HIDE DEF n
  <2> QED BY <1>1
<1> HIDE DEF N
<1>4. \A i \in 1..n : \A j \in 1..(i - 1) : KeepAlive(script[j].line, script[j].fields)
  BY <1>1, <1>3
<1> QED BY <1>1, <1>2, <1>4 DEF RequestsIntact

\* And of the answers.
LEMMA InStepAnswered == ASSUME AllOrderly, AllModerate, InStep PROVE AnswersInStep
<1>1. /\ Finals \in Seq(Said) /\ Len(Finals) \in Nat /\ DOMAIN Finals = 1..Len(Finals)
      /\ \A i \in 1..Len(Finals) : Finals[i] \in Said
  <2>1. Finals \in Seq(Said)
    BY FinalGrows DEF InStep, Replied, Finals
  <2> HIDE DEF Finals
  <2> QED BY <2>1
<1>2. /\ Len(Finals) <= Len(handled) + 1 /\ Len(handled) \in Nat /\ Len(handled) <= Len(script)
      /\ \A i \in 1..Len(Finals) : i > Len(handled) => Explained(i, Finals[i])
      /\ \A i \in 1..(Len(Finals) - 1) : Finals[i].keep
      /\ stage # "closed" => \A i \in 1..Len(Finals) : Finals[i].keep
  BY DEF InStep, Replied, Told
<1>3. ASSUME NEW i \in 1..Len(Finals), i > Len(handled)
      PROVE  \/ Finals[i].status = 408
             \/ script[i].fault # "none" /\ Finals[i].status = Refusal(script[i])
  <2>1. Explained(i, Finals[i])
    BY <1>2, <1>3
  <2>2. i <= Len(script) => Moderate(script[i])
    <3>1. /\ script \in Scripts /\ Len(script) \in Nat /\ DOMAIN script = 1..Len(script)
      BY PartsAre, InSeq DEF InStep, Carried
    <3>2. i \in 1..Len(Finals) /\ Len(Finals) \in Nat
      BY <1>1
    <3>3. i <= Len(script) => i \in DOMAIN script
      <4> HIDE DEF Finals
      <4> QED BY <3>1, <3>2
    <3>4. i <= Len(script) => script[i] \in ToSet(script)
      BY <3>3 DEF ToSet
    <3> QED BY <3>1, <3>4 DEF AllModerate
  <2> QED BY <2>1, <2>2 DEF Explained
<1>4. ASSUME NEW i \in 1..Len(Finals), ~Finals[i].keep PROVE i = Len(Finals) /\ stage = "closed"
  <2>1. i \notin 1..(Len(Finals) - 1)
    BY <1>2, <1>4
  <2>2. stage = "closed"
    BY <1>2, <1>4
  <2>3. \A x \in Nat : \A y \in 1..x : y \notin 1..(x - 1) => y = x
    OBVIOUS
  <2> QED BY <1>1, <2>1, <2>2, <2>3, Zenon
<1> QED BY <1>1, <1>2, <1>3, <1>4 DEF AnswersInStep

\* So it holds all along.
LEMMA InStepAlways == ASSUME AllOrderly PROVE ConnSpec => []InStep
<1>1. ConnInit => InStep
  BY StartsInStep
<1>2. InStep /\ [ConnNext]_connVars => InStep'
  BY InStepKeeps
<1> QED BY <1>1, <1>2, PTL DEF ConnSpec

\* Whatever the bodies look like and however they are delimited, what a handler gets are
\* the messages that the client meant, one after another, and nothing after one that is
\* malformed or was to be the last (read_request, read_body and serve in http.rs).
THEOREM RequestsArrive == ASSUME AllOrderly PROVE ConnSpec => []RequestsIntact
BY InStepAlways, InStepIntact, PTL

\* Each message is answered once, in the order of the messages, and the one that is
\* refused last of all, with the status its fault calls for unless it took too long.
THEOREM AnswersMatch == ASSUME AllOrderly, AllModerate PROVE ConnSpec => []AnswersInStep
BY InStepAlways, InStepAnswered, PTL

\* So it is with the program's own handlers, which cannot break either.
THEOREM ServiceIsIntact == ASSUME AllOrderly PROVE ServiceSpec => []RequestsIntact
BY ServiceServes, RequestsArrive, PTL

\* And what they answer stays in step with the messages.
THEOREM ServiceIsInStep == ASSUME AllOrderly, AllModerate PROVE ServiceSpec => []AnswersInStep
BY ServiceServes, AnswersMatch, PTL
=============================================================================
