---------------------------- MODULE DbPoolProofs ----------------------------
(***************************************************************************)
(* Proofs about DbPool, for any number of threads and of connections.      *)
(*                                                                         *)
(* The argument: a thread holds a connection exactly from its checkout to  *)
(* its return (Guards), so connections are conserved (Conservation); an    *)
(* open transaction that is not stuck sits on the connection of a thread   *)
(* still inside Pool::transaction and holds only that thread's writes      *)
(* (Lock); an operation has an effect before it is answered only while it  *)
(* reads back (Effects); hence what is committed and reported is one       *)
(* operation at a time, which is the refinement of AtomicStore.  The wakeup count is a separate       *)
(* invariant (Wakeups), on top of the first two.                           *)
(***************************************************************************)
EXTENDS DbPool, FiniteSetTheorems, TLAPS

\* Where a thread owns a Checkout guard.
Holding == {"exec", "reread", "begin", "body", "commit", "rollback", "return"}
\* Where a thread has not been answered yet.
Unanswered == {"checkout", "wait", "exec", "reread", "begin", "body", "commit", "rollback"}

Guards == /\ \A t \in Threads : conn[t] # None <=> pc[t] \in Holding
          /\ \A t \in Threads : t \in waiting <=> pc[t] = "wait"
          /\ \A t \in Threads : result[t] = "none" <=> pc[t] \in Unanswered

Lock == /\ StrayOnlyIfStuck
        /\ \A t \in Threads : pc[t] \in {"body", "commit"} => writer = conn[t]
        /\ \A t \in Threads : pc[t] = "commit" => t \in pending
        /\ ~stuck => \A t \in pending : conn[t] = writer /\ pc[t] \in {"commit", "rollback"}
        /\ writer = None => pending = {} /\ ~stuck

\* What an unanswered operation has done so far: nothing, unless it reads back.
Effects == \A t \in Threads :
             IF pc[t] = "reread" THEN op[t] = "echo" /\ (t \in durable <=> writer # conn[t])
             ELSE pc[t] \in Unanswered => t \notin durable
\* The operation a thread runs.
Running == \A t \in Threads : /\ pc[t] \in {"begin", "body", "commit", "rollback"} => op[t] = "tx"
                              /\ pc[t] = "exec" => op[t] # "tx"

Closing == /\ closed <=> closer # "no"
           /\ closer = "done" => waiting = {}

Wakeups == waiting # {} => Cardinality(idle) <= Cardinality(Active)

Inv == TypeOK /\ Guards /\ Conservation /\ Lock /\ Effects /\ Running
IInv == Inv /\ Closing /\ Wakeups
-----------------------------------------------------------------------------
(* The state invariant Inv: one lemma per action                           *)

LEMMA InvInit == Init => Inv
<1> SUFFICES ASSUME Init PROVE Inv
  OBVIOUS
<1> USE DbPoolAssumption DEF Init
<1>1. TypeOK
  BY DEF TypeOK, Labels, Ops
<1>2. Guards
  BY DEF Guards, Holding, Unanswered
<1>3. Conservation
  BY DEF Conservation, Held
<1>4. Lock
  BY DEF Lock, StrayOnlyIfStuck
<1>5. Effects /\ Running
  BY DEF Effects, Running
<1>6. QED
  BY <1>1, <1>2, <1>3, <1>4, <1>5 DEF Inv

LEMMA StartInv ==
  ASSUME Inv, NEW t \in Threads, Start(t)
  PROVE  Inv'
<1> USE DbPoolAssumption DEF Inv, Start, TypeOK, Labels, Ops, Goto, Report,
        poolVars, dbVars, txVars
<1>1. TypeOK'
  BY DEF Guards, Holding
<1>2. Guards'
  BY DEF Guards, Holding, Unanswered
<1>3. Conservation'
  BY DEF Guards, Holding, Conservation, Held
<1>4. Lock'
  BY DEF Guards, Holding, Conservation, Held, Lock, StrayOnlyIfStuck, Insiders, InTx
<1>5. Effects' /\ Running'
  BY DEF Guards, Holding, Unanswered, Conservation, Held, Lock, StrayOnlyIfStuck,
         Insiders, InTx, Effects, Running
<1>6. QED
  BY <1>1, <1>2, <1>3, <1>4, <1>5

LEMMA SpuriousInv ==
  ASSUME Inv, NEW t \in Threads, Spurious(t)
  PROVE  Inv'
<1> USE DbPoolAssumption DEF Inv, Spurious, TypeOK, Labels, Ops, Goto, Report,
        poolVars, dbVars, txVars
<1>1. TypeOK'
  BY DEF Guards, Holding
<1>2. Guards'
  BY DEF Guards, Holding, Unanswered
<1>3. Conservation'
  BY DEF Guards, Holding, Conservation, Held
<1>4. Lock'
  BY DEF Guards, Holding, Conservation, Held, Lock, StrayOnlyIfStuck, Insiders, InTx
<1>5. Effects' /\ Running'
  BY DEF Guards, Holding, Unanswered, Conservation, Held, Lock, StrayOnlyIfStuck,
         Insiders, InTx, Effects, Running
<1>6. QED
  BY <1>1, <1>2, <1>3, <1>4, <1>5

LEMMA CheckoutInv ==
  ASSUME Inv, NEW t \in Threads, Checkout(t)
  PROVE  Inv'
<1> USE DbPoolAssumption DEF Inv, Checkout, TypeOK, Labels, Ops, Goto, Report,
        poolVars, dbVars, txVars, Leave
<1>1. TypeOK'
  BY DEF Guards, Holding
<1>2. Guards'
  BY DEF Guards, Holding, Unanswered
<1>3. Conservation'
  BY DEF Guards, Holding, Conservation, Held
<1>4. Lock'
  BY DEF Guards, Holding, Conservation, Held, Lock, StrayOnlyIfStuck, Insiders, InTx
<1>5. Effects' /\ Running'
  BY DEF Guards, Holding, Unanswered, Conservation, Held, Lock, StrayOnlyIfStuck,
         Insiders, InTx, Effects, Running
<1>6. QED
  BY <1>1, <1>2, <1>3, <1>4, <1>5

LEMMA ExecInv ==
  ASSUME Inv, NEW t \in Threads, Exec(t)
  PROVE  Inv'
<1> USE DbPoolAssumption DEF Inv, Exec, TypeOK, Labels, Ops, Goto, Report,
        poolVars, dbVars, txVars, Spoil, Discard
<1>1. TypeOK'
  BY DEF Guards, Holding
<1>2. Guards'
  BY DEF Guards, Holding, Unanswered
<1>3. Conservation'
  BY DEF Guards, Holding, Conservation, Held
<1>4. Lock'
  BY DEF Guards, Holding, Conservation, Held, Lock, StrayOnlyIfStuck, Insiders, InTx
<1>5. Effects' /\ Running'
  BY DEF Guards, Holding, Unanswered, Conservation, Held, Lock, StrayOnlyIfStuck,
         Insiders, InTx, Effects, Running
<1>6. QED
  BY <1>1, <1>2, <1>3, <1>4, <1>5

LEMMA RereadInv ==
  ASSUME Inv, NEW t \in Threads, Reread(t)
  PROVE  Inv'
<1> USE DbPoolAssumption DEF Inv, Reread, TypeOK, Labels, Ops, Goto, Report,
        poolVars, dbVars, txVars, Spoil, Discard
<1>1. TypeOK'
  BY DEF Guards, Holding
<1>2. Guards'
  BY DEF Guards, Holding, Unanswered
<1>3. Conservation'
  BY DEF Guards, Holding, Conservation, Held
<1>4. Lock'
  BY DEF Guards, Holding, Conservation, Held, Lock, StrayOnlyIfStuck, Insiders, InTx
<1>5. Effects' /\ Running'
  BY DEF Guards, Holding, Unanswered, Conservation, Held, Lock, StrayOnlyIfStuck,
         Insiders, InTx, Effects, Running
<1>6. QED
  BY <1>1, <1>2, <1>3, <1>4, <1>5

LEMMA BeginInv ==
  ASSUME Inv, NEW t \in Threads, Begin(t)
  PROVE  Inv'
<1> USE DbPoolAssumption DEF Inv, Begin, TypeOK, Labels, Ops, Goto, Report,
        poolVars, dbVars, txVars
<1>1. TypeOK'
  BY DEF Guards, Holding
<1>2. Guards'
  BY DEF Guards, Holding, Unanswered
<1>3. Conservation'
  BY DEF Guards, Holding, Conservation, Held
<1>4. Lock'
  BY DEF Guards, Holding, Conservation, Held, Lock, StrayOnlyIfStuck, Insiders, InTx
<1>5. Effects' /\ Running'
  BY DEF Guards, Holding, Unanswered, Conservation, Held, Lock, StrayOnlyIfStuck,
         Insiders, InTx, Effects, Running
<1>6. QED
  BY <1>1, <1>2, <1>3, <1>4, <1>5

LEMMA BodyInv ==
  ASSUME Inv, NEW t \in Threads, Body(t)
  PROVE  Inv'
<1> USE DbPoolAssumption DEF Inv, Body, TypeOK, Labels, Ops, Goto, Report,
        poolVars, dbVars, txVars, Spoil, Discard
<1>1. TypeOK'
  BY DEF Guards, Holding
<1>2. Guards'
  BY DEF Guards, Holding, Unanswered
<1>3. Conservation'
  BY DEF Guards, Holding, Conservation, Held
<1>4. Lock'
  BY DEF Guards, Holding, Conservation, Held, Lock, StrayOnlyIfStuck, Insiders, InTx
<1>5. Effects' /\ Running'
  BY DEF Guards, Holding, Unanswered, Conservation, Held, Lock, StrayOnlyIfStuck,
         Insiders, InTx, Effects, Running
<1>6. QED
  BY <1>1, <1>2, <1>3, <1>4, <1>5

LEMMA CommitInv ==
  ASSUME Inv, NEW t \in Threads, Commit(t)
  PROVE  Inv'
<1> USE DbPoolAssumption DEF Inv, Commit, TypeOK, Labels, Ops, Goto, Report,
        poolVars, dbVars, txVars, Spoil, Discard
<1>1. TypeOK'
  BY DEF Guards, Holding
<1>2. Guards'
  BY DEF Guards, Holding, Unanswered
<1>3. Conservation'
  BY DEF Guards, Holding, Conservation, Held
<1>4. Lock'
  BY DEF Guards, Holding, Conservation, Held, Lock, StrayOnlyIfStuck, Insiders, InTx
<1>5. Effects' /\ Running'
  BY DEF Guards, Holding, Unanswered, Conservation, Held, Lock, StrayOnlyIfStuck,
         Insiders, InTx, Effects, Running
<1>6. QED
  BY <1>1, <1>2, <1>3, <1>4, <1>5

LEMMA RollbackInv ==
  ASSUME Inv, NEW t \in Threads, Rollback(t)
  PROVE  Inv'
<1> USE DbPoolAssumption DEF Inv, Rollback, TypeOK, Labels, Ops, Goto, Report,
        poolVars, dbVars, txVars, Discard
<1>1. TypeOK'
  BY DEF Guards, Holding
<1>2. Guards'
  BY DEF Guards, Holding, Unanswered
<1>3. Conservation'
  BY DEF Guards, Holding, Conservation, Held
<1>4. Lock'
  BY DEF Guards, Holding, Conservation, Held, Lock, StrayOnlyIfStuck, Insiders, InTx
<1>5. Effects' /\ Running'
  BY DEF Guards, Holding, Unanswered, Conservation, Held, Lock, StrayOnlyIfStuck,
         Insiders, InTx, Effects, Running
<1>6. QED
  BY <1>1, <1>2, <1>3, <1>4, <1>5

LEMMA ReturnInv ==
  ASSUME Inv, NEW t \in Threads, Return(t)
  PROVE  Inv'
<1> USE DbPoolAssumption DEF Inv, Return, TypeOK, Labels, Ops, Goto, Report,
        poolVars, dbVars, txVars, Discard, Close, Leave
<1>1. TypeOK'
  <2>1. conn[t] \in Conns
    BY DEF Guards, Holding
  <2>2. idle' \subseteq Conns /\ conn' \in [Threads -> Conns \cup {None}]
    BY <2>1
  <2>3. writer' \in Conns \cup {None} /\ pending' \subseteq Threads /\ stuck' \in BOOLEAN
    OBVIOUS
  <2>4. pc' \in [Threads -> Labels] /\ op' \in [Threads -> Ops \cup {"none"}]
    OBVIOUS
  <2>5. QED
    BY <2>2, <2>3, <2>4
<1>2. Guards'
  BY DEF Guards, Holding, Unanswered
<1>3. Conservation'
  BY DEF Guards, Holding, Conservation, Held
<1>4. Lock'
  BY DEF Guards, Holding, Conservation, Held, Lock, StrayOnlyIfStuck, Insiders, InTx
<1>5. Effects' /\ Running'
  BY DEF Guards, Holding, Unanswered, Conservation, Held, Lock, StrayOnlyIfStuck,
         Insiders, InTx, Effects, Running
<1>6. QED
  BY <1>1, <1>2, <1>3, <1>4, <1>5

LEMMA NotifyInv ==
  ASSUME Inv, NEW t \in Threads, Notify(t)
  PROVE  Inv'
<1> USE DbPoolAssumption DEF Inv, Notify, TypeOK, Labels, Ops, Goto, Report,
        poolVars, dbVars, txVars
<1>1. TypeOK'
  BY DEF Guards, Holding
<1>2. Guards'
  BY DEF Guards, Holding, Unanswered
<1>3. Conservation'
  BY DEF Guards, Holding, Conservation, Held
<1>4. Lock'
  BY DEF Guards, Holding, Conservation, Held, Lock, StrayOnlyIfStuck, Insiders, InTx
<1>5. Effects' /\ Running'
  BY DEF Guards, Holding, Unanswered, Conservation, Held, Lock, StrayOnlyIfStuck,
         Insiders, InTx, Effects, Running
<1>6. QED
  BY <1>1, <1>2, <1>3, <1>4, <1>5

LEMMA CloseAllInv ==
  ASSUME Inv, CloseAll
  PROVE  Inv'
<1> USE DbPoolAssumption DEF Inv, CloseAll, TypeOK, Labels, Ops, Goto, Report,
        poolVars, dbVars, txVars
<1>1. TypeOK'
  BY DEF Guards, Holding
<1>2. Guards'
  BY DEF Guards, Holding, Unanswered
<1>3. Conservation'
  BY DEF Guards, Holding, Conservation, Held
<1>4. Lock'
  BY DEF Guards, Holding, Conservation, Held, Lock, StrayOnlyIfStuck, Insiders, InTx
<1>5. Effects' /\ Running'
  BY DEF Guards, Holding, Unanswered, Conservation, Held, Lock, StrayOnlyIfStuck,
         Insiders, InTx, Effects, Running
<1>6. QED
  BY <1>1, <1>2, <1>3, <1>4, <1>5

LEMMA DrainInv ==
  ASSUME Inv, Drain
  PROVE  Inv'
<1> USE DbPoolAssumption DEF Inv, Drain, TypeOK, Labels, Ops, Goto, Report,
        poolVars, dbVars, txVars, Discard, Close
<1>1. TypeOK'
  BY DEF Guards, Holding
<1>2. Guards'
  BY DEF Guards, Holding, Unanswered
<1>3. Conservation'
  BY DEF Guards, Holding, Conservation, Held
<1>4. Lock'
  BY DEF Guards, Holding, Conservation, Held, Lock, StrayOnlyIfStuck, Insiders, InTx
<1>5. Effects' /\ Running'
  BY DEF Guards, Holding, Unanswered, Conservation, Held, Lock, StrayOnlyIfStuck,
         Insiders, InTx, Effects, Running
<1>6. QED
  BY <1>1, <1>2, <1>3, <1>4, <1>5

LEMMA WakeAllInv ==
  ASSUME Inv, WakeAll
  PROVE  Inv'
<1> USE DbPoolAssumption DEF Inv, WakeAll, TypeOK, Labels, Ops, Goto, Report,
        poolVars, dbVars, txVars
<1>1. TypeOK'
  BY DEF Guards, Holding
<1>2. Guards'
  BY DEF Guards, Holding, Unanswered
<1>3. Conservation'
  BY DEF Guards, Holding, Conservation, Held
<1>4. Lock'
  BY DEF Guards, Holding, Conservation, Held, Lock, StrayOnlyIfStuck, Insiders, InTx
<1>5. Effects' /\ Running'
  BY DEF Guards, Holding, Unanswered, Conservation, Held, Lock, StrayOnlyIfStuck,
         Insiders, InTx, Effects, Running
<1>6. QED
  BY <1>1, <1>2, <1>3, <1>4, <1>5

LEMMA InvStep == Inv /\ [Next]_vars => Inv'
<1> SUFFICES ASSUME Inv, [Next]_vars PROVE Inv'
  OBVIOUS
<1>1. CASE UNCHANGED vars
  BY <1>1 DEF vars, poolVars, dbVars, txVars, Inv, TypeOK, Guards, Conservation,
              Lock, StrayOnlyIfStuck, Insiders, Held, Effects, Running
<1>2. CASE Next
  BY <1>2, StartInv, SpuriousInv, CheckoutInv, ExecInv, RereadInv, BeginInv, BodyInv,
     CommitInv, RollbackInv, ReturnInv, NotifyInv, CloseAllInv, DrainInv, WakeAllInv
     DEF Next, Step
<1>3. QED
  BY <1>1, <1>2

LEMMA InvAlways == Spec => []Inv
BY InvInit, InvStep, PTL DEF Spec

\* Type correctness.
THEOREM TypeCorrect == Spec => []TypeOK
<1>1. Inv => TypeOK
  BY DEF Inv
<1>2. QED
  BY InvAlways, <1>1, PTL

\* No connection is lost, shared or resurrected, whatever fails: the Checkout
\* guard against close_all.
THEOREM ConnectionsConserved == Spec => []Conservation
<1>1. Inv => Conservation
  BY DEF Inv
<1>2. QED
  BY InvAlways, <1>1, PTL

\* A connection is given back with a transaction open only if the ROLLBACK of
\* TxGuard::drop has failed, and Pool::transaction never runs in such a one.
THEOREM StrayIsStuck == Spec => []StrayOnlyIfStuck
<1>1. Inv => StrayOnlyIfStuck
  BY DEF Inv, Lock
<1>2. QED
  BY InvAlways, <1>1, PTL

-----------------------------------------------------------------------------
(* Wakeups                                                                 *)

LEMMA FiniteSides ==
  ASSUME TypeOK
  PROVE  /\ IsFiniteSet(idle) /\ Cardinality(idle) \in Nat
         /\ IsFiniteSet(Active) /\ Cardinality(Active) \in Nat
<1>1. IsFiniteSet(idle)
  BY DbPoolAssumption, FS_Subset DEF TypeOK
<1>2. IsFiniteSet(Active)
  <2>1. Active \subseteq Threads
    BY DEF Active
  <2>2. QED
    BY <2>1, DbPoolAssumption, FS_Subset
<1>3. QED
  BY <1>1, <1>2, FS_CardinalityType

\* The count can only be disturbed where connections or active threads change.
LEMMA WakeupsKept ==
  ASSUME IInv, TypeOK', idle' \subseteq idle, Active \subseteq Active',
         waiting' \subseteq waiting
  PROVE  Wakeups'
<1>1. /\ IsFiniteSet(idle) /\ IsFiniteSet(Active')
      /\ Cardinality(idle) \in Nat /\ Cardinality(idle') \in Nat
      /\ Cardinality(Active) \in Nat /\ Cardinality(Active') \in Nat
  <2>1. /\ IsFiniteSet(idle') /\ Cardinality(idle') \in Nat
        /\ IsFiniteSet(Active') /\ Cardinality(Active') \in Nat
    BY FS_Subset, FS_CardinalityType, DbPoolAssumption, Active' \subseteq Threads
       DEF TypeOK, Active
  <2>2. QED
    BY <2>1, FiniteSides DEF IInv, Inv
<1>2. Cardinality(idle') <= Cardinality(idle)
  BY <1>1, FS_Subset
<1>3. Cardinality(Active) <= Cardinality(Active')
  BY <1>1, FS_Subset
<1>4. CASE waiting' = {}
  BY <1>4 DEF Wakeups
<1>5. CASE waiting' # {}
  BY <1>1, <1>2, <1>3, <1>5 DEF Wakeups, IInv
<1>6. QED
  BY <1>4, <1>5

LEMMA WakeupsNoneIdle == ASSUME TypeOK', idle' = {} PROVE Wakeups'
<1>1. Cardinality(Active') \in Nat
  <2>1. Active' \subseteq Threads
    BY DEF Active
  <2>2. QED
    BY <2>1, DbPoolAssumption, FS_Subset, FS_CardinalityType
<1>2. Cardinality(idle') = 0
  BY FS_EmptySet
<1>3. QED
  BY <1>1, <1>2 DEF Wakeups

\* A caller that takes a connection was itself one of the active threads.
LEMMA CheckoutWakeups ==
  ASSUME IInv, TypeOK', NEW t \in Threads, Checkout(t)
  PROVE  Wakeups'
<1> USE DEF IInv, Inv
<1>1. CASE closed
  BY <1>1, WakeupsNoneIdle DEF Checkout, Conservation
<1>2. CASE idle = {}
  BY <1>2, WakeupsNoneIdle DEF Checkout
<1>3. CASE ~closed /\ idle # {}
  <2>1. PICK c \in idle : idle' = idle \ {c}
    BY <1>3 DEF Checkout
  <2>2. t \in Active /\ Active' = Active \ {t} /\ waiting' = waiting
    BY <1>3 DEF Checkout, Active, Goto, TypeOK, Ops, Leave
  <2>3. Cardinality(idle') = Cardinality(idle) - 1
    BY <2>1, FiniteSides, FS_RemoveElement
  <2>4. Cardinality(Active') = Cardinality(Active) - 1
    BY <2>2, FiniteSides, FS_RemoveElement
  <2>5. QED
    BY <2>2, <2>3, <2>4, FiniteSides DEF Wakeups
<1>4. QED
  BY <1>1, <1>2, <1>3

\* A returned connection comes with a thread that is about to notify.
LEMMA ReturnWakeups ==
  ASSUME IInv, TypeOK', NEW t \in Threads, Return(t)
  PROVE  Wakeups'
<1> USE DEF IInv, Inv
<1>1. CASE closed
  BY <1>1, WakeupsNoneIdle DEF Return, Conservation
<1>2. CASE ~closed
  <2>1. idle' = idle \cup {conn[t]} /\ conn[t] \notin idle
    BY <1>2 DEF Return, Conservation, Held, Guards, Holding
  <2>2. t \notin Active /\ Active' = Active \cup {t} /\ waiting' = waiting
    BY <1>2 DEF Return, Active, Goto, Leave, TypeOK
  <2>3. Cardinality(idle') = Cardinality(idle) + 1
    BY <2>1, FiniteSides, FS_AddElement
  <2>4. Cardinality(Active') = Cardinality(Active) + 1
    BY <2>2, FiniteSides, FS_AddElement
  <2>5. QED
    BY <2>2, <2>3, <2>4, FiniteSides DEF Wakeups
<1>3. QED
  BY <1>1, <1>2

\* A notify hands its turn to the waiter it wakes.
LEMMA NotifyWakeups ==
  ASSUME IInv, TypeOK', NEW t \in Threads, Notify(t)
  PROVE  Wakeups'
<1> USE DEF IInv, Inv
<1>1. CASE waiting = {}
  BY <1>1 DEF Notify, Wakeups
<1>2. CASE waiting # {}
  <2>1. PICK w \in waiting : /\ waiting' = waiting \ {w}
                             /\ pc' = [pc EXCEPT ![t] = "free", ![w] = "checkout"]
    BY <1>2 DEF Notify
  <2>2. pc[w] = "wait" /\ pc[t] = "notify" /\ w \in Threads /\ w # t
    BY <2>1 DEF Guards, TypeOK, Notify
  <2>3. t \in Active /\ w \notin Active /\ Active' = (Active \ {t}) \cup {w}
    BY <2>1, <2>2 DEF Active, TypeOK
  <2>4. IsFiniteSet(Active \ {t}) /\ Cardinality(Active \ {t}) = Cardinality(Active) - 1
    BY <2>3, FiniteSides, FS_RemoveElement
  <2>5. Cardinality(Active') = Cardinality(Active)
    <3>1. Cardinality((Active \ {t}) \cup {w}) = Cardinality(Active \ {t}) + 1
      BY <2>3, <2>4, FS_AddElement, w \notin Active \ {t}
    <3>2. QED
      BY <3>1, <2>3, <2>4, FiniteSides
  <2>6. idle' = idle
    BY DEF Notify
  <2>7. QED
    BY <1>2, <2>5, <2>6 DEF Wakeups
<1>3. QED
  BY <1>1, <1>2

LEMMA WakeupsStep == IInv /\ TypeOK' /\ [Next]_vars => Wakeups'
<1> SUFFICES ASSUME IInv, TypeOK', [Next]_vars PROVE Wakeups'
  OBVIOUS
<1> USE DEF IInv, Inv, TypeOK, poolVars, dbVars, Goto, Active
<1>1. ASSUME NEW t \in Threads, Start(t) PROVE Wakeups'
  BY <1>1, WakeupsKept DEF Start
<1>2. ASSUME NEW t \in Threads, Spurious(t) PROVE Wakeups'
  BY <1>2, WakeupsKept DEF Spurious
<1>3. ASSUME NEW t \in Threads,
             Exec(t) \/ Reread(t) \/ Begin(t) \/ Body(t) \/ Commit(t) \/ Rollback(t)
      PROVE  Wakeups'
  <2>1. idle' = idle /\ waiting' = waiting /\ Active \subseteq Active'
    BY <1>3 DEF Exec, Reread, Begin, Body, Commit, Rollback
  <2>2. QED
    BY <2>1, WakeupsKept
<1>4. CASE CloseAll
  BY <1>4, WakeupsNoneIdle DEF CloseAll
<1>5. CASE WakeAll
  BY <1>5 DEF WakeAll, Wakeups
<1>6. CASE Drain \/ UNCHANGED vars
  BY <1>6, WakeupsKept DEF Drain, vars
<1>7. QED
  BY <1>1, <1>2, <1>3, <1>4, <1>5, <1>6, CheckoutWakeups, ReturnWakeups,
     NotifyWakeups DEF Next, Step

LEMMA ClosingStep == IInv /\ [Next]_vars => Closing'
<1> SUFFICES ASSUME IInv, [Next]_vars PROVE Closing'
  OBVIOUS
<1> USE DEF IInv, Closing, poolVars
<1>1. ASSUME NEW t \in Threads, Checkout(t) PROVE Closing'
  BY <1>1 DEF Checkout
<1>2. ASSUME NEW t \in Threads,
             Exec(t) \/ Reread(t) \/ Begin(t) \/ Body(t) \/ Commit(t) \/ Rollback(t) \/ Start(t)
      PROVE  Closing'
  BY <1>2 DEF Exec, Reread, Begin, Body, Commit, Rollback, Start
<1>3. ASSUME NEW t \in Threads, Return(t) \/ Notify(t) \/ Spurious(t) PROVE Closing'
  BY <1>3 DEF Return, Notify, Spurious
<1>4. CASE CloseAll \/ Drain \/ WakeAll \/ UNCHANGED vars
  BY <1>4 DEF CloseAll, Drain, WakeAll, vars
<1>5. QED
  BY <1>1, <1>2, <1>3, <1>4 DEF Next, Step

LEMMA IInvAlways == Spec => []IInv
<1>1. Init => IInv
  <2>1. Init => Closing /\ Wakeups
    BY DEF Init, Closing, Wakeups
  <2>2. QED
    BY <2>1, InvInit DEF IInv
<1>2. IInv /\ [Next]_vars => IInv'
  <2>1. IInv /\ [Next]_vars => Inv' /\ TypeOK'
    BY InvStep DEF IInv, Inv
  <2>2. QED
    BY <2>1, WakeupsStep, ClosingStep DEF IInv
<1>3. QED
  BY <1>1, <1>2, PTL DEF Spec

\* No wakeup is lost: notify_one after the unlock in Checkout::drop is enough
\* for the waiters of Pool::checkout, and close_all leaves none behind.
THEOREM WakeupsNotLost == Spec => []NoLostWakeup
<1>1. IInv => NoLostWakeup
  BY DEF IInv, Wakeups, Closing, NoLostWakeup, Inv, TypeOK
<1>2. QED
  BY IInvAlways, <1>1, PTL

-----------------------------------------------------------------------------
(* Refinement                                                              *)

LEMMA StoreInit == Init => Store!Init
BY DEF Init, Store!Init

\* Who is on an open transaction's connection outside Pool::transaction is on a
\* stuck one.
LEMMA Joins ==
  ASSUME Inv, NEW t \in Threads, pc[t] \in {"exec", "reread"}, writer = conn[t]
  PROVE  stuck
BY DbPoolAssumption DEF Inv, Guards, Holding, Lock, StrayOnlyIfStuck, Insiders, InTx, Conservation

LEMMA StoreStep == Inv /\ [Next]_vars => [Store!Next]_(Store!vars)
<1> SUFFICES ASSUME Inv, [Next]_vars PROVE Store!Next \/ UNCHANGED Store!vars
  OBVIOUS
<1> USE DEF Inv, TypeOK, Report, Leave, Goto, poolVars, txVars, dbVars, Store!vars,
            Store!Pending, Store!Tell
<1>1. ASSUME NEW t \in Threads, Start(t) PROVE Store!Issue(t)
  BY <1>1 DEF Start, Store!Issue, Guards, Unanswered
<1>2. ASSUME NEW t \in Threads, Checkout(t)
      PROVE  Store!Refuse(t) \/ UNCHANGED Store!vars
  BY <1>2 DEF Checkout, Store!Refuse, Guards, Unanswered, Effects
<1>3. ASSUME NEW t \in Threads, Exec(t)
      PROVE  Store!Take(t) \/ Store!Apply(t) \/ Store!Refuse(t) \/ Store!Lose(t)
             \/ UNCHANGED Store!vars
  <2>1. result[t] = "none" /\ t \notin durable /\ (writer = conn[t] => stuck)
    BY <1>3, Joins DEF Exec, Guards, Unanswered, Effects
  <2>2. CASE result' = result
    BY <1>3, <2>1, <2>2 DEF Exec, Store!Apply
  <2>3. CASE result'[t] = "ok"
    BY <1>3, <2>1, <2>3 DEF Exec, Store!Take, Store!Lose
  <2>4. CASE result'[t] = "err"
    BY <1>3, <2>1, <2>4 DEF Exec, Spoil, Discard, Store!Refuse
  <2>5. QED
    BY <1>3, <2>2, <2>3, <2>4 DEF Exec
<1>4. ASSUME NEW t \in Threads, Reread(t)
      PROVE  Store!Echo(t) \/ Store!Refuse(t) \/ Store!Lose(t)
  <2>1. result[t] = "none" /\ op[t] = "echo" /\ (t \notin durable => stuck)
    BY <1>4, Joins DEF Reread, Guards, Unanswered, Effects
  <2>2. CASE t \in durable
    <3>1. UNCHANGED <<stuck, durable, op>>
      BY <1>4, <2>2 DEF Reread, Spoil, Effects
    <3>2. QED
      BY <1>4, <2>1, <2>2, <3>1 DEF Reread, Store!Echo
  <2>3. CASE t \notin durable
    BY <1>4, <2>1, <2>3 DEF Reread, Spoil, Discard, Store!Refuse, Store!Lose
  <2>4. QED
    BY <2>2, <2>3
<1>5. ASSUME NEW t \in Threads, Begin(t)
      PROVE  Store!Refuse(t) \/ UNCHANGED Store!vars
  BY <1>5 DEF Begin, Store!Refuse, Guards, Unanswered, Effects
<1>6. ASSUME NEW t \in Threads, Commit(t)
      PROVE  Store!Take(t) \/ UNCHANGED Store!vars
  \* Only this thread's writes are in its transaction.
  <2>1. pending = {t} /\ ~stuck
    BY <1>6 DEF Commit, Lock, StrayOnlyIfStuck, Insiders, InTx, Conservation, Guards, Holding
  <2>2. QED
    <3>1. result[t] = "none" /\ op[t] = "tx" /\ UNCHANGED op
      BY <1>6 DEF Commit, Guards, Unanswered, Running
    <3>2. CASE Discard /\ durable' = durable \cup pending /\ result' = [result EXCEPT ![t] = "ok"]
      BY <2>1, <3>1, <3>2 DEF Discard, Store!Take
    <3>3. CASE Spoil(conn[t]) /\ UNCHANGED <<result, durable>>
      BY <2>1, <3>1, <3>3 DEF Spoil, Discard
    <3>4. QED
      BY <1>6, <3>2, <3>3 DEF Commit
<1>7. ASSUME NEW t \in Threads, Rollback(t) PROVE Store!Refuse(t)
  BY <1>7 DEF Rollback, Discard, Store!Refuse, Guards, Unanswered, Effects
<1>8. ASSUME NEW t \in Threads, Body(t)
      PROVE  Store!Free \/ UNCHANGED Store!vars
  BY <1>8 DEF Body, Spoil, Discard, Store!Free
<1>9. ASSUME NEW t \in Threads, Spurious(t) \/ Return(t) \/ Notify(t)
      PROVE  Store!Free \/ UNCHANGED Store!vars
  <2>1. CASE Spurious(t) \/ Notify(t)
    BY <2>1 DEF Spurious, Notify
  <2>2. CASE Return(t)
    <3>1. result[t] # "none" /\ UNCHANGED <<result, durable>> /\ stuck' \in {stuck, FALSE}
      BY <2>2 DEF Return, Close, Discard, Guards, Unanswered
    <3>2. \A u \in Threads : u # t => op'[u] = op[u]
      BY <2>2 DEF Return
    <3>3. {u \in Threads : op'[u] = "echo" /\ result'[u] = "none"}
            = {u \in Threads : op[u] = "echo" /\ result[u] = "none"}
      BY <3>1, <3>2
    <3>4. QED
      BY <3>1, <3>3 DEF Store!Free
  <2>3. QED
    BY <1>9, <2>1, <2>2
<1>10. CASE CloseAll \/ Drain \/ WakeAll \/ UNCHANGED vars
  <2>1. UNCHANGED <<op, result, durable>> /\ stuck' \in {stuck, FALSE}
    BY <1>10 DEF CloseAll, Drain, WakeAll, vars, Close, Discard
  <2>2. CASE stuck' = stuck
    BY <2>1, <2>2
  <2>3. CASE stuck' # stuck
    <3>1. stuck /\ stuck' = FALSE
      BY <2>1, <2>3
    <3>2. Store!Free
      BY <2>1, <3>1 DEF Store!Free
    <3>3. QED
      BY <3>2 DEF Store!Next
  <2>4. QED
    BY <2>2, <2>3
<1>11. QED
  BY <1>1, <1>2, <1>3, <1>4, <1>5, <1>6, <1>7, <1>8, <1>9, <1>10
     DEF Next, Step, Store!Next

\* Every operation on the pool is all or nothing, and the caller is told which,
\* but for the two exceptions of AtomicStore: a failing read-back, and a write
\* that joins a transaction whose ROLLBACK has failed.
THEOREM PoolImplementsStore == Spec => StoreSpec
BY InvAlways, StoreInit, StoreStep, PTL DEF Spec, StoreSpec, Store!Spec
=============================================================================
