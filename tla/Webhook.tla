------------------------------- MODULE Webhook -------------------------------
(***************************************************************************)
(* POST /api/payment: Stripe tells the server what happened to one         *)
(* customer's subscription (routes::payment, process_webhook,              *)
(* apply_sub_patch and the WebhookEvents table).                           *)
(*                                                                         *)
(* Stripe (external) changes the subscription and emits one event per      *)
(* change: event e announces version e.  It delivers each event at least   *)
(* once, in any order, several at a time, until it has seen a 2xx answer.  *)
(* Every event has an id; not every payload leads to an e-mail, by which    *)
(* the user is found.                                                      *)
(* A delivery is served by a worker: look the event up in the table of     *)
(* processed ones, ask Stripe for what the event needs, write the user's   *)
(* row, record the event, answer.  Every pool or Stripe call is a step.    *)
(* The server may crash between any two; the tables survive.               *)
(***************************************************************************)
EXTENDS Naturals

CONSTANTS Handlers,     \* the workers
          LastEvent,    \* Stripe emits the events 1 .. LastEvent
          Kind,         \* the kind of each event, see Kinds
          Payload,      \* which of Parts the payload of each event holds
          MaxFaults     \* bound on failures, lost answers, crashes and repeats

Events == 1..LastEvent

\* "snapshot": customer.subscription.*, the payload holds the subscription.
\* "fetch": checkout.session.completed and invoice.paid, which retrieve it.
\* "notice": invoice.payment_failed, which writes nothing.
Kinds == {"snapshot", "fetch", "notice"}

\* "customer": the ids of the customer and, to be retrieved, the subscription.
\* "email": the address itself, in the customer_email of a checkout session.
Parts == {"customer", "email"}

ASSUME WebhookAssumption == /\ LastEvent \in Nat
                            /\ Kind \in [Events -> Kinds]
                            /\ Payload \in [Events -> SUBSET Parts]
                            /\ \A e \in Events : "email" \in Payload[e] => Kind[e] = "fetch"
                            /\ MaxFaults \in Nat

VARIABLES current,      \* the subscription's version at Stripe
          email,        \* the customer has an e-mail at Stripe
          acked,        \* events Stripe has seen a 2xx answer for
          retired,      \* acked events Stripe will never deliver again
          user,         \* a user with the customer's email exists
          version,      \* the version in the user's row
          recorded,     \* the WebhookEvents table
          stage,        \* where each worker stands
          event,        \* the event it serves
          patch,        \* the version it is about to write
          handled,      \* history: events process_webhook returned Ok for
          applied,      \* history: events whose version reached the row
          faults        \* number of faults so far

stripeVars == <<current, email, acked, retired>>
dbVars == <<user, version, recorded>>
history == <<handled, applied>>
webhookVars == <<stripeVars, dbVars, stage, event, patch, history, faults>>

\* "accept" and "refuse": the answer, 2xx or an error, is on its way.
Stages == {"free", "lookup", "fetch", "apply", "record", "accept", "refuse"}

Move(h, l) == stage' = [stage EXCEPT ![h] = l]
Fault == faults < MaxFaults /\ faults' = faults + 1
NoFault == UNCHANGED faults

WebhookInit == /\ current = 0 /\ email \in BOOLEAN /\ acked = {} /\ retired = {}
               /\ user \in BOOLEAN /\ version = 0 /\ recorded = {}
               /\ stage = [h \in Handlers |-> "free"]
               /\ event = [h \in Handlers |-> 0]
               /\ patch = [h \in Handlers |-> 0]
               /\ handled = {} /\ applied = {}
               /\ faults = 0

-----------------------------------------------------------------------------
(* Stripe and the user                                                     *)

\* The subscription changes and an event announces it.
Emit == /\ current < LastEvent
        /\ current' = current + 1
        /\ UNCHANGED <<email, acked, retired, dbVars, stage, event, patch, history, faults>>

\* The customer's e-mail is entered, or removed.
SetEmail == /\ email' = ~email
            /\ IF email THEN Fault ELSE NoFault
            /\ UNCHANGED <<current, acked, retired, dbVars, stage, event, patch, history>>

\* An event is delivered: first, again while unanswered, or once too often.
Deliver(h, e) ==
    /\ stage[h] = "free"
    /\ e <= current
    /\ \/ e \notin acked /\ NoFault
       \/ e \in acked \ retired /\ Fault
    /\ event' = [event EXCEPT ![h] = e]
    /\ Move(h, "lookup")
    /\ UNCHANGED <<stripeVars, dbVars, patch, history>>

\* Stripe's redelivery window is over (about three days).
Retire(e) == /\ e \in acked \ retired
             /\ \A h \in Handlers : event[h] # e
             /\ retired' = retired \cup {e}
             /\ UNCHANGED <<current, email, acked, dbVars, stage, event, patch, history, faults>>

\* The customer signs up after having paid.
Signup == /\ ~user
          /\ user' = TRUE
          /\ UNCHANGED <<stripeVars, version, recorded, stage, event, patch, history, faults>>

-----------------------------------------------------------------------------
(* One delivery                                                            *)

\* Faulty variant: the event is recorded before its effect is applied.
LookupRecords(h) ==
    /\ stage[h] = "lookup"
    /\ Move(h, IF event[h] \in recorded THEN "accept" ELSE "fetch")
    /\ recorded' = recorded \cup {event[h]}
    /\ UNCHANGED <<stripeVars, user, version, event, patch, history, faults>>

\* Faulty variant: a recorded event is refused as a duplicate.
LookupRefuses(h) ==
    /\ stage[h] = "lookup"
    /\ Move(h, IF event[h] \in recorded THEN "refuse" ELSE "fetch")
    /\ UNCHANGED <<stripeVars, dbVars, event, patch, history, faults>>

\* find_webhook_event: skip what is recorded; 500 when the lookup fails.
Lookup(h) ==
    /\ stage[h] = "lookup"
    /\ \/ event[h] \in recorded /\ Move(h, "accept") /\ NoFault
       \/ event[h] \notin recorded /\ Move(h, "fetch") /\ NoFault
       \/ Move(h, "refuse") /\ Fault
    /\ UNCHANGED <<stripeVars, dbVars, event, patch, history>>

\* The user the event is about can be told.
Resolved(e) == "customer" \in Payload[e] /\ (email \/ "email" \in Payload[e])

\* process_webhook up to apply_sub_patch.  A subscription event without a
\* customer, or whose customer has no e-mail, is refused, on every delivery; any
\* other event that leads to no user is passed over as if it had succeeded.  A
\* failing call to Stripe or the pool is answered with an error.
Fetch(h) ==
    /\ stage[h] = "fetch"
    /\ LET e == event[h] IN
       \/ /\ Kind[e] # "notice" /\ Resolved(e)
          /\ patch' = [patch EXCEPT ![h] = IF Kind[e] = "fetch" THEN current ELSE e]
          /\ Move(h, "apply")
          /\ NoFault /\ UNCHANGED handled
       \/ /\ Kind[e] = "snapshot" /\ ~Resolved(e)
          /\ Move(h, "refuse")
          /\ NoFault /\ UNCHANGED <<patch, handled>>
       \/ /\ Kind[e] = "notice" \/ (Kind[e] = "fetch" /\ ~Resolved(e))
          /\ Move(h, "record")
          /\ handled' = handled \cup {e}
          /\ NoFault /\ UNCHANGED patch
       \/ /\ "customer" \in Payload[e]
          /\ Move(h, "refuse")
          /\ Fault /\ UNCHANGED <<patch, handled>>
    /\ UNCHANGED <<stripeVars, dbVars, event, applied>>

\* apply_sub_patch: find the user, replace the subscription columns.  Its
\* result only decides what is logged: a missing user and a failed write are
\* passed over.
Apply(h) ==
    /\ stage[h] = "apply"
    /\ Move(h, "record")
    /\ handled' = handled \cup {event[h]}
    /\ patch' = [patch EXCEPT ![h] = 0]
    /\ \/ /\ user
          /\ version' = patch[h]
          /\ applied' = applied \cup {event[h]}
          /\ NoFault
       \/ ~user /\ NoFault /\ UNCHANGED <<version, applied>>
       \/ Fault /\ UNCHANGED <<version, applied>>
    /\ UNCHANGED <<stripeVars, user, recorded, event>>

\* insert_webhook_event: a second insert hits the UNIQUE key; a failure is
\* logged.  Either way the answer is 200.
Record(h) ==
    /\ stage[h] = "record"
    /\ Move(h, "accept")
    /\ \/ recorded' = recorded \cup {event[h]} /\ NoFault
       \/ UNCHANGED recorded /\ Fault
    /\ UNCHANGED <<stripeVars, user, version, event, patch, history>>

\* The answer reaches Stripe, or is lost or too late.
Answer(h) ==
    /\ stage[h] \in {"accept", "refuse"}
    /\ Move(h, "free")
    /\ event' = [event EXCEPT ![h] = 0]
    /\ \/ /\ acked' = IF stage[h] = "accept" THEN acked \cup {event[h]} ELSE acked
          /\ NoFault
       \/ UNCHANGED acked /\ Fault
    /\ UNCHANGED <<current, email, retired, dbVars, patch, history>>

\* run_webhook_cleanup: forget what Stripe no longer delivers (30 days).
Prune == /\ recorded \cap retired # {}
         /\ recorded' = recorded \ retired
         /\ UNCHANGED <<stripeVars, user, version, stage, event, patch, history, faults>>

\* The process dies and is started again: the deliveries in flight are gone.
Crash == /\ \E h \in Handlers : stage[h] # "free"
         /\ stage' = [h \in Handlers |-> "free"]
         /\ event' = [h \in Handlers |-> 0]
         /\ patch' = [h \in Handlers |-> 0]
         /\ Fault
         /\ UNCHANGED <<stripeVars, dbVars, history>>

Step(h) == Lookup(h) \/ Fetch(h) \/ Apply(h) \/ Record(h) \/ Answer(h)

WebhookNext == \/ Emit \/ SetEmail \/ Signup \/ Prune \/ Crash
               \/ \E h \in Handlers, e \in Events : Deliver(h, e)
               \/ \E e \in Events : Retire(e)
               \/ \E h \in Handlers : Step(h)

WebhookSpec == WebhookInit /\ [][WebhookNext]_webhookVars

\* Workers run, and Stripe retries an event until it has seen a 2xx.  A delivery
\* that finds all workers busy waits in the server's queue, so one that is free
\* time and again comes to it: hence the strong fairness.
Redeliver(e) == e \notin acked /\ \E h \in Handlers : Deliver(h, e)
FairSpec == /\ WebhookSpec
            /\ \A h \in Handlers : WF_webhookVars(Step(h))
            /\ \A e \in Events : SF_webhookVars(Redeliver(e))

-----------------------------------------------------------------------------
(* Properties                                                              *)

\* The shape of the state.
WebhookTypeOK == /\ current \in 0..LastEvent
                 /\ email \in BOOLEAN
                 /\ acked \subseteq Events /\ retired \subseteq acked
                 /\ user \in BOOLEAN
                 /\ version \in 0..LastEvent
                 /\ recorded \subseteq Events
                 /\ stage \in [Handlers -> Stages]
                 /\ event \in [Handlers -> 0..LastEvent]
                 /\ patch \in [Handlers -> 0..LastEvent]
                 /\ handled \subseteq Events /\ applied \subseteq handled
                 /\ faults \in 0..MaxFaults

\* No event is lost to a crash or a redelivery: what Stripe stops retrying, and
\* what the table makes later deliveries skip, went through process_webhook.
NoEventLost == acked \cup recorded \subseteq handled

\* Whatever fails on the way, no crash or lost answer leaves Stripe retrying for
\* ever: an event is acknowledged in the end, but for a subscription event that
\* names no customer, which never is, and one whose customer has no e-mail, which
\* is not until there is one.
Hopeless(e) == Kind[e] = "snapshot" /\ "customer" \notin Payload[e]
Waiting(e) == Kind[e] = "snapshot" /\ ~email
EveryEventAcked ==
    \A e \in Events : e <= current /\ ~Hopeless(e) ~> e \in acked \/ Waiting(e)

\* "The record can never claim an event was handled when it was not": the
\* effect of every recorded event that has one has reached the user's row.
RecordMeansApplied ==
    \A e \in recorded : Kind[e] # "notice" => e \in applied
=============================================================================
