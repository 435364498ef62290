------------------------------ MODULE MCWebhook ------------------------------
(* Two workers and three events: a subscription event, one that retrieves  *)
(* the subscription, and a subscription event that names no customer, so   *)
(* that it is refused for ever beside the others.  For the claim about the *)
(* record two subscription events are enough.                              *)
EXTENDS Webhook

MCKind == <<"snapshot", "fetch", "snapshot">>
MCPayload == <<{"customer"}, {"customer"}, {}>>
SnapshotsKind == <<"snapshot", "snapshot">>
SnapshotsPayload == <<{"customer"}, {"customer"}>>
=============================================================================
