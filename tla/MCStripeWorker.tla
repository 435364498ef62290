--------------------------- MODULE MCStripeWorker ---------------------------
(* The worker with its constants from the configuration.                   *)
EXTENDS StripeWorker
=============================================================================
