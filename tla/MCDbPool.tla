------------------------------ MODULE MCDbPool ------------------------------
(* Three callers compete for two connections, as the workers and the       *)
(* cleanup threads do: the pool has one connection per worker.             *)
EXTENDS DbPool
=============================================================================
