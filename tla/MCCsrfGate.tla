----------------------------- MODULE MCCsrfGate -----------------------------
(* Two browsers, which may belong to one user or to two.                   *)
EXTENDS CsrfGate
=============================================================================
