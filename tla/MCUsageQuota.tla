---------------------------- MODULE MCUsageQuota ----------------------------
(* Three concurrent requests of one user, the limits 0 (nothing is free), 1 *)
(* and 2, and a clock that passes the end of two windows.                   *)
EXTENDS UsageQuota, TLC

Symmetry == Permutations(Requests)
=============================================================================
