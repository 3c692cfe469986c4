-------------------------- MODULE MC_ServerLocks --------------------------
(* Small instance of ServerLocks for TLC.                                  *)
EXTENDS ServerLocks

CONSTANTS c1, c2, c3, t1, t2
=============================================================================
