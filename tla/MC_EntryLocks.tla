--------------------------- MODULE MC_EntryLocks ---------------------------
(* Small instances of EntryLocks for TLC.                                  *)
EXTENDS EntryLocks, TLC

CONSTANTS c1, c2, t1, t2, a, b

Sym == Permutations({t1, t2}) \cup Permutations({c1, c2}) \cup Permutations({a, b})
=============================================================================
