---------------------------- MODULE MC_FuseMount ----------------------------
(***************************************************************************)
(* The mount on a volume of at most one directory below the root and two   *)
(* files, with the requests of the kernel overlapping two at a time.       *)
(***************************************************************************)
EXTENDS FuseMount, TLC

Symmetry == Permutations(Frames)

E(par, name, ino) == [par |-> par, name |-> name, ino |-> ino]

\* A file and a directory; two names of one file, which a lookup of each finds at once.
MCVolumes == {{E(1, "a", 3)},
              {E(1, "a", 2), E(2, "a", 3)},
              {E(1, "a", 2), E(1, "b", 3), E(2, "b", 3)}}
=============================================================================
