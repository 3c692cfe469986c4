----------------------------- MODULE PosixLocks -----------------------------
(***************************************************************************)
(* features/locks: the list of record locks of a file (the domain of fcntl *)
(* locks) and what is done to it.  A lock is                               *)
(*   [o, ty, s, e, blk, r, li]                                             *)
(* its owner, its type ("RD", "WR" or "UN"), its first and last byte,      *)
(* whether it is blocked, the request that waits for it and what the links *)
(* of its list node hold: "own" (they point at itself or into the list),   *)
(* "zero" (a node never initialised) or "stale" (a copy of a freed node).  *)
(***************************************************************************)
EXTENDS Integers, Sequences, FiniteSets, SequencesExt

CONSTANT LLONG_MAX

\* A length of 0 means up to the last byte there can be.
new_posix_lock(o, ty, start, len, r) ==
    [o |-> o, ty |-> ty, s |-> start, e |-> IF len = 0 THEN LLONG_MAX ELSE start + len - 1,
     blk |-> FALSE, r |-> r, li |-> "own"]

\* A lock enters the list at its end.
pl_insert_lock(list, l) == Append(list, [l EXCEPT !.li = "own"])

locks_overlap(l1, l2) == l1.e >= l2.s /\ l2.e >= l1.s

same_owner(l1, l2) == l1.o = l2.o

__delete_unlck_locks(list) == SelectSeq(list, LAMBDA l : l.ty # "UN")

\* The span of two locks, with the type and the owner of the second argument's lock.
add_locks(l1, l2, of) ==
    [of EXCEPT !.s = IF l1.s < l2.s THEN l1.s ELSE l2.s,
               !.e = IF l1.e > l2.e THEN l1.e ELSE l2.e,
               !.blk = FALSE, !.r = 0, !.li = "zero"]

\* Mutant: a byte is lost after the part taken out.
SubtractOneMore(big, small) ==
    LET copy == [small EXCEPT !.li = "stale"]
        left == [big EXCEPT !.e = small.s - 1]
        right == [big EXCEPT !.s = small.e + 2]
    IN  CASE big.s = small.s /\ big.e = small.e -> << [big EXCEPT !.ty = small.ty] >>
          [] small.s > big.s /\ small.e < big.e -> << left, copy, right >>
          [] small.s = big.s /\ small.e < big.e -> << right, copy >>
          [] small.s > big.s /\ small.e = big.e -> << left, copy >>

\* What is left of big when small, inside it, is taken out and put in its place.
subtract_locks(big, small) ==
    LET copy == [small EXCEPT !.li = "stale"]
        left == [big EXCEPT !.e = small.s - 1]
        right == [big EXCEPT !.s = small.e + 1]
    IN  CASE big.s = small.s /\ big.e = small.e -> << [big EXCEPT !.ty = small.ty] >>
          [] small.s > big.s /\ small.e < big.e -> << left, copy, right >>
          [] small.s = big.s /\ small.e < big.e -> << right, copy >>
          [] small.s > big.s /\ small.e = big.e -> << left, copy >>

\* The granted locks of anybody, of any type, that overlap a lock.
first_overlap(list, lock) ==
    {i \in DOMAIN list : ~list[i].blk /\ locks_overlap(list[i], lock)}

pl_is_lock_grantable(list, lock) ==
    \A i \in first_overlap(list, lock) :
        \/ lock.ty = "UN"
        \/ same_owner(list[i], lock)
        \/ lock.ty = "RD" /\ list[i].ty # "WR"

\* A lock enters the list, merged with those of its owner; m is [list, harm], and harm
\* is "sure" once a node with zero links has been unlinked, "maybe" after a stale one.
RECURSIVE __insert_and_merge(_, _)
__insert_and_merge(m, lock) ==
    LET list == m.list
        meets == {i \in DOMAIN list : /\ locks_overlap(list[i], lock)
                                      /\ \/ same_owner(list[i], lock)
                                         \/ lock.ty = "RD" /\ list[i].ty = "RD"}
        i == CHOOSE j \in meets : \A k \in meets : j <= k
        conf == list[i]
        rest == [m EXCEPT !.list = RemoveAt(list, i)]
        pieces == SelectSeq(subtract_locks(add_locks(lock, conf, conf), lock),
                            LAMBDA l : l.ty # "UN")
        harmed == [rest EXCEPT !.harm =
                      CASE lock.li = "zero" -> "sure"
                        [] lock.li = "stale" /\ @ = "no" -> "maybe"
                        [] OTHER -> @]
        merged == FoldLeft(LAMBDA acc, l : __insert_and_merge(acc, l), harmed, pieces)
    IN  IF m.harm = "sure" THEN m
        ELSE IF meets = {}
        THEN IF lock.ty = "UN" THEN m ELSE [m EXCEPT !.list = pl_insert_lock(list, lock)]
        ELSE IF ~same_owner(conf, lock) THEN [m EXCEPT !.list = pl_insert_lock(list, lock)]
        ELSE IF conf.ty = lock.ty THEN __insert_and_merge(rest, add_locks(lock, conf, lock))
        ELSE [merged EXCEPT !.list = __delete_unlck_locks(@)]

\* Blocked locks that meet no granted lock at all are tried, in order; g is
\* [list, harm, granted], where granted are the requests to be answered.
__grant_blocked_locks(list) ==
    LET free(l) == l.blk /\ first_overlap(list, l) = {}
        try(g, l) ==
            LET lock == [l EXCEPT !.blk = FALSE, !.r = 0]
                m == __insert_and_merge([list |-> g.list, harm |-> g.harm], lock)
            IN  IF pl_is_lock_grantable(g.list, lock)
                THEN [list |-> m.list, harm |-> m.harm, granted |-> << l.r >> \o g.granted]
                ELSE [g EXCEPT !.list = pl_insert_lock(@, l)]
    IN  FoldLeft(try, [list |-> SelectSeq(list, LAMBDA l : ~free(l)), harm |-> "no", granted |-> << >>],
                 SelectSeq(list, free))

\* A lock is taken, waited for or refused: [list, harm, ret].
pl_setlk(list, lock, can_block) ==
    LET m == __insert_and_merge([list |-> list, harm |-> "no"], [lock EXCEPT !.r = 0])
    IN  IF pl_is_lock_grantable(list, lock)
        THEN [list |-> m.list, harm |-> m.harm, ret |-> "granted"]
        ELSE IF can_block
        THEN [list |-> pl_insert_lock(list, [lock EXCEPT !.blk = TRUE]), harm |-> "no", ret |-> "waits"]
        ELSE [list |-> list, harm |-> "no", ret |-> "refused"]

\* All locks of an owner go, the ones it waits for included: their requests stay unanswered.
__delete_locks_of_owner(list, o) == SelectSeq(list, LAMBDA l : l.o # o)

\* May a region be read or written?  Locks that are only waited for count too.
__rw_allowable(list, region, op) ==
    \A i \in DOMAIN list :
        \/ ~locks_overlap(list[i], region)
        \/ same_owner(list[i], region)
        \/ op = "readv" /\ list[i].ty # "WR"

truncate_allowed(list, region) ==
    \A i \in first_overlap(list, region) : same_owner(list[i], region)
=============================================================================
