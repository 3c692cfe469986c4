------------------------------- MODULE DhtLayout -------------------------------
(* cluster/dht's layouts.  A layout is the list of the hash ranges of a       *)
(* directory, one entry [xl, start, stop, err] per subvolume, in the order    *)
(* the replies were merged.  err is "ok" (0), "none" (-1: the directory is    *)
(* there, the range is not) or the errno of the failed call.                  *)
EXTENDS Integers, Sequences, FiniteSets
LOCAL INSTANCE SequencesExt

CONSTANT Top    \* the greatest hash, 0xffffffff in the code

ASSUME TopAssumption == Top \in Nat \ {0}

Space == Top + 1
LayoutEntry(xl, start, stop, err) == [xl |-> xl, start |-> start, stop |-> stop, err |-> err]

(* dht_layout_new(this, 1) with its subvolume: the layout of every file there. *)
dht_layout_for_subvol(c) == [gen |-> 0, list |-> <<LayoutEntry(c, 0, 0, "ok")>>]

(* The subvolume whose range holds the hash, 0 for none. *)
dht_layout_search(list, hash) ==
    LET hit == {i \in DOMAIN list : list[i].start <= hash /\ list[i].stop >= hash}
    IN  IF hit = {} THEN 0 ELSE list[CHOOSE i \in hit : \A j \in hit : i <= j].xl

(* dht_disk_layout_merge: the range the subvolume keeps on disk, << >> for none. *)
dht_disk_layout_merge(xl, lay) ==
    IF lay = <<>> THEN LayoutEntry(xl, 0, 0, "none") ELSE LayoutEntry(xl, lay[1], lay[2], "ok")

dht_layout_merge(list, xl, op_ret, op_errno, lay) ==
    Append(list, IF op_ret # 0 THEN LayoutEntry(xl, 0, 0, op_errno)
                 ELSE dht_disk_layout_merge(xl, lay))

(* The numbers behind the error names, which the sort compares. *)
ErrNo(err) == CASE err = "none" -> -1
                [] err = "ok" -> 0
                [] err = "ENOENT" -> 2
                [] err = "EIO" -> 5
                [] err = "EEXIST" -> 17
                [] err = "ENOTCONN" -> 107

dht_layout_entry_cmp(list, i, j) ==
    IF list[i].err # "ok" \/ list[j].err # "ok" THEN ErrNo(list[i].err) - ErrNo(list[j].err)
    ELSE list[i].start - list[j].start

dht_layout_entry_swap(list, i, j) == [list EXCEPT ![i] = list[j], ![j] = list[i]]

(* The exchange sort visits the pairs i < j in this order. *)
PairsInOrder(n) ==
    SetToSortSeq({p \in (1 .. n) \X (1 .. n) : p[1] < p[2]},
                 LAMBDA p, q : p[1] < q[1] \/ (p[1] = q[1] /\ p[2] < q[2]))

dht_layout_sort(list) ==
    FoldLeft(LAMBDA s, p : IF dht_layout_entry_cmp(s, p[1], p[2]) > 0
                           THEN dht_layout_entry_swap(s, p[1], p[2]) ELSE s,
             list, PairsInOrder(Len(list)))

(* Each good range is compared with the end of the one before it; the first   *)
(* with the end that would make the list cyclic.  All in 32-bit unsigned.     *)
dht_layout_anomalies(list) ==
    LET last_stop == (list[1].start - 1) % Space
        good == SelectSeq(list, LAMBDA e : e.err = "ok")
        prev_stop(i) == IF i = 1 THEN last_stop ELSE good[i - 1].stop
        next(i) == (prev_stop(i) + 1) % Space
        errs(S) == Cardinality({i \in DOMAIN list : list[i].err \in S})
        open == last_stop # prev_stop(Len(good) + 1) \/ good = <<>>
    IN  [holes |-> Cardinality({i \in DOMAIN good : next(i) < good[i].start})
                     + (IF open THEN 1 ELSE 0),
         overlaps |-> Cardinality({i \in DOMAIN good : next(i) > good[i].start}),
         missing |-> errs({"none", "ENOENT"}),
         down |-> errs({"ENOTCONN"}),
         misc |-> Len(list) - Len(good) - errs({"none", "ENOENT", "ENOTCONN"})]

(* The return value; the list is sorted in place. *)
dht_layout_normalize(list) ==
    LET a == dht_layout_anomalies(dht_layout_sort(list))
    IN  IF a.holes > 0 \/ a.overlaps > 0 THEN 1 ELSE 0

(* The range on disk against the one in the inode's layout. *)
dht_layout_dir_mismatch(list, xl, lay) ==
    LET at == {i \in DOMAIN list : list[i].xl = xl}
    IN  \/ at = {}
        \/ lay = <<>>
        \/ LET e == list[CHOOSE i \in at : \A j \in at : i <= j]
           IN  e.start # lay[1] \/ e.stop # lay[2]

(* dht_selfheal_fix_this_virgin: the range is cut into equal chunks for the   *)
(* subvolumes that hold the directory without a range, the last of which      *)
(* takes what the division leaves.                                            *)
Virgins(list) == {i \in DOMAIN list : list[i].err = "none"}
Chunk(cnt) == Top \div cnt
Turn(list, i) == Cardinality({j \in Virgins(list) : j <= i})

(* Mutant: the last chunk does not take what the division leaves. *)
dht_selfheal_fix_this_virgin_even(list) ==
    LET cnt == Cardinality(Virgins(list))
    IN  [i \in DOMAIN list |->
            IF i \notin Virgins(list) THEN list[i]
            ELSE [list[i] EXCEPT !.start = (Turn(list, i) - 1) * Chunk(cnt),
                                 !.stop = Turn(list, i) * Chunk(cnt) - 1]]

dht_selfheal_fix_this_virgin(list) ==
    LET cnt == Cardinality(Virgins(list))
    IN  [i \in DOMAIN list |->
            IF i \notin Virgins(list) THEN list[i]
            ELSE [list[i] EXCEPT !.start = (Turn(list, i) - 1) * Chunk(cnt),
                                 !.stop = IF Turn(list, i) = cnt THEN Top
                                          ELSE Turn(list, i) * Chunk(cnt) - 1]]
=============================================================================
