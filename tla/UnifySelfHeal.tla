---------------------------- MODULE UnifySelfHeal ----------------------------
(* Self-heal of a directory in cluster/unify (unify-self-heal.c), started by  *)
(* a lookup of the directory.  The children of x are the storage nodes and,   *)
(* last, the namespace.  A checksum is the set of names it covers: the file   *)
(* checksums of the storage nodes are xor-ed, which is symmetric difference.  *)
(* Entries travel in batches of UNIFY_SELF_HEAL_GETDENTS_COUNT (Batch).       *)
EXTENDS CallFrame

Batch == 1

NS(x) == x.n
Storage(x) == 1 .. x.n - 1

Xor(a, b) == (a \ b) \cup (b \ a)

(* STACK_UNWIND of the lookup, or STACK_DESTROY of the background frame. *)
HealDone(x, l, bg) == IF bg THEN Wait(x, l) ELSE UnwindLocal(x, l)

(* The namespace is listed for directories once the storage nodes are done. *)
ListNamespace(x, l, cbk) ==
    Result(x, [l EXCEPT !.offset_list[1] = 0], {Call(NS(x), "getdents_dir", cbk, 1)}, <<>>)

(* Storage node index is through with one batch. *)
NextBatch(x, l, index, getdents_cbk, ns_getdents_cbk) ==
    IF l.count_list[index] >= Batch
      THEN Result(x, [l EXCEPT !.offset_list[index] = @ + Batch],
                  {Call(index, "getdents_heal", getdents_cbk, index)}, <<>>)
      ELSE LET k == [l EXCEPT !.call_count = @ - 1]
           IN  IF k.call_count = 0 THEN ListNamespace(x, k, ns_getdents_cbk) ELSE Wait(x, k)

(* The directories of the namespace were set on one storage node. *)
SetOnStorage(x, l, bg, ns_getdents_cbk) ==
    LET k == [l EXCEPT !.call_count = IF @ = 0 THEN 0 ELSE @ - 1]
    IN  IF l.call_count = 0 \/ k.call_count # 0 THEN Wait(x, k)
        ELSE IF k.final THEN HealDone(x, k, bg)
        ELSE IF k.count_list[1] >= Batch
          THEN Result(x, [k EXCEPT !.offset_list[1] = @ + Batch],
                      {Call(NS(x), "getdents_dir", ns_getdents_cbk, 1)}, <<>>)
        ELSE Wait(x, k)

unify_sh_setdents_cbk(x, l, w, r) == SetOnStorage(x, l, FALSE, "unify_sh_ns_getdents_cbk")
unify_bgsh_setdents_cbk(x, l, w, r) == SetOnStorage(x, l, TRUE, "unify_bgsh_ns_getdents_cbk")

(* One batch of the namespace's directories goes to every storage node. *)
NamespaceListed(x, l, r, setdents_cbk) ==
    LET k == [l EXCEPT !.entry_list[1] = r.dents, !.count_list[1] = Cardinality(r.dents),
                       !.final = @ \/ Cardinality(r.dents) < Batch,
                       !.call_count = x.n - 1]
    IN  Result(x, k, {Call(c, "setdents_dir", setdents_cbk, 1) : c \in Storage(x)}, <<>>)

(* Mutant: the heal ends when the namespace has been listed. *)
unify_sh_ns_getdents_cbk_end(x, l, w, r) == HealDone(x, l, FALSE)

unify_sh_ns_getdents_cbk(x, l, w, r) == NamespaceListed(x, l, r, "unify_sh_setdents_cbk")
unify_bgsh_ns_getdents_cbk(x, l, w, r) == NamespaceListed(x, l, r, "unify_bgsh_setdents_cbk")

unify_sh_ns_setdents_cbk(x, l, w, r) ==
    NextBatch(x, l, w.no, "unify_sh_getdents_cbk", "unify_sh_ns_getdents_cbk")
unify_bgsh_ns_setdents_cbk(x, l, w, r) ==
    NextBatch(x, l, w.no, "unify_bgsh_getdents_cbk", "unify_bgsh_ns_getdents_cbk")

(* A batch of a storage node's entries goes to the namespace, which adds the  *)
(* ones it lacks; an empty or failed listing ends that node.                  *)
StorageListed(x, l, w, r, setdents_cbk, ns_getdents_cbk) ==
    LET index == w.no
        k == [l EXCEPT !.call_count = @ - 1]
    IN  IF Ok(r) /\ r.dents # {}
          THEN Result(x, [l EXCEPT !.entry_list[index] = r.dents,
                                   !.count_list[index] = Cardinality(r.dents)],
                      {Call(NS(x), "setdents_new", setdents_cbk, index)}, <<>>)
        ELSE IF k.call_count = 0 THEN ListNamespace(x, k, ns_getdents_cbk)
        ELSE Wait(x, k)

unify_sh_getdents_cbk(x, l, w, r) ==
    StorageListed(x, l, w, r, "unify_sh_ns_setdents_cbk", "unify_sh_ns_getdents_cbk")
unify_bgsh_getdents_cbk(x, l, w, r) ==
    StorageListed(x, l, w, r, "unify_bgsh_ns_setdents_cbk", "unify_bgsh_ns_getdents_cbk")

(* Healing goes on only when the directory opened everywhere; the lookup      *)
(* succeeds in any case.                                                      *)
OpenedForHeal(x, l, r, bg, getdents_cbk) ==
    LET k == [l EXCEPT !.call_count = @ - 1,
                       !.op_ret = IF Ok(r) THEN r.op_ret ELSE @,
                       !.failed = @ \/ ~Ok(r)]
    IN  IF k.call_count # 0 THEN Wait(x, k)
        ELSE IF k.failed THEN HealDone(x, [k EXCEPT !.op_ret = 0, !.call_count = x.n], bg)
        ELSE Result(x, [k EXCEPT !.call_count = x.n - 1],
                    {Call(c, "getdents_heal", getdents_cbk, c) : c \in Storage(x)}, <<>>)

unify_sh_opendir_cbk(x, l, w, r) == OpenedForHeal(x, l, r, FALSE, "unify_sh_getdents_cbk")
unify_bgsh_opendir_cbk(x, l, w, r) == OpenedForHeal(x, l, r, TRUE, "unify_bgsh_getdents_cbk")

(* Files of all storage nodes together against the namespace's, directories   *)
(* of each storage node against the namespace's.  A failed checksum counts    *)
(* for nothing.                                                               *)
Summed(x, l, w, r, bg, opendir_cbk) ==
    LET j == [l EXCEPT !.call_count = @ - 1]
        k == IF ~Ok(r) THEN j
             ELSE IF w.to = NS(x) THEN [j EXCEPT !.ns_file = r.files, !.ns_dir = r.dirs]
             ELSE [j EXCEPT !.entry_count = TRUE,
                            !.dir_sum = IF l.entry_count THEN @ ELSE r.dirs,
                            !.file_sum = Xor(@, r.files),
                            !.failed = @ \/ (l.entry_count /\ l.dir_sum # r.dirs)]
        mismatch == k.failed \/ k.file_sum # k.ns_file \/ k.dir_sum # k.ns_dir
    IN  IF k.call_count # 0 THEN Wait(x, k)
        ELSE IF mismatch
          THEN WindCounted(x, [k EXCEPT !.op_ret = -1, !.failed = FALSE], Children(x),
                           "opendir", opendir_cbk)
        ELSE HealDone(x, k, bg)

unify_sh_checksum_cbk(x, l, w, r) == Summed(x, l, w, r, FALSE, "unify_sh_opendir_cbk")
unify_bgsh_checksum_cbk(x, l, w, r) == Summed(x, l, w, r, TRUE, "unify_bgsh_opendir_cbk")

(* The end of a successful lookup of a directory.  The background heal has a  *)
(* frame of its own and the lookup is answered at once.                       *)
zr_unify_self_heal(x, l) ==
    LET y == [x EXCEPT !.dirgen = x.generation]
        k == [l EXCEPT !.op_ret = 0, !.failed = FALSE, !.inode_generation = x.generation]
        start(cbk) == WindCounted(y, k, Children(x), "checksum", cbk)
    IN  IF l.inode_generation >= x.generation THEN UnwindLocal(x, l)
        ELSE IF x.self_heal = "foreground" THEN start("unify_sh_checksum_cbk")
        ELSE [start("unify_bgsh_checksum_cbk") EXCEPT
                 !.ans = <<[op_ret |-> l.op_ret, op_errno |-> l.op_errno]>>]
=============================================================================
