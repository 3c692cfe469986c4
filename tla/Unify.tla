-------------------------------- MODULE Unify --------------------------------
(* cluster/unify: every name is in the namespace (the last child), a file is  *)
(* also on one storage node, a directory on all of them.  Private state:      *)
(* list and listnew (the inode contexts of the two names: where the file is,  *)
(* in the order it was found, << >> for none), fdchild (the fd's context, 0   *)
(* for none), optimist, self_heal, generation (inode_generation), dirgen (the *)
(* generation kept in the directory's context), num_child_up and is_up.  The  *)
(* scheduler's choice is l.sched, 0 for none.                                 *)
EXTENDS UnifySelfHeal

ListOf(l) == {l.list[i] : i \in DOMAIN l.list}
OnStorage(x, list) == {list[i] : i \in DOMAIN list} \ {NS(x)}
Dir(x) == x.kind = "dir"

unify_loc_subvol(x) ==
    LET on == {i \in DOMAIN x.list : x.list[i] # NS(x)}
    IN  IF Dir(x) \/ on = {} THEN NS(x) ELSE x.list[First(on)]

(* The callbacks that hand the child's answer up. *)
PassOn(x, l, r) == Unwind(x, l, r.op_ret, r.op_errno)

unify_access_cbk(x, l, w, r) == PassOn(x, l, r)
unify_opendir_cbk(x, l, w, r) == PassOn(x, l, r)
unify_readlink_cbk(x, l, w, r) == PassOn(x, l, r)
unify_readv_cbk(x, l, w, r) == PassOn(x, l, r)
unify_writev_cbk(x, l, w, r) == PassOn(x, l, r)
unify_flush_cbk(x, l, w, r) == PassOn(x, l, r)
unify_fsync_cbk(x, l, w, r) == PassOn(x, l, r)
unify_getdents_cbk(x, l, w, r) == PassOn(x, l, r)
unify_readdir_cbk(x, l, w, r) == PassOn(x, l, r)
unify_fsyncdir_cbk(x, l, w, r) == PassOn(x, l, r)
unify_lk_cbk(x, l, w, r) == PassOn(x, l, r)
unify_checksum_cbk(x, l, w, r) == PassOn(x, l, r)
unify_finodelk_cbk(x, l, w, r) == PassOn(x, l, r)
unify_fentrylk_cbk(x, l, w, r) == PassOn(x, l, r)
unify_fxattrop_cbk(x, l, w, r) == PassOn(x, l, r)
unify_inodelk_cbk(x, l, w, r) == PassOn(x, l, r)
unify_entrylk_cbk(x, l, w, r) == PassOn(x, l, r)
unify_xattrop_cbk(x, l, w, r) == PassOn(x, l, r)

(* To the namespace alone. *)
unify_access(x, l) == Wind(x, l, {NS(x)}, "access", "unify_access_cbk")
unify_opendir(x, l) == Wind(x, l, {NS(x)}, "opendir", "unify_opendir_cbk")
unify_getdents(x, l) == Wind(x, l, {NS(x)}, "getdents_any", "unify_getdents_cbk")
unify_readdir(x, l) == Wind(x, l, {NS(x)}, "readdir", "unify_readdir_cbk")
unify_fsyncdir(x, l) == Wind(x, l, {NS(x)}, "fsyncdir", "unify_fsyncdir_cbk")
unify_checksum(x, l) == Wind(x, l, {NS(x)}, "checksum", "unify_checksum_cbk")

(* To the storage node the fd was opened on. *)
ToOpened(x, l, op, cbk) ==
    IF x.fdchild = 0 THEN Fail(x, l, "EBADFD") ELSE Wind(x, l, {x.fdchild}, op, cbk)

unify_readv(x, l) == ToOpened(x, l, "readv", "unify_readv_cbk")
unify_writev(x, l) == ToOpened(x, l, "writev", "unify_writev_cbk")
unify_flush(x, l) == ToOpened(x, l, "flush", "unify_flush_cbk")
unify_fsync(x, l) == ToOpened(x, l, "fsync", "unify_fsync_cbk")
unify_lk(x, l) == ToOpened(x, l, "lk", "unify_lk_cbk")
unify_finodelk(x, l) == ToOpened(x, l, "finodelk", "unify_finodelk_cbk")
unify_fentrylk(x, l) == ToOpened(x, l, "fentrylk", "unify_fentrylk_cbk")
unify_fxattrop(x, l) == ToOpened(x, l, "fxattrop", "unify_fxattrop_cbk")

unify_inodelk(x, l) == Wind(x, l, {unify_loc_subvol(x)}, "inodelk", "unify_inodelk_cbk")
unify_entrylk(x, l) == Wind(x, l, {unify_loc_subvol(x)}, "entrylk", "unify_entrylk_cbk")
unify_xattrop(x, l) == Wind(x, l, {unify_loc_subvol(x)}, "xattrop", "unify_xattrop_cbk")

(* ---- attributes ---- *)

(* Any success is success; so is ENOENT for an optimist.  It takes the inode  *)
(* number (st_ino), known in advance or from the namespace's reply.           *)
unify_buf_cbk(x, l, w, r) ==
    LET k == [l EXCEPT !.call_count = @ - 1,
                       !.op_errno = IF Ok(r) THEN @ ELSE r.op_errno,
                       !.op_ret = IF Ok(r) \/ (x.optimist /\ r.op_errno = "ENOENT") THEN 0 ELSE @,
                       !.st_ino = @ \/ (Ok(r) /\ w.to = NS(x))]
    IN  IF k.call_count # 0 THEN Wait(x, k)
        ELSE IF k.st_ino THEN UnwindLocal(x, k) ELSE Fail(x, k, k.op_errno)

KnownIno(l) == [l EXCEPT !.st_ino = TRUE]

(* A directory's attributes change everywhere, a file's where the file is. *)
SetAttr(x, l, op) ==
    WindCounted(x, KnownIno(l), IF Dir(x) THEN Children(x) ELSE {x.list[i] : i \in DOMAIN x.list},
                op, "unify_buf_cbk")

unify_chmod(x, l) == SetAttr(x, l, "chmod")
unify_chown(x, l) == SetAttr(x, l, "chown")
unify_utimens(x, l) == SetAttr(x, l, "utimens")
unify_stat(x, l) ==
    WindCounted(x, KnownIno(l), IF Dir(x) THEN {NS(x)} ELSE {x.list[i] : i \in DOMAIN x.list},
                "stat", "unify_buf_cbk")

FdAttr(x, l, op) == WindCounted(x, KnownIno(l), {x.fdchild, NS(x)} \ {0}, op, "unify_buf_cbk")

unify_fchmod(x, l) == FdAttr(x, l, "fchmod")
unify_fchown(x, l) == FdAttr(x, l, "fchown")
unify_fstat(x, l) == FdAttr(x, l, "fstat")

(* truncate and ftruncate fail when any child fails, ENOENT aside for an      *)
(* optimist; the namespace is only asked for its attributes.                  *)
unify_truncate_cbk(x, l, w, r) ==
    LET k == [l EXCEPT !.call_count = @ - 1,
                       !.op_errno = IF Ok(r) THEN @ ELSE r.op_errno,
                       !.op_ret = IF Ok(r) \/ (x.optimist /\ r.op_errno = "ENOENT") THEN @ ELSE -1,
                       !.st_ino = @ \/ (Ok(r) /\ w.to = NS(x))]
    IN  IF k.call_count # 0 THEN Wait(x, k)
        ELSE IF k.st_ino THEN UnwindLocal(x, k) ELSE Fail(x, k, k.op_errno)

unify_truncate(x, l) ==
    LET k == [KnownIno(l) EXCEPT !.op_ret = 0, !.call_count = Len(x.list)]
    IN  IF Dir(x) THEN WindCounted(x, KnownIno(l), {NS(x)}, "stat", "unify_buf_cbk")
        ELSE Result(x, k, {Call(NS(x), "stat", "unify_truncate_cbk", 0)}
                     \cup {Call(c, "truncate", "unify_truncate_cbk", 0) : c \in OnStorage(x, x.list)},
               <<>>)

unify_ftruncate(x, l) ==
    IF x.fdchild = 0 THEN Fail(x, l, "EBADFD")
    ELSE Result(x, [l EXCEPT !.op_ret = 0, !.call_count = 2],
                {Call(x.fdchild, "ftruncate", "unify_truncate_cbk", 0),
                 Call(NS(x), "fstat", "unify_truncate_cbk", 0)}, <<>>)

unify_statfs_cbk(x, l, w, r) ==
    LET k == [l EXCEPT !.call_count = @ - 1,
                       !.op_ret = IF Ok(r) THEN r.op_ret ELSE @,
                       !.op_errno = IF Ok(r) THEN @ ELSE r.op_errno]
    IN  IF k.call_count = 0 THEN UnwindLocal(x, k) ELSE Wait(x, k)

unify_statfs(x, l) == WindCounted(x, l, Storage(x), "statfs", "unify_statfs_cbk")

(* ---- extended attributes: on the storage nodes ---- *)

(* failed starts out true and is cleared by any success.  A file written      *)
(* through a directory's attribute (l.content) that no storage node has yet   *)
(* is made in the namespace and then on the scheduled node.                   *)
unify_setxattr_cbk(x, l, w, r) ==
    LET k == [l EXCEPT !.call_count = @ - 1,
                       !.failed = @ /\ ~Ok(r),
                       !.op_ret = IF Ok(r) THEN r.op_ret ELSE @,
                       !.op_errno = IF Ok(r) THEN @ ELSE r.op_errno]
    IN  IF k.call_count # 0 THEN Wait(x, k)
        ELSE IF k.failed /\ k.content
          THEN WindCounted(x, k, {NS(x)}, "setxattr", "unify_setxattr_file_cbk")
        ELSE UnwindLocal(x, k)

unify_setxattr_file_cbk(x, l, w, r) ==
    LET k == [l EXCEPT !.failed = FALSE, !.op_ret = 0, !.op_errno = "0"]
    IN  IF ~Ok(r) THEN PassOn(x, l, r)
        ELSE IF l.sched = 0 THEN Fail(x, k, "ENOTCONN")
        ELSE WindCounted(x, k, {l.sched}, "setxattr", "unify_setxattr_cbk")

OnStorageOr(x, l, op, cbk, errno) ==
    LET on == IF Dir(x) THEN Storage(x) ELSE OnStorage(x, x.list)
    IN  IF on = {} THEN Fail(x, l, errno) ELSE WindCounted(x, l, on, op, cbk)

unify_setxattr(x, l) ==
    OnStorageOr(x, [l EXCEPT !.failed = TRUE], "setxattr", "unify_setxattr_cbk", "ENOENT")
unify_getxattr(x, l) == OnStorageOr(x, l, "getxattr", "unify_getxattr_cbk", "ENODATA")
unify_removexattr(x, l) == OnStorageOr(x, l, "removexattr", "unify_removexattr_cbk", "ENOENT")

AnySuccess(x, l, r) ==
    LET k == [l EXCEPT !.call_count = @ - 1,
                       !.op_ret = IF Ok(r) THEN r.op_ret ELSE @,
                       !.op_errno = IF Ok(r) THEN @ ELSE r.op_errno]
    IN  IF k.call_count = 0 THEN UnwindLocal(x, k) ELSE Wait(x, k)

unify_getxattr_cbk(x, l, w, r) == AnySuccess(x, l, r)
unify_removexattr_cbk(x, l, w, r) == AnySuccess(x, l, r)
(* ---- lookup ---- *)

(* A file found before is asked for where it was found; a directory, and      *)
(* anything not found before, everywhere.  The generation kept for a          *)
(* directory is not read back: inode_generation stays 0.                      *)
unify_lookup(x, l) ==
    IF ~Dir(x) /\ x.list # <<>>
      THEN IF Len(x.list) < 2 THEN Fail(x, l, "ESTALE")
           ELSE WindCounted(x, [l EXCEPT !.revalidate = TRUE, !.list = x.list],
                            {x.list[i] : i \in DOMAIN x.list}, "lookup", "unify_lookup_cbk")
      ELSE WindCounted(x, l, Children(x), "lookup", "unify_lookup_cbk")

(* stbuf is what the frame knows of the name: "none", "file" or "dir". *)
Stat(x, l, w, t) ==
    IF w.to = NS(x) THEN IF t = "dir" \/ l.stbuf = "none" THEN t ELSE l.stbuf
    ELSE IF t = "dir" THEN l.stbuf ELSE t

LookupReply(x, l, w, r) ==
    LET t == IF r.e.t = "dir" THEN "dir" ELSE "file"
    IN  IF Ok(r)
          THEN [l EXCEPT !.call_count = @ - 1, !.op_ret = 0,
                         !.return_eio = @ \/ (l.stbuf # "none" /\ l.stbuf # t),
                         !.list = IF ~l.revalidate /\ t = "file" THEN Append(@, w.to) ELSE @,
                         !.st_ino = @ \/ w.to = NS(x),
                         !.stbuf = Stat(x, l, w, t)]
        ELSE IF r.op_errno \notin {"ENOTCONN", "ENOENT"}
                \/ (l.revalidate /\ ~(x.optimist /\ r.op_errno = "ENOENT"))
          THEN [l EXCEPT !.call_count = @ - 1, !.op_errno = r.op_errno, !.failed = TRUE]
        ELSE [l EXCEPT !.call_count = @ - 1]

unify_lookup_cbk(x, l, w, r) ==
    LET k == LookupReply(x, l, w, r)
        found == k.stbuf # "none"
        y == [x EXCEPT !.list = IF found /\ ~k.revalidate /\ k.stbuf = "file" THEN k.list ELSE @,
                       !.generation = IF found /\ Dir(x) /\ k.failed /\ x.self_heal # "off"
                                      THEN @ + 1 ELSE @]
        op_ret == IF ~found \/ (k.failed /\ k.revalidate) THEN -1 ELSE k.op_ret
        done == [k EXCEPT !.op_ret = op_ret]
    IN  IF k.call_count # 0 THEN Wait(x, k)
        ELSE IF k.return_eio THEN Fail(x, k, "EIO")
        ELSE IF x.self_heal # "off" /\ ~x.optimist /\ ~k.revalidate /\ op_ret = 0 /\ k.stbuf = "dir"
          THEN zr_unify_self_heal(y, done)
        ELSE UnwindLocal(y, done)

(* ---- directories: in the namespace first, then on every storage node ---- *)

unify_mkdir(x, l) == Wind(x, l, {NS(x)}, "mkdir", "unify_ns_mkdir_cbk")

unify_ns_mkdir_cbk(x, l, w, r) ==
    IF ~Ok(r) THEN PassOn(x, l, r)
    ELSE WindCounted(x, [l EXCEPT !.op_ret = 0], Storage(x), "mkdir", "unify_mkdir_cbk")

(* The answer is already success; the generation is recorded only when no     *)
(* node failed.                                                               *)
unify_mkdir_cbk(x, l, w, r) ==
    LET counts == ~Ok(r) /\ ~(x.optimist /\ r.op_errno \in {"ENOENT", "EEXIST"})
        k == [l EXCEPT !.call_count = @ - 1,
                       !.failed = @ \/ (counts /\ r.op_errno # "EEXIST"),
                       !.op_errno = IF counts THEN r.op_errno ELSE @]
    IN  IF k.call_count # 0 THEN Wait(x, k)
        ELSE UnwindLocal(IF k.failed THEN x ELSE [x EXCEPT !.dirgen = x.generation], k)

unify_rmdir(x, l) == Wind(x, l, {NS(x)}, "rmdir", "unify_ns_rmdir_cbk")

unify_ns_rmdir_cbk(x, l, w, r) ==
    IF ~Ok(r) THEN PassOn(x, l, r) ELSE WindCounted(x, l, Storage(x), "rmdir", "unify_rmdir_cbk")

AnyGone(x, l, r) ==
    LET k == [l EXCEPT !.call_count = @ - 1,
                       !.op_ret = IF Ok(r) \/ (x.optimist /\ r.op_errno = "ENOENT") THEN 0 ELSE @,
                       !.op_errno = IF Ok(r) THEN @ ELSE r.op_errno]
    IN  IF k.call_count = 0 THEN UnwindLocal(x, k) ELSE Wait(x, k)

unify_rmdir_cbk(x, l, w, r) == AnyGone(x, l, r)
unify_unlink_cbk(x, l, w, r) == AnyGone(x, l, r)

unify_unlink(x, l) ==
    IF x.list = <<>> THEN Fail(x, l, "ENOENT")
    ELSE WindCounted(x, l, {x.list[i] : i \in DOMAIN x.list}, "unlink", "unify_unlink_cbk")

unify_readlink(x, l) ==
    IF Len(x.list) < 2 THEN Fail(x, l, "ENOENT")
    ELSE Wind(x, l, {unify_loc_subvol(x)}, "readlink", "unify_readlink_cbk")

(* ---- open: in the namespace and on the last storage node of the list ---- *)

LastOnStorage(x, list) ==
    list[CHOOSE i \in DOMAIN list : /\ list[i] # NS(x)
                                    /\ \A j \in DOMAIN list : list[j] # NS(x) => j <= i]

unify_open(x, l) ==
    IF Len(x.list) < 2 THEN Fail(x, l, "EIO")
    ELSE WindCounted(x, l, {NS(x), LastOnStorage(x, x.list)}, "open", "unify_open_cbk")

unify_open_cbk(x, l, w, r) ==
    LET y == IF Ok(r) /\ w.to # NS(x) THEN [x EXCEPT !.fdchild = w.to] ELSE x
        k == [l EXCEPT !.call_count = @ - 1,
                       !.op_ret = IF Ok(r) THEN r.op_ret ELSE @,
                       !.op_errno = IF Ok(r) THEN @ ELSE r.op_errno,
                       !.failed = @ \/ ~Ok(r)]
    IN  IF k.call_count # 0 THEN Wait(y, k)
        ELSE IF k.failed THEN Fail(y, k, k.op_errno) ELSE UnwindLocal(y, k)
(* ---- create ---- *)

UndoInNamespace(x, l, cbk) == WindCounted(x, l, {NS(x)}, "unlink", cbk)

unify_create_unlink_cbk(x, l, w, r) == UnwindLocal(x, l)

unify_create(x, l) == Wind(x, l, {NS(x)}, "create_excl", "unify_ns_create_cbk")

(* A new name goes to the scheduled node; a name that exists, without O_EXCL, *)
(* is looked up everywhere and opened.  With no node to schedule the mapping   *)
(* list is left as it was allocated: the second entry is 0, the first child.   *)
unify_ns_create_cbk(x, l, w, r) ==
    LET y == [x EXCEPT !.list = <<NS(x), l.sched>>]
        none == [x EXCEPT !.list = <<NS(x), 1>>]
    IN  IF ~Ok(r) /\ (r.op_errno # "EEXIST" \/ l.excl) THEN PassOn(x, l, r)
        ELSE IF ~Ok(r) THEN WindCounted(x, l, Children(x), "lookup", "unify_create_lookup_cbk")
        ELSE IF l.sched = 0
          THEN UndoInNamespace(none, [l EXCEPT !.op_errno = "ENOTCONN"], "unify_create_unlink_cbk")
        ELSE Wind(y, l, {l.sched}, "create", "unify_create_cbk")

unify_create_cbk(x, l, w, r) ==
    IF Ok(r) THEN Unwind([x EXCEPT !.fdchild = w.to], [l EXCEPT !.op_ret = 0], 0, l.op_errno)
    ELSE UndoInNamespace(x, [l EXCEPT !.op_errno = r.op_errno], "unify_create_unlink_cbk")

unify_create_lookup_cbk(x, l, w, r) ==
    LET k == [l EXCEPT !.call_count = @ - 1,
                       !.op_errno = IF Ok(r) THEN @ ELSE r.op_errno,
                       !.failed = @ \/ ~Ok(r),
                       !.list = IF Ok(r) THEN Append(@, w.to) ELSE @]
        y == [x EXCEPT !.list = k.list]
        file_list == IF Len(k.list) = 2 THEN ListOf(k) ELSE {NS(x), LastOnStorage(x, k.list)}
    IN  IF k.call_count # 0 THEN Wait(x, k)
        ELSE IF Len(k.list) < 2 THEN Fail(y, k, "EIO")
        ELSE WindCounted(y, k, file_list, "open", "unify_create_open_cbk")

(* The fd's context is read where unify_open_cbk sets it, failed is still set *)
(* from the lookups, and the namespace's success clears it.  A failure undoes *)
(* the creation in the namespace, although the name was there before.         *)
unify_create_open_cbk(x, l, w, r) ==
    LET k == [l EXCEPT !.call_count = @ - 1,
                       !.op_ret = IF Ok(r) THEN r.op_ret ELSE @,
                       !.op_errno = IF Ok(r) THEN @ ELSE r.op_errno,
                       !.failed = IF ~Ok(r) THEN TRUE ELSE @ /\ w.to # NS(x)]
        undo == [k EXCEPT !.op_ret = -1, !.op_errno = "EIO", !.call_count = 1]
    IN  IF k.call_count # 0 THEN Wait(x, k)
        ELSE IF k.failed /\ k.op_ret >= 0
          THEN Wind(x, undo, {IF x.fdchild # 0 THEN x.fdchild ELSE NS(x)}, "unlink",
                    "unify_create_unlink_cbk")
        ELSE UnwindLocal(x, k)

(* ---- mknod and symlink: in the namespace, then on the scheduled node ---- *)

Scheduled(x, l, r, op, cbk, unlink_cbk) ==
    LET k == [l EXCEPT !.op_ret = 0]
    IN  IF ~Ok(r) THEN PassOn(x, l, r)
        ELSE IF l.sched = 0
          THEN UndoInNamespace([x EXCEPT !.list = <<NS(x)>>], [k EXCEPT !.op_errno = "ENOTCONN"],
                               unlink_cbk)
        ELSE Wind([x EXCEPT !.list = <<NS(x), l.sched>>], k, {l.sched}, op, cbk)

MadeOrUndone(x, l, r, unlink_cbk) ==
    IF Ok(r) THEN PassOn(x, l, r)
    ELSE UndoInNamespace(x, [l EXCEPT !.op_errno = r.op_errno], unlink_cbk)

unify_mknod(x, l) == Wind(x, l, {NS(x)}, "mknod", "unify_ns_mknod_cbk")
unify_ns_mknod_cbk(x, l, w, r) ==
    Scheduled(x, l, r, "mknod", "unify_mknod_cbk", "unify_mknod_unlink_cbk")
(* Mutant: the storage child's failure does not matter. *)
unify_mknod_cbk_blind(x, l, w, r) == Unwind(x, l, 0, "0")

unify_mknod_cbk(x, l, w, r) == MadeOrUndone(x, l, r, "unify_mknod_unlink_cbk")
unify_mknod_unlink_cbk(x, l, w, r) == Fail(x, l, l.op_errno)

unify_symlink(x, l) == Wind(x, l, {NS(x)}, "symlink", "unify_ns_symlink_cbk")
unify_ns_symlink_cbk(x, l, w, r) ==
    Scheduled(x, l, r, "symlink", "unify_symlink_cbk", "unify_symlink_unlink_cbk")
unify_symlink_cbk(x, l, w, r) == MadeOrUndone(x, l, r, "unify_symlink_unlink_cbk")
unify_symlink_unlink_cbk(x, l, w, r) == Fail(x, l, l.op_errno)

(* ---- rename ---- *)

unify_rename(x, l) ==
    Wind(x, [l EXCEPT !.list = x.list], {NS(x)}, "rename", "unify_ns_rename_cbk")

unify_ns_rename_cbk(x, l, w, r) ==
    LET on == IF Dir(x) THEN Storage(x) ELSE OnStorage(x, l.list)
    IN  IF ~Ok(r) THEN PassOn(x, l, r)
        ELSE IF on = {} THEN Fail(x, l, "EIO")
        ELSE WindCounted(x, l, on, "rename", "unify_rename_cbk")

(* A file that no storage node could rename is renamed back in the namespace; *)
(* a file that was replaced is unlinked on the nodes that held only it.       *)
unify_rename_cbk(x, l, w, r) ==
    LET k == [l EXCEPT !.call_count = @ - 1,
                       !.op_ret = IF Ok(r) THEN r.op_ret ELSE @,
                       !.op_errno = IF Ok(r) THEN @ ELSE r.op_errno]
        replaced == OnStorage(x, x.listnew) \ ListOf(l)
    IN  IF k.call_count # 0 THEN Wait(x, k)
        ELSE IF Dir(x) THEN UnwindLocal(x, k)
        ELSE IF k.op_ret = -1 THEN Wind(x, k, {NS(x)}, "rename_back", "unify_ns_rename_undo_cbk")
        ELSE IF replaced # {}
          THEN WindCounted(x, k, replaced, "unlink_new", "unify_rename_unlink_cbk")
        ELSE UnwindLocal(x, k)

unify_ns_rename_undo_cbk(x, l, w, r) == UnwindLocal(x, l)

unify_rename_unlink_cbk(x, l, w, r) ==
    LET k == [l EXCEPT !.call_count = @ - 1]
    IN  IF k.call_count = 0 THEN UnwindLocal(x, k) ELSE Wait(x, k)

(* ---- link: every storage node's answer is unwound ---- *)

unify_link(x, l) == Wind(x, [l EXCEPT !.list = x.list], {NS(x)}, "link", "unify_ns_link_cbk")

unify_ns_link_cbk(x, l, w, r) ==
    IF ~Ok(r) THEN PassOn(x, l, r)
    ELSE Wind(x, [l EXCEPT !.op_ret = 0], OnStorage(x, l.list), "link", "unify_link_cbk")

unify_link_cbk(x, l, w, r) == PassOn(x, l, r)

(* ---- notify: the namespace's events reach only the scheduler ---- *)

unify_init(x) == [x EXCEPT !.generation = 1, !.num_child_up = 0, !.is_up = FALSE]

unify_notify(x, c, up) ==
    LET num == IF up THEN x.num_child_up + 1 ELSE x.num_child_up - 1
    IN  IF c = NS(x) THEN x
        ELSE [x EXCEPT !.num_child_up = num,
                       !.generation = IF up THEN @ + 1 ELSE @,
                       !.is_up = IF up THEN TRUE ELSE @ /\ num # 0]
UnifyFops == {"lookup", "stat", "chmod", "chown", "utimens", "truncate", "ftruncate",
               "fchmod", "fchown", "fstat", "access", "opendir", "readdir", "getdents",
               "fsyncdir", "checksum", "readv", "writev", "flush", "fsync", "lk",
               "finodelk", "fentrylk", "fxattrop", "inodelk", "entrylk", "xattrop",
               "statfs", "setxattr", "getxattr", "removexattr", "mkdir", "rmdir", "unlink",
               "readlink", "open", "create", "mknod", "symlink", "rename", "link"}

(* ---- dispatch on the fop and on the callback ---- *)
UnifyFop(x, l) ==
    CASE l.fop = "lookup" -> unify_lookup(x, l)
      [] l.fop = "stat" -> unify_stat(x, l)
      [] l.fop = "chmod" -> unify_chmod(x, l)
      [] l.fop = "chown" -> unify_chown(x, l)
      [] l.fop = "utimens" -> unify_utimens(x, l)
      [] l.fop = "truncate" -> unify_truncate(x, l)
      [] l.fop = "ftruncate" -> unify_ftruncate(x, l)
      [] l.fop = "fchmod" -> unify_fchmod(x, l)
      [] l.fop = "fchown" -> unify_fchown(x, l)
      [] l.fop = "fstat" -> unify_fstat(x, l)
      [] l.fop = "access" -> unify_access(x, l)
      [] l.fop = "opendir" -> unify_opendir(x, l)
      [] l.fop = "readdir" -> unify_readdir(x, l)
      [] l.fop = "getdents" -> unify_getdents(x, l)
      [] l.fop = "fsyncdir" -> unify_fsyncdir(x, l)
      [] l.fop = "checksum" -> unify_checksum(x, l)
      [] l.fop = "readv" -> unify_readv(x, l)
      [] l.fop = "writev" -> unify_writev(x, l)
      [] l.fop = "flush" -> unify_flush(x, l)
      [] l.fop = "fsync" -> unify_fsync(x, l)
      [] l.fop = "lk" -> unify_lk(x, l)
      [] l.fop = "finodelk" -> unify_finodelk(x, l)
      [] l.fop = "fentrylk" -> unify_fentrylk(x, l)
      [] l.fop = "fxattrop" -> unify_fxattrop(x, l)
      [] l.fop = "inodelk" -> unify_inodelk(x, l)
      [] l.fop = "entrylk" -> unify_entrylk(x, l)
      [] l.fop = "xattrop" -> unify_xattrop(x, l)
      [] l.fop = "statfs" -> unify_statfs(x, l)
      [] l.fop = "setxattr" -> unify_setxattr(x, l)
      [] l.fop = "getxattr" -> unify_getxattr(x, l)
      [] l.fop = "removexattr" -> unify_removexattr(x, l)
      [] l.fop = "mkdir" -> unify_mkdir(x, l)
      [] l.fop = "rmdir" -> unify_rmdir(x, l)
      [] l.fop = "unlink" -> unify_unlink(x, l)
      [] l.fop = "readlink" -> unify_readlink(x, l)
      [] l.fop = "open" -> unify_open(x, l)
      [] l.fop = "create" -> unify_create(x, l)
      [] l.fop = "mknod" -> unify_mknod(x, l)
      [] l.fop = "symlink" -> unify_symlink(x, l)
      [] l.fop = "rename" -> unify_rename(x, l)
      [] l.fop = "link" -> unify_link(x, l)

UnifyCbk(x, l, w, r) ==
    CASE w.cbk = "unify_access_cbk" -> unify_access_cbk(x, l, w, r)
      [] w.cbk = "unify_opendir_cbk" -> unify_opendir_cbk(x, l, w, r)
      [] w.cbk = "unify_readlink_cbk" -> unify_readlink_cbk(x, l, w, r)
      [] w.cbk = "unify_readv_cbk" -> unify_readv_cbk(x, l, w, r)
      [] w.cbk = "unify_writev_cbk" -> unify_writev_cbk(x, l, w, r)
      [] w.cbk = "unify_flush_cbk" -> unify_flush_cbk(x, l, w, r)
      [] w.cbk = "unify_fsync_cbk" -> unify_fsync_cbk(x, l, w, r)
      [] w.cbk = "unify_getdents_cbk" -> unify_getdents_cbk(x, l, w, r)
      [] w.cbk = "unify_readdir_cbk" -> unify_readdir_cbk(x, l, w, r)
      [] w.cbk = "unify_fsyncdir_cbk" -> unify_fsyncdir_cbk(x, l, w, r)
      [] w.cbk = "unify_lk_cbk" -> unify_lk_cbk(x, l, w, r)
      [] w.cbk = "unify_checksum_cbk" -> unify_checksum_cbk(x, l, w, r)
      [] w.cbk = "unify_finodelk_cbk" -> unify_finodelk_cbk(x, l, w, r)
      [] w.cbk = "unify_fentrylk_cbk" -> unify_fentrylk_cbk(x, l, w, r)
      [] w.cbk = "unify_fxattrop_cbk" -> unify_fxattrop_cbk(x, l, w, r)
      [] w.cbk = "unify_inodelk_cbk" -> unify_inodelk_cbk(x, l, w, r)
      [] w.cbk = "unify_entrylk_cbk" -> unify_entrylk_cbk(x, l, w, r)
      [] w.cbk = "unify_xattrop_cbk" -> unify_xattrop_cbk(x, l, w, r)
      [] w.cbk = "unify_buf_cbk" -> unify_buf_cbk(x, l, w, r)
      [] w.cbk = "unify_truncate_cbk" -> unify_truncate_cbk(x, l, w, r)
      [] w.cbk = "unify_statfs_cbk" -> unify_statfs_cbk(x, l, w, r)
      [] w.cbk = "unify_setxattr_cbk" -> unify_setxattr_cbk(x, l, w, r)
      [] w.cbk = "unify_setxattr_file_cbk" -> unify_setxattr_file_cbk(x, l, w, r)
      [] w.cbk = "unify_getxattr_cbk" -> unify_getxattr_cbk(x, l, w, r)
      [] w.cbk = "unify_removexattr_cbk" -> unify_removexattr_cbk(x, l, w, r)
      [] w.cbk = "unify_lookup_cbk" -> unify_lookup_cbk(x, l, w, r)
      [] w.cbk = "unify_ns_mkdir_cbk" -> unify_ns_mkdir_cbk(x, l, w, r)
      [] w.cbk = "unify_mkdir_cbk" -> unify_mkdir_cbk(x, l, w, r)
      [] w.cbk = "unify_ns_rmdir_cbk" -> unify_ns_rmdir_cbk(x, l, w, r)
      [] w.cbk = "unify_rmdir_cbk" -> unify_rmdir_cbk(x, l, w, r)
      [] w.cbk = "unify_unlink_cbk" -> unify_unlink_cbk(x, l, w, r)
      [] w.cbk = "unify_open_cbk" -> unify_open_cbk(x, l, w, r)
      [] w.cbk = "unify_create_unlink_cbk" -> unify_create_unlink_cbk(x, l, w, r)
      [] w.cbk = "unify_ns_create_cbk" -> unify_ns_create_cbk(x, l, w, r)
      [] w.cbk = "unify_create_cbk" -> unify_create_cbk(x, l, w, r)
      [] w.cbk = "unify_create_lookup_cbk" -> unify_create_lookup_cbk(x, l, w, r)
      [] w.cbk = "unify_create_open_cbk" -> unify_create_open_cbk(x, l, w, r)
      [] w.cbk = "unify_ns_mknod_cbk" -> unify_ns_mknod_cbk(x, l, w, r)
      [] w.cbk = "unify_mknod_cbk" -> unify_mknod_cbk(x, l, w, r)
      [] w.cbk = "unify_mknod_unlink_cbk" -> unify_mknod_unlink_cbk(x, l, w, r)
      [] w.cbk = "unify_ns_symlink_cbk" -> unify_ns_symlink_cbk(x, l, w, r)
      [] w.cbk = "unify_symlink_cbk" -> unify_symlink_cbk(x, l, w, r)
      [] w.cbk = "unify_symlink_unlink_cbk" -> unify_symlink_unlink_cbk(x, l, w, r)
      [] w.cbk = "unify_ns_rename_cbk" -> unify_ns_rename_cbk(x, l, w, r)
      [] w.cbk = "unify_rename_cbk" -> unify_rename_cbk(x, l, w, r)
      [] w.cbk = "unify_ns_rename_undo_cbk" -> unify_ns_rename_undo_cbk(x, l, w, r)
      [] w.cbk = "unify_rename_unlink_cbk" -> unify_rename_unlink_cbk(x, l, w, r)
      [] w.cbk = "unify_ns_link_cbk" -> unify_ns_link_cbk(x, l, w, r)
      [] w.cbk = "unify_link_cbk" -> unify_link_cbk(x, l, w, r)
      [] w.cbk = "unify_sh_setdents_cbk" -> unify_sh_setdents_cbk(x, l, w, r)
      [] w.cbk = "unify_bgsh_setdents_cbk" -> unify_bgsh_setdents_cbk(x, l, w, r)
      [] w.cbk = "unify_sh_ns_getdents_cbk" -> unify_sh_ns_getdents_cbk(x, l, w, r)
      [] w.cbk = "unify_bgsh_ns_getdents_cbk" -> unify_bgsh_ns_getdents_cbk(x, l, w, r)
      [] w.cbk = "unify_sh_ns_setdents_cbk" -> unify_sh_ns_setdents_cbk(x, l, w, r)
      [] w.cbk = "unify_bgsh_ns_setdents_cbk" -> unify_bgsh_ns_setdents_cbk(x, l, w, r)
      [] w.cbk = "unify_sh_getdents_cbk" -> unify_sh_getdents_cbk(x, l, w, r)
      [] w.cbk = "unify_bgsh_getdents_cbk" -> unify_bgsh_getdents_cbk(x, l, w, r)
      [] w.cbk = "unify_sh_opendir_cbk" -> unify_sh_opendir_cbk(x, l, w, r)
      [] w.cbk = "unify_bgsh_opendir_cbk" -> unify_bgsh_opendir_cbk(x, l, w, r)
      [] w.cbk = "unify_sh_checksum_cbk" -> unify_sh_checksum_cbk(x, l, w, r)
      [] w.cbk = "unify_bgsh_checksum_cbk" -> unify_bgsh_checksum_cbk(x, l, w, r)
=============================================================================
