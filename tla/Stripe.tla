-------------------------------- MODULE Stripe --------------------------------
(* cluster/stripe: a file is cut into blocks of stripe_size bytes that go     *)
(* round robin to the children; every child holds the whole namespace.  The   *)
(* private state used here: n children, up (priv->state), first_child_down,   *)
(* xattr_supported, stripe_size (the block size the path matches), and fdctx, *)
(* whether the fd carries its stripe size.                                    *)
EXTENDS CallFrame, TLC

nodes_down(x) == x.up # Children(x)

(* ---- callbacks ---- *)

(* stripe_common_cbk, _buf_cbk, _inode_cbk and the other pass-through ones. *)
stripe_common_cbk(x, l, w, r) == Unwind(x, l, r.op_ret, r.op_errno)
stripe_common_buf_cbk(x, l, w, r) == Unwind(x, l, r.op_ret, r.op_errno)
stripe_common_inode_cbk(x, l, w, r) == Unwind(x, l, r.op_ret, r.op_errno)
stripe_readlink_cbk(x, l, w, r) == Unwind(x, l, r.op_ret, r.op_errno)
stripe_getxattr_cbk(x, l, w, r) == Unwind(x, l, r.op_ret, r.op_errno)

(* One reply out of call_count: an error is remembered and ENOTCONN fails the *)
(* whole call; any success makes op_ret 0.                                    *)
Counted(l, r) ==
    [l EXCEPT !.call_count = @ - 1,
              !.op_errno = IF Ok(r) THEN @ ELSE r.op_errno,
              !.failed = @ \/ r.op_errno = "ENOTCONN",
              !.op_ret = IF Ok(r) THEN 0 ELSE @]

LastUnwinds(x, l) ==
    IF l.call_count # 0 THEN Wait(x, l)
    ELSE UnwindLocal(x, IF l.failed THEN [l EXCEPT !.op_ret = -1] ELSE l)

(* Mutant: a failed reply is answered at once. *)
stripe_stack_unwind_cbk_early(x, l, w, r) ==
    IF Ok(r) THEN LastUnwinds(x, Counted(l, r)) ELSE UnwindLocal(x, Counted(l, r))

stripe_stack_unwind_cbk(x, l, w, r) == LastUnwinds(x, Counted(l, r))
stripe_stack_unwind_buf_cbk(x, l, w, r) == LastUnwinds(x, Counted(l, r))
stripe_stack_unwind_inode_cbk(x, l, w, r) == LastUnwinds(x, Counted(l, r))
stripe_lk_cbk(x, l, w, r) == LastUnwinds(x, Counted(l, r))
stripe_stack_unwind_inode_lookup_cbk(x, l, w, r) == LastUnwinds(x, Counted(l, r))

(* Any success is a success, ENOTCONN is never remembered. *)
stripe_statfs_cbk(x, l, w, r) ==
    LET k == [l EXCEPT !.call_count = @ - 1,
                       !.op_errno = IF Ok(r) \/ r.op_errno = "ENOTCONN"
                                      THEN @ ELSE r.op_errno,
                       !.op_ret = IF Ok(r) THEN 0 ELSE @]
    IN  IF k.call_count = 0 THEN UnwindLocal(x, k) ELSE Wait(x, k)

(* op_ret starts at -2; one error is enough for -1. *)
stripe_stats_cbk(x, l, w, r) ==
    LET k == [l EXCEPT !.call_count = @ - 1,
                       !.op_errno = IF Ok(r) THEN @ ELSE r.op_errno,
                       !.op_ret = CASE ~Ok(r) -> -1
                                    [] Ok(r) /\ @ = -2 -> 0
                                    [] OTHER -> @]
    IN  IF k.call_count = 0 THEN UnwindLocal(x, k) ELSE Wait(x, k)

(* ---- namespace operations ---- *)

Everywhere(x, l, op, cbk) ==
    WindCounted(x, [l EXCEPT !.op_ret = -1], Children(x), op, cbk)
FirstChild(x, l, op, cbk) == Wind(x, l, {1}, op, cbk)

(* dir/reg go to every child, anything else lives on the first child only. *)
SendFopToAll(x, l, op, all_cbk, one_cbk) ==
    IF l.kind \in {"dir", "reg"} THEN Everywhere(x, l, op, all_cbk)
    ELSE FirstChild(x, l, op, one_cbk)

stripe_lookup(x, l) ==
    IF l.kind \in {"none", "dir", "reg"}
      THEN Everywhere(x, l, "lookup", "stripe_stack_unwind_inode_lookup_cbk")
      ELSE WindCounted(x, [l EXCEPT !.op_ret = -1], {1}, "lookup",
                       "stripe_stack_unwind_inode_lookup_cbk")

stripe_stat(x, l) ==
    SendFopToAll(x, l, "stat", "stripe_stack_unwind_buf_cbk", "stripe_common_buf_cbk")

BufFop(x, l, op) ==
    IF x.first_child_down THEN Fail(x, l, "ENOTCONN")
    ELSE SendFopToAll(x, l, op, "stripe_stack_unwind_buf_cbk", "stripe_common_buf_cbk")

stripe_chmod(x, l) == BufFop(x, l, "chmod")
stripe_chown(x, l) == BufFop(x, l, "chown")
stripe_truncate(x, l) == BufFop(x, l, "truncate")
stripe_utimens(x, l) == BufFop(x, l, "utimens")

stripe_statfs(x, l) ==
    WindCounted(x, [l EXCEPT !.op_ret = -1, !.op_errno = "ENOTCONN"],
                Children(x), "statfs", "stripe_statfs_cbk")

stripe_stats(x, l) ==
    WindCounted(x, [l EXCEPT !.op_ret = -2], Children(x), "stats", "stripe_stats_cbk")

(* rename and rmdir run on the first child and, when it agreed, on the rest. *)
FirstThenRest(x, l, op, cbk) ==
    IF x.first_child_down THEN Fail(x, l, "EIO")
    ELSE Wind(x, [l EXCEPT !.op_ret = -1, !.call_count = x.n], {1}, op, cbk)

stripe_rename(x, l) == FirstThenRest(x, l, "rename", "stripe_first_rename_cbk")
stripe_rmdir(x, l) == FirstThenRest(x, l, "rmdir", "stripe_first_rmdir_cbk")

stripe_first_rename_cbk(x, l, w, r) ==
    IF ~Ok(r) THEN Unwind(x, l, r.op_ret, r.op_errno)
    ELSE Wind(x, [l EXCEPT !.op_ret = 0, !.call_count = @ - 1],
              2 .. x.n, "rename", "stripe_stack_unwind_buf_cbk")

stripe_first_rmdir_cbk(x, l, w, r) ==
    IF ~Ok(r) THEN Unwind(x, l, r.op_ret, r.op_errno)
    ELSE Wind(x, [l EXCEPT !.call_count = @ - 1],
              2 .. x.n, "rmdir", "stripe_stack_unwind_cbk")

stripe_access(x, l) == FirstChild(x, l, "access", "stripe_common_cbk")

FirstChildFop(x, l, op, errno, cbk) ==
    IF x.first_child_down THEN Fail(x, l, errno) ELSE FirstChild(x, l, op, cbk)

stripe_readlink(x, l) == FirstChildFop(x, l, "readlink", "ENOTCONN", "stripe_readlink_cbk")
stripe_setxattr(x, l) == FirstChildFop(x, l, "setxattr", "ENOTCONN", "stripe_common_cbk")
stripe_removexattr(x, l) == FirstChildFop(x, l, "removexattr", "ENOTCONN", "stripe_common_cbk")
stripe_symlink(x, l) == FirstChildFop(x, l, "symlink", "EIO", "stripe_common_inode_cbk")
stripe_getxattr(x, l) == FirstChild(x, l, "getxattr", "stripe_getxattr_cbk")

stripe_unlink(x, l) ==
    IF x.first_child_down THEN Fail(x, l, "EIO")
    ELSE SendFopToAll(x, l, "unlink", "stripe_stack_unwind_cbk", "stripe_common_cbk")

stripe_mkdir(x, l) ==
    IF x.first_child_down THEN Fail(x, l, "EIO")
    ELSE Everywhere(x, l, "mkdir", "stripe_stack_unwind_inode_cbk")

stripe_link(x, l) ==
    IF x.first_child_down THEN Fail(x, l, "EIO")
    ELSE IF l.kind = "reg"
           THEN Everywhere(x, l, "link", "stripe_stack_unwind_inode_cbk")
           ELSE FirstChild(x, l, "link", "stripe_common_inode_cbk")

(* ---- creation: made on every child, then labelled, else unlinked ---- *)

(* Any error fails the creation; the files made elsewhere stay. *)
Made(l, r) ==
    [l EXCEPT !.call_count = @ - 1,
              !.op_errno = IF Ok(r) THEN @ ELSE r.op_errno,
              !.failed = @ \/ ~Ok(r),
              !.op_ret = IF Ok(r) THEN r.op_ret ELSE @]

(* Once every child has answered: label the pieces, or answer. *)
Label(x, k, cbk) ==
    IF k.op_ret # -1 /\ x.xattr_supported
      THEN WindCounted(x, k, Children(x), "setxattr", cbk)
      ELSE UnwindLocal(x, k)

stripe_mknod_ifreg_cbk(x, l, w, r) ==
    LET k == Made(l, r)
        f == IF k.failed THEN [k EXCEPT !.op_ret = -1] ELSE k
    IN  IF k.call_count # 0 THEN Wait(x, k)
        ELSE Label(x, f, "stripe_mknod_ifreg_setxattr_cbk")

stripe_create_cbk(x, l, w, r) ==
    LET k == Made(l, r)
        f == IF k.failed THEN [k EXCEPT !.op_ret = -1] ELSE k
        y == IF f.op_ret >= 0 THEN [x EXCEPT !.fdctx = TRUE] ELSE x
    IN  IF k.call_count # 0 THEN Wait(x, k)
        ELSE IF x.stripe_size = 0 THEN UnwindLocal(y, f)
        ELSE Label(y, f, "stripe_create_setxattr_cbk")

(* A label that could not be written takes the file back everywhere. *)
Labelled(x, l, r, cbk) ==
    LET k == [l EXCEPT !.call_count = @ - 1,
                       !.op_ret = IF Ok(r) THEN @ ELSE -1,
                       !.op_errno = IF Ok(r) THEN @ ELSE r.op_errno]
    IN  IF k.call_count # 0 THEN Wait(x, k)
        ELSE IF k.op_ret = -1 THEN WindCounted(x, k, Children(x), "unlink", cbk)
        ELSE UnwindLocal(x, k)

stripe_mknod_ifreg_setxattr_cbk(x, l, w, r) ==
    Labelled(x, l, r, "stripe_mknod_ifreg_fail_unlink_cbk")
stripe_create_setxattr_cbk(x, l, w, r) ==
    Labelled(x, l, r, "stripe_create_fail_unlink_cbk")

Unlinked(x, l) ==
    LET k == [l EXCEPT !.call_count = @ - 1]
    IN  IF k.call_count = 0 THEN UnwindLocal(x, k) ELSE Wait(x, k)

stripe_mknod_ifreg_fail_unlink_cbk(x, l, w, r) == Unlinked(x, l)
stripe_create_fail_unlink_cbk(x, l, w, r) == Unlinked(x, l)

stripe_mknod(x, l) ==
    LET k == [l EXCEPT !.op_ret = -1, !.op_errno = "ENOTCONN"]
    IN  IF x.first_child_down THEN Fail(x, l, "EIO")
        ELSE IF l.makes # "reg" THEN FirstChild(x, l, "mknod", "stripe_common_inode_cbk")
        ELSE IF nodes_down(x) THEN Fail(x, l, "EIO")
        ELSE WindCounted(x, k, Children(x), "mknod", "stripe_mknod_ifreg_cbk")

stripe_create(x, l) ==
    LET k == [l EXCEPT !.op_ret = -1, !.op_errno = "ENOTCONN"]
    IN  IF x.first_child_down \/ nodes_down(x) THEN Fail(x, l, "EIO")
        ELSE WindCounted(x, k, Children(x), "create", "stripe_create_cbk")

(* ---- open files and directories ---- *)

stripe_open(x, l) ==
    LET k == [l EXCEPT !.op_ret = 0]
    IN  IF x.first_child_down THEN Fail(x, l, "ENOTCONN")
        ELSE IF x.xattr_supported
               THEN WindCounted(x, k, Children(x), "getxattr", "stripe_open_getxattr_cbk")
               ELSE WindCounted(x, k, Children(x), "open", "stripe_open_cbk")

(* The open goes out whatever the labels' reads said. *)
stripe_open_getxattr_cbk(x, l, w, r) ==
    LET k == [l EXCEPT !.call_count = @ - 1,
                       !.op_ret = IF Ok(r) THEN @ ELSE -1,
                       !.op_errno = IF Ok(r) THEN @ ELSE r.op_errno,
                       !.failed = @ \/ r.op_errno = "ENOTCONN"]
    IN  IF k.call_count # 0 THEN Wait(x, k)
        ELSE WindCounted(x, k, Children(x), "open", "stripe_open_cbk")

Opened(l, r) ==
    [l EXCEPT !.call_count = @ - 1,
              !.failed = @ \/ ~Ok(r),
              !.op_ret = r.op_ret,
              !.op_errno = IF Ok(r) THEN @ ELSE r.op_errno]

stripe_open_cbk(x, l, w, r) ==
    LET k == Opened(l, r)
        f == IF k.failed THEN [k EXCEPT !.op_ret = -1] ELSE k
    IN  IF k.call_count # 0 THEN Wait(x, k)
        ELSE UnwindLocal(IF f.op_ret >= 0 THEN [x EXCEPT !.fdctx = TRUE] ELSE x, f)

stripe_opendir(x, l) ==
    IF x.first_child_down THEN Fail(x, l, "EIO")
    ELSE Everywhere(x, l, "opendir", "stripe_opendir_cbk")

(* failed is set and never read: the last reply decides. *)
stripe_opendir_cbk(x, l, w, r) ==
    LET k == Opened(l, r)
    IN  IF k.call_count = 0 THEN UnwindLocal(x, k) ELSE Wait(x, k)

stripe_lk(x, l) == Everywhere(x, l, "lk", "stripe_lk_cbk")
stripe_setdents(x, l) == Everywhere(x, l, "setdents", "stripe_stack_unwind_cbk")
stripe_flush(x, l) == Everywhere(x, l, "flush", "stripe_stack_unwind_cbk")
stripe_fsync(x, l) == Everywhere(x, l, "fsync", "stripe_stack_unwind_cbk")
stripe_fsyncdir(x, l) == Everywhere(x, l, "fsyncdir", "stripe_stack_unwind_cbk")
stripe_fstat(x, l) == Everywhere(x, l, "fstat", "stripe_stack_unwind_buf_cbk")
stripe_fchmod(x, l) == Everywhere(x, l, "fchmod", "stripe_stack_unwind_buf_cbk")
stripe_fchown(x, l) == Everywhere(x, l, "fchown", "stripe_stack_unwind_buf_cbk")
stripe_ftruncate(x, l) == Everywhere(x, l, "ftruncate", "stripe_stack_unwind_buf_cbk")

(* ---- data ---- *)

floor(a, s) == (a \div s) * s
roof(a, s) == ((a + s - 1) \div s) * s

(* Mutant: the round robin starts with the first child. *)
ReadPieces_first(x, offset, size) ==
    LET s == x.stripe_size
        at(i) == IF i = 1 THEN offset ELSE ((offset \div s) + i - 1) * s
        end(i) == IF ((at(i) \div s) + 1) * s < offset + size THEN ((at(i) \div s) + 1) * s ELSE offset + size
    IN  [i \in 1 .. ((offset + size - 1) \div s) - (offset \div s) + 1 |->
            [child |-> 1 + ((i - 1) % x.n), offset |-> at(i), size |-> end(i) - at(i)]]

(* The pieces of a read: piece i of num_stripe, the first on the child of the *)
(* first block and then round robin.                                          *)
ReadPieces(x, offset, size) ==
    LET s == x.stripe_size
        num_stripe == (roof(offset + size, s) - floor(offset, s)) \div s
        at(i) == IF i = 1 THEN offset ELSE floor(offset, s) + (i - 1) * s
        end(i) == IF roof(at(i) + 1, s) < offset + size
                    THEN roof(at(i) + 1, s) ELSE offset + size
    IN  [i \in 1 .. num_stripe |->
            [child |-> 1 + ((((offset \div s) % x.n) + i - 1) % x.n),
             offset |-> at(i), size |-> end(i) - at(i)]]

(* The piece of a write that starts at offset with remaining bytes to go. *)
WritePiece(x, offset, remaining) ==
    LET s == x.stripe_size
        fill_size == s - (offset % s)
    IN  [child |-> 1 + ((offset \div s) % x.n), offset |-> offset,
         size |-> IF fill_size > remaining THEN remaining ELSE fill_size]

stripe_readv(x, l) ==
    LET pieces == ReadPieces(x, l.offset, l.size)
    IN  IF ~x.fdctx THEN Fail(x, l, "EINVAL")
        ELSE Result(x, [l EXCEPT !.wind_count = Len(pieces), !.pieces = pieces],
                    {Call(pieces[i].child, "readv", "stripe_readv_cbk", i) :
                        i \in DOMAIN pieces}, <<>>)

(* Every piece is waited for; the lowest failing one gives the error. *)
stripe_readv_cbk(x, l, w, r) ==
    LET k == [l EXCEPT !.replies = @ @@ (w.no :> r), !.call_count = @ + 1]
        bad == {i \in DOMAIN k.replies : ~Ok(k.replies[i])}
    IN  IF k.call_count # k.wind_count THEN Wait(x, k)
        ELSE IF bad # {} THEN Unwind(x, k, -1, k.replies[First(bad)].op_errno)
        ELSE Unwind(x, k, l.size, "0")

(* One turn of the loop: count the piece, raise unwind on the last, wind it. *)
stripe_writev_wind(x, l) ==
    LET done == l.written
        p == WritePiece(x, l.offset + done, l.size - done)
        k == [l EXCEPT !.wind_count = @ + 1,
                       !.unwind = done + p.size = l.size,
                       !.written = done + p.size,
                       !.pieces = Append(@, p)]
    IN  Result(x, k, {Call(p.child, "writev", "stripe_writev_cbk", k.wind_count)}, <<>>)

stripe_writev(x, l) ==
    IF ~x.fdctx THEN Fail(x, l, "EINVAL") ELSE stripe_writev_wind(x, [l EXCEPT !.op_ret = 0])

(* Under the lock the reply is counted and added; callcnt is compared later. *)
stripe_writev_cbk(x, l, w, r) ==
    LET callcnt == l.call_count + 1
    IN  Wait(x, [l EXCEPT !.call_count = callcnt,
                          !.op_errno = IF Ok(r) THEN @ ELSE r.op_errno,
                          !.op_ret = IF Ok(r) THEN @ + l.pieces[w.no].size ELSE -1,
                          !.compare = @ \cup {[callcnt |-> callcnt, same |-> FALSE]}])

(* Outside the lock: callcnt == wind_count is read first, then unwind. *)
stripe_writev_compare(x, l, t) ==
    LET k == [l EXCEPT !.compare = @ \ {t}]
    IN  CASE ~t.same /\ t.callcnt = l.wind_count ->
                 Wait(x, [k EXCEPT !.compare = @ \cup {[t EXCEPT !.same = TRUE]}])
          [] t.same /\ l.unwind -> UnwindLocal(x, k)
          [] OTHER -> Wait(x, k)

(* ---- notify: up and down of a child ---- *)
stripe_init(x) == [x EXCEPT !.up = {}, !.first_child_down = FALSE]

stripe_notify(x, c, up) ==
    [x EXCEPT !.up = IF up THEN @ \cup {c} ELSE @ \ {c},
              !.first_child_down = IF c = 1 THEN ~up ELSE @]

StripeFops == {"lookup", "stat", "chmod", "chown", "truncate", "utimens", "statfs", "stats",
               "rename", "rmdir", "access", "readlink", "setxattr", "removexattr",
               "symlink", "getxattr", "unlink", "mkdir", "link", "mknod", "create", "open",
               "opendir", "lk", "setdents", "flush", "fsync", "fsyncdir", "fstat", "fchmod",
               "fchown", "ftruncate", "readv", "writev"}

(* ---- dispatch on the fop and on the callback ---- *)
StripeFop(x, l) ==
    CASE l.fop = "lookup" -> stripe_lookup(x, l)
      [] l.fop = "stat" -> stripe_stat(x, l)
      [] l.fop = "chmod" -> stripe_chmod(x, l)
      [] l.fop = "chown" -> stripe_chown(x, l)
      [] l.fop = "truncate" -> stripe_truncate(x, l)
      [] l.fop = "utimens" -> stripe_utimens(x, l)
      [] l.fop = "statfs" -> stripe_statfs(x, l)
      [] l.fop = "stats" -> stripe_stats(x, l)
      [] l.fop = "rename" -> stripe_rename(x, l)
      [] l.fop = "rmdir" -> stripe_rmdir(x, l)
      [] l.fop = "access" -> stripe_access(x, l)
      [] l.fop = "readlink" -> stripe_readlink(x, l)
      [] l.fop = "setxattr" -> stripe_setxattr(x, l)
      [] l.fop = "removexattr" -> stripe_removexattr(x, l)
      [] l.fop = "symlink" -> stripe_symlink(x, l)
      [] l.fop = "getxattr" -> stripe_getxattr(x, l)
      [] l.fop = "unlink" -> stripe_unlink(x, l)
      [] l.fop = "mkdir" -> stripe_mkdir(x, l)
      [] l.fop = "link" -> stripe_link(x, l)
      [] l.fop = "mknod" -> stripe_mknod(x, l)
      [] l.fop = "create" -> stripe_create(x, l)
      [] l.fop = "open" -> stripe_open(x, l)
      [] l.fop = "opendir" -> stripe_opendir(x, l)
      [] l.fop = "lk" -> stripe_lk(x, l)
      [] l.fop = "setdents" -> stripe_setdents(x, l)
      [] l.fop = "flush" -> stripe_flush(x, l)
      [] l.fop = "fsync" -> stripe_fsync(x, l)
      [] l.fop = "fsyncdir" -> stripe_fsyncdir(x, l)
      [] l.fop = "fstat" -> stripe_fstat(x, l)
      [] l.fop = "fchmod" -> stripe_fchmod(x, l)
      [] l.fop = "fchown" -> stripe_fchown(x, l)
      [] l.fop = "ftruncate" -> stripe_ftruncate(x, l)
      [] l.fop = "readv" -> stripe_readv(x, l)
      [] l.fop = "writev" -> stripe_writev(x, l)

StripeCbk(x, l, w, r) ==
    CASE w.cbk = "stripe_common_buf_cbk" -> stripe_common_buf_cbk(x, l, w, r)
      [] w.cbk = "stripe_common_cbk" -> stripe_common_cbk(x, l, w, r)
      [] w.cbk = "stripe_common_inode_cbk" -> stripe_common_inode_cbk(x, l, w, r)
      [] w.cbk = "stripe_create_cbk" -> stripe_create_cbk(x, l, w, r)
      [] w.cbk = "stripe_create_fail_unlink_cbk" -> stripe_create_fail_unlink_cbk(x, l, w, r)
      [] w.cbk = "stripe_create_setxattr_cbk" -> stripe_create_setxattr_cbk(x, l, w, r)
      [] w.cbk = "stripe_first_rename_cbk" -> stripe_first_rename_cbk(x, l, w, r)
      [] w.cbk = "stripe_first_rmdir_cbk" -> stripe_first_rmdir_cbk(x, l, w, r)
      [] w.cbk = "stripe_getxattr_cbk" -> stripe_getxattr_cbk(x, l, w, r)
      [] w.cbk = "stripe_lk_cbk" -> stripe_lk_cbk(x, l, w, r)
      [] w.cbk = "stripe_mknod_ifreg_cbk" -> stripe_mknod_ifreg_cbk(x, l, w, r)
      [] w.cbk = "stripe_mknod_ifreg_fail_unlink_cbk" -> stripe_mknod_ifreg_fail_unlink_cbk(x, l, w, r)
      [] w.cbk = "stripe_mknod_ifreg_setxattr_cbk" -> stripe_mknod_ifreg_setxattr_cbk(x, l, w, r)
      [] w.cbk = "stripe_open_cbk" -> stripe_open_cbk(x, l, w, r)
      [] w.cbk = "stripe_open_getxattr_cbk" -> stripe_open_getxattr_cbk(x, l, w, r)
      [] w.cbk = "stripe_opendir_cbk" -> stripe_opendir_cbk(x, l, w, r)
      [] w.cbk = "stripe_readlink_cbk" -> stripe_readlink_cbk(x, l, w, r)
      [] w.cbk = "stripe_readv_cbk" -> stripe_readv_cbk(x, l, w, r)
      [] w.cbk = "stripe_stack_unwind_buf_cbk" -> stripe_stack_unwind_buf_cbk(x, l, w, r)
      [] w.cbk = "stripe_stack_unwind_cbk" -> stripe_stack_unwind_cbk(x, l, w, r)
      [] w.cbk = "stripe_stack_unwind_inode_cbk" -> stripe_stack_unwind_inode_cbk(x, l, w, r)
      [] w.cbk = "stripe_stack_unwind_inode_lookup_cbk" -> stripe_stack_unwind_inode_lookup_cbk(x, l, w, r)
      [] w.cbk = "stripe_statfs_cbk" -> stripe_statfs_cbk(x, l, w, r)
      [] w.cbk = "stripe_stats_cbk" -> stripe_stats_cbk(x, l, w, r)
      [] w.cbk = "stripe_writev_cbk" -> stripe_writev_cbk(x, l, w, r)
=============================================================================
