---------------------------------- MODULE Ha ----------------------------------
(* cluster/ha: the children are paths to one store.  Private state: up        *)
(* (pvt->state), pref (pref_subvol, 0 for none), the inode's context hasctx   *)
(* and ctx (stateino: the paths the inode was found on) and the fd's context  *)
(* hasfd, fdstate and fdactive.                                               *)
EXTENDS CallFrame

(* ---- one path at a time, the next one on ENOTCONN ---- *)

(* The preferred path when it is usable, otherwise the first usable one. *)
ActiveOf(wanted, state) ==
    IF wanted \in state THEN wanted ELSE IF state = {} THEN 0 ELSE First(state)

StartOn(x, l, active, state, isfd, op, cbk) ==
    IF active = 0 THEN Fail(x, l, "ENOTCONN")
    ELSE Wind(x, [l EXCEPT !.active = active, !.state = state, !.isfd = isfd,
                           !.tries = Cardinality(state)],
              {active}, op, cbk)

ha_alloc_init_inode(x, l, op, cbk) ==
    IF ~x.hasctx THEN Fail(x, l, "EPERM")
    ELSE StartOn(x, l, ActiveOf(x.pref, x.ctx), x.ctx, FALSE, op, cbk)

ha_alloc_init_fd(x, l, op, cbk) ==
    IF ~x.hasfd THEN Fail(x, l, "EPERM")
    ELSE StartOn(x, l, ActiveOf(IF x.pref = 0 THEN x.fdactive ELSE x.pref, x.fdstate),
                 x.fdstate, TRUE, op, cbk)

(* The next usable path after active, cyclically. *)
NextActive(x, l) ==
    LET step(i) == 1 + ((l.active - 1 + i) % x.n)
        i == CHOOSE i \in 1 .. x.n : /\ step(i) \in l.state
                                     /\ \A j \in 1 .. i - 1 : step(j) \notin l.state
    IN  step(i)

(* Mutant: any reply makes ha try the next child. *)
ha_handle_cbk_always(x, l, w, r) ==
    LET k == [l EXCEPT !.tries = @ - 1, !.active = NextActive(x, l)]
    IN  IF l.tries # 1 THEN Wind(x, k, {k.active}, w.op, w.cbk) ELSE Unwind(x, l, r.op_ret, r.op_errno)

(* ENOTCONN: the fd forgets the path and the stub is resumed on the next one  *)
(* while there are tries left; anything else is the answer.                   *)
ha_handle_cbk(x, l, w, r) ==
    LET lost == r.op_errno = "ENOTCONN"
        y == IF lost /\ l.isfd THEN [x EXCEPT !.fdstate = @ \ {w.to}] ELSE x
        k == [l EXCEPT !.tries = @ - 1, !.active = NextActive(x, l)]
    IN  IF lost /\ l.tries # 1 THEN Wind(y, k, {k.active}, w.op, w.cbk)
        ELSE Unwind(y, IF lost THEN [l EXCEPT !.tries = 0] ELSE l, r.op_ret, r.op_errno)

ha_stat(x, l) == ha_alloc_init_inode(x, l, "stat", "ha_stat_cbk")
ha_chmod(x, l) == ha_alloc_init_inode(x, l, "chmod", "ha_chmod_cbk")
ha_chown(x, l) == ha_alloc_init_inode(x, l, "chown", "ha_chown_cbk")
ha_truncate(x, l) == ha_alloc_init_inode(x, l, "truncate", "ha_truncate_cbk")
ha_utimens(x, l) == ha_alloc_init_inode(x, l, "utimens", "ha_utimens_cbk")
ha_access(x, l) == ha_alloc_init_inode(x, l, "access", "ha_access_cbk")
ha_readlink(x, l) == ha_alloc_init_inode(x, l, "readlink", "ha_readlink_cbk")
ha_unlink(x, l) == ha_alloc_init_inode(x, l, "unlink", "ha_unlink_cbk")
ha_rmdir(x, l) == ha_alloc_init_inode(x, l, "rmdir", "ha_rmdir_cbk")
ha_rename(x, l) == ha_alloc_init_inode(x, l, "rename", "ha_rename_cbk")
ha_statfs(x, l) == ha_alloc_init_inode(x, l, "statfs", "ha_statfs_cbk")
ha_setxattr(x, l) == ha_alloc_init_inode(x, l, "setxattr", "ha_setxattr_cbk")
ha_getxattr(x, l) == ha_alloc_init_inode(x, l, "getxattr", "ha_getxattr_cbk")
ha_xattrop(x, l) == ha_alloc_init_inode(x, l, "xattrop", "ha_xattrop_cbk")
ha_removexattr(x, l) == ha_alloc_init_inode(x, l, "removexattr", "ha_removexattr_cbk")
ha_checksum(x, l) == ha_alloc_init_inode(x, l, "checksum", "ha_checksum_cbk")
ha_fchmod(x, l) == ha_alloc_init_fd(x, l, "fchmod", "ha_fchmod_cbk")
ha_fchown(x, l) == ha_alloc_init_fd(x, l, "fchown", "ha_fchown_cbk")
ha_ftruncate(x, l) == ha_alloc_init_fd(x, l, "ftruncate", "ha_ftruncate_cbk")
ha_readv(x, l) == ha_alloc_init_fd(x, l, "readv", "ha_readv_cbk")
ha_writev(x, l) == ha_alloc_init_fd(x, l, "writev", "ha_writev_cbk")
ha_flush(x, l) == ha_alloc_init_fd(x, l, "flush", "ha_flush_cbk")
ha_fsync(x, l) == ha_alloc_init_fd(x, l, "fsync", "ha_fsync_cbk")
ha_fstat(x, l) == ha_alloc_init_fd(x, l, "fstat", "ha_fstat_cbk")
ha_getdents(x, l) == ha_alloc_init_fd(x, l, "getdents", "ha_getdents_cbk")
ha_setdents(x, l) == ha_alloc_init_fd(x, l, "setdents", "ha_setdents_cbk")
ha_fsyncdir(x, l) == ha_alloc_init_fd(x, l, "fsyncdir", "ha_fsyncdir_cbk")
ha_fxattrop(x, l) == ha_alloc_init_fd(x, l, "fxattrop", "ha_fxattrop_cbk")
ha_readdir(x, l) == ha_alloc_init_fd(x, l, "readdir", "ha_readdir_cbk")

ha_stat_cbk(x, l, w, r) == ha_handle_cbk(x, l, w, r)
ha_chmod_cbk(x, l, w, r) == ha_handle_cbk(x, l, w, r)
ha_chown_cbk(x, l, w, r) == ha_handle_cbk(x, l, w, r)
ha_truncate_cbk(x, l, w, r) == ha_handle_cbk(x, l, w, r)
ha_utimens_cbk(x, l, w, r) == ha_handle_cbk(x, l, w, r)
ha_access_cbk(x, l, w, r) == ha_handle_cbk(x, l, w, r)
ha_readlink_cbk(x, l, w, r) == ha_handle_cbk(x, l, w, r)
ha_unlink_cbk(x, l, w, r) == ha_handle_cbk(x, l, w, r)
ha_rmdir_cbk(x, l, w, r) == ha_handle_cbk(x, l, w, r)
ha_rename_cbk(x, l, w, r) == ha_handle_cbk(x, l, w, r)
ha_statfs_cbk(x, l, w, r) == ha_handle_cbk(x, l, w, r)
ha_setxattr_cbk(x, l, w, r) == ha_handle_cbk(x, l, w, r)
ha_getxattr_cbk(x, l, w, r) == ha_handle_cbk(x, l, w, r)
ha_xattrop_cbk(x, l, w, r) == ha_handle_cbk(x, l, w, r)
ha_removexattr_cbk(x, l, w, r) == ha_handle_cbk(x, l, w, r)
ha_checksum_cbk(x, l, w, r) == ha_handle_cbk(x, l, w, r)
ha_fchmod_cbk(x, l, w, r) == ha_handle_cbk(x, l, w, r)
ha_fchown_cbk(x, l, w, r) == ha_handle_cbk(x, l, w, r)
ha_ftruncate_cbk(x, l, w, r) == ha_handle_cbk(x, l, w, r)
ha_readv_cbk(x, l, w, r) == ha_handle_cbk(x, l, w, r)
ha_writev_cbk(x, l, w, r) == ha_handle_cbk(x, l, w, r)
ha_flush_cbk(x, l, w, r) == ha_handle_cbk(x, l, w, r)
ha_fsync_cbk(x, l, w, r) == ha_handle_cbk(x, l, w, r)
ha_fstat_cbk(x, l, w, r) == ha_handle_cbk(x, l, w, r)
ha_getdents_cbk(x, l, w, r) == ha_handle_cbk(x, l, w, r)
ha_setdents_cbk(x, l, w, r) == ha_handle_cbk(x, l, w, r)
ha_fsyncdir_cbk(x, l, w, r) == ha_handle_cbk(x, l, w, r)
ha_fxattrop_cbk(x, l, w, r) == ha_handle_cbk(x, l, w, r)
ha_readdir_cbk(x, l, w, r) == ha_handle_cbk(x, l, w, r)

(* ---- lookup: every path is asked ---- *)

ha_lookup(x, l) ==
    LET k == [l EXCEPT !.revalidate = x.hasctx, !.op_ret = -1, !.op_errno = "ENOTCONN"]
        y == IF x.hasctx THEN x ELSE [x EXCEPT !.hasctx = TRUE, !.ctx = {}]
    IN  WindCounted(y, k, Children(x), "lookup", "ha_lookup_cbk")

(* The first lookup records the paths that know the inode; a later one whose  *)
(* answer differs from the record on any path fails with EIO.                 *)
ha_lookup_cbk(x, l, w, r) ==
    LET y == IF ~l.revalidate /\ Ok(r) THEN [x EXCEPT !.ctx = @ \cup {w.to}] ELSE x
        k == [l EXCEPT !.call_count = @ - 1,
                       !.failed = @ \/ (l.revalidate /\ Ok(r) # (w.to \in x.ctx)),
                       !.op_ret = IF Ok(r) THEN 0 ELSE @,
                       !.op_errno = IF Ok(r) THEN @ ELSE r.op_errno]
    IN  IF k.call_count # 0 THEN Wait(y, k)
        ELSE IF k.failed THEN Fail(y, k, "EIO") ELSE UnwindLocal(y, k)

(* ---- creation: on the first path that takes it, then looked up on the rest ---- *)

MakeOn(x, l, op, cbk, fresh) ==
    LET active == IF x.up = {} THEN 0 ELSE First(x.up)
        k == [l EXCEPT !.op_ret = -1, !.op_errno = "ENOTCONN", !.state = x.up,
                       !.active = active, !.call_count = Cardinality(x.up)]
    IN  Wind(IF fresh THEN [x EXCEPT !.hasctx = TRUE, !.ctx = {}] ELSE x, k,
             {active}, op, cbk)

ha_mknod(x, l) == MakeOn(x, l, "mknod", "ha_mknod_cbk", TRUE)
ha_mkdir(x, l) == MakeOn(x, l, "mkdir", "ha_mkdir_cbk", TRUE)
ha_symlink(x, l) == MakeOn(x, l, "symlink", "ha_symlink_cbk", TRUE)
ha_link(x, l) == IF ~x.hasctx THEN Fail(x, l, "EINVAL") ELSE MakeOn(x, l, "link", "ha_link_cbk", FALSE)

Later(l) == {c \in l.state : c > l.active}

MadeOn(x, l, w, r, find, cbk) ==
    LET y == IF Ok(r) THEN [x EXCEPT !.ctx = @ \cup {w.to}] ELSE x
        k == [l EXCEPT !.call_count = @ - 1,
                       !.op_ret = IF Ok(r) THEN 0 ELSE @,
                       !.first_success = @ \/ Ok(r),
                       !.op_errno = IF Ok(r) THEN @ ELSE r.op_errno]
        next == [k EXCEPT !.active = First(Later(l))]
    IN  IF k.call_count = 0 \/ Later(l) = {} THEN UnwindLocal(y, k)
        ELSE IF ~k.first_success THEN Wind(y, next, {next.active}, w.op, w.cbk)
        ELSE Wind(y, next, Later(l), find, cbk)

ha_mknod_cbk(x, l, w, r) == MadeOn(x, l, w, r, "lookup", "ha_mknod_lookup_cbk")
ha_mkdir_cbk(x, l, w, r) == MadeOn(x, l, w, r, "lookup", "ha_mkdir_lookup_cbk")
ha_symlink_cbk(x, l, w, r) == MadeOn(x, l, w, r, "lookup", "ha_symlink_lookup_cbk")
ha_link_cbk(x, l, w, r) == MadeOn(x, l, w, r, "lookup_new", "ha_link_lookup_cbk")

FoundOn(x, l, w, r) ==
    LET y == IF Ok(r) THEN [x EXCEPT !.ctx = @ \cup {w.to}] ELSE x
        k == [l EXCEPT !.call_count = @ - 1]
    IN  IF k.call_count = 0 THEN UnwindLocal(y, k) ELSE Wait(y, k)

ha_mknod_lookup_cbk(x, l, w, r) == FoundOn(x, l, w, r)
ha_mkdir_lookup_cbk(x, l, w, r) == FoundOn(x, l, w, r)
ha_symlink_lookup_cbk(x, l, w, r) == FoundOn(x, l, w, r)
ha_link_lookup_cbk(x, l, w, r) == FoundOn(x, l, w, r)

ha_create(x, l) ==
    LET active == IF x.up = {} THEN 0 ELSE First(x.up)
        k == [l EXCEPT !.op_ret = -1, !.op_errno = "ENOTCONN", !.state = x.up,
                       !.active = active, !.call_count = Cardinality(x.up)]
        y == [x EXCEPT !.hasctx = TRUE, !.ctx = {}, !.hasfd = TRUE, !.fdstate = {},
                       !.fdactive = 1]
    IN  Wind(y, k, {active}, "create", "ha_create_cbk")

(* After the first success every later path is created on, and each of their  *)
(* replies winds again to the paths after active: no counts the round.        *)
ha_create_cbk(x, l, w, r) ==
    LET y == IF Ok(r) THEN [x EXCEPT !.ctx = @ \cup {w.to}, !.fdstate = @ \cup {w.to}] ELSE x
        k == [l EXCEPT !.call_count = @ - 1,
                       !.op_ret = IF Ok(r) THEN 0 ELSE @,
                       !.first_success = @ \/ Ok(r),
                       !.excl = @ /\ ~Ok(r),
                       !.op_errno = IF Ok(r) THEN @ ELSE r.op_errno,
                       !.tries = @ + 1]
        next == [k EXCEPT !.active = First(Later(l))]
        to == IF k.first_success THEN Later(l) ELSE {next.active}
    IN  IF k.call_count = 0 \/ Later(l) = {} THEN UnwindLocal(y, k)
        ELSE Result(y, next, {Call(c, "create", "ha_create_cbk", k.tries) : c \in to}, <<>>)

(* ---- open: on every path the inode was found on ---- *)

OpenOn(x, l, op, cbk, fdactive) ==
    WindCounted([x EXCEPT !.hasfd = TRUE, !.fdstate = {}, !.fdactive = fdactive],
                [l EXCEPT !.op_ret = -1, !.op_errno = "ENOTCONN"],
                x.ctx, op, cbk)

(* active is ino % child_count without a preference: any path. *)
ha_open(x, l) == OpenOn(x, l, "open", "ha_open_cbk", IF x.pref = 0 THEN 1 + (x.ino % x.n) ELSE 0)
ha_opendir(x, l) == OpenOn(x, l, "opendir", "ha_opendir_cbk", 1)

OpenedOn(x, l, w, r) ==
    LET y == IF Ok(r) THEN [x EXCEPT !.fdstate = @ \cup {w.to}] ELSE x
        k == [l EXCEPT !.call_count = @ - 1,
                       !.op_ret = IF Ok(r) THEN 0 ELSE @,
                       !.op_errno = IF Ok(r) \/ r.op_errno = "ENOTCONN" THEN @ ELSE r.op_errno]
    IN  IF k.call_count = 0 THEN UnwindLocal(y, k) ELSE Wait(y, k)

ha_open_cbk(x, l, w, r) == OpenedOn(x, l, w, r)
ha_opendir_cbk(x, l, w, r) == OpenedOn(x, l, w, r)

(* local->active is still -1 at the test, so every lock fails. *)
ha_lk(x, l) == Fail(x, l, "ENOTCONN")

(* ---- management calls: the first path that is up, then the later ones ---- *)

FirstUp(x, l, op, cbk) ==
    IF x.up = {} THEN Fail(x, l, "ENOTCONN")
    ELSE Wind(x, l, {First(x.up)}, op, cbk)

ha_stats(x, l) == FirstUp(x, l, "stats", "ha_stats_cbk")
ha_getspec(x, l) == FirstUp(x, l, "getspec", "ha_getspec_cbk")

NextUp(x, l, w, r) ==
    LET later == {c \in x.up : c > w.to}
    IN  IF r.op_errno # "ENOTCONN" THEN Unwind(x, l, r.op_ret, r.op_errno)
        ELSE IF later = {} THEN Fail(x, l, "ENOTCONN")
        ELSE Wind(x, l, {First(later)}, w.op, w.cbk)

ha_stats_cbk(x, l, w, r) == NextUp(x, l, w, r)
ha_getspec_cbk(x, l, w, r) == NextUp(x, l, w, r)

(* ---- notify, and what is kept per inode and fd ---- *)
ha_init(x) == [x EXCEPT !.up = {}]
ha_notify(x, c, up) == [x EXCEPT !.up = IF up THEN @ \cup {c} ELSE @ \ {c}]
ha_forget(x) == [x EXCEPT !.hasctx = FALSE, !.ctx = {}]
ha_close(x) == [x EXCEPT !.hasfd = FALSE, !.fdstate = {}]

HaFops == {"stat", "chmod", "chown", "truncate", "utimens", "access", "readlink", "unlink",
               "rmdir", "rename", "statfs", "setxattr", "getxattr", "xattrop",
               "removexattr", "checksum", "fchmod", "fchown", "ftruncate", "readv",
               "writev", "flush", "fsync", "fstat", "getdents", "setdents", "fsyncdir",
               "fxattrop", "readdir", "lookup", "mknod", "mkdir", "symlink", "link",
               "create", "open", "opendir", "lk", "stats", "getspec"}

(* ---- dispatch on the fop and on the callback ---- *)
HaFop(x, l) ==
    CASE l.fop = "stat" -> ha_stat(x, l)
      [] l.fop = "chmod" -> ha_chmod(x, l)
      [] l.fop = "chown" -> ha_chown(x, l)
      [] l.fop = "truncate" -> ha_truncate(x, l)
      [] l.fop = "utimens" -> ha_utimens(x, l)
      [] l.fop = "access" -> ha_access(x, l)
      [] l.fop = "readlink" -> ha_readlink(x, l)
      [] l.fop = "unlink" -> ha_unlink(x, l)
      [] l.fop = "rmdir" -> ha_rmdir(x, l)
      [] l.fop = "rename" -> ha_rename(x, l)
      [] l.fop = "statfs" -> ha_statfs(x, l)
      [] l.fop = "setxattr" -> ha_setxattr(x, l)
      [] l.fop = "getxattr" -> ha_getxattr(x, l)
      [] l.fop = "xattrop" -> ha_xattrop(x, l)
      [] l.fop = "removexattr" -> ha_removexattr(x, l)
      [] l.fop = "checksum" -> ha_checksum(x, l)
      [] l.fop = "fchmod" -> ha_fchmod(x, l)
      [] l.fop = "fchown" -> ha_fchown(x, l)
      [] l.fop = "ftruncate" -> ha_ftruncate(x, l)
      [] l.fop = "readv" -> ha_readv(x, l)
      [] l.fop = "writev" -> ha_writev(x, l)
      [] l.fop = "flush" -> ha_flush(x, l)
      [] l.fop = "fsync" -> ha_fsync(x, l)
      [] l.fop = "fstat" -> ha_fstat(x, l)
      [] l.fop = "getdents" -> ha_getdents(x, l)
      [] l.fop = "setdents" -> ha_setdents(x, l)
      [] l.fop = "fsyncdir" -> ha_fsyncdir(x, l)
      [] l.fop = "fxattrop" -> ha_fxattrop(x, l)
      [] l.fop = "readdir" -> ha_readdir(x, l)
      [] l.fop = "lookup" -> ha_lookup(x, l)
      [] l.fop = "mknod" -> ha_mknod(x, l)
      [] l.fop = "mkdir" -> ha_mkdir(x, l)
      [] l.fop = "symlink" -> ha_symlink(x, l)
      [] l.fop = "link" -> ha_link(x, l)
      [] l.fop = "create" -> ha_create(x, l)
      [] l.fop = "open" -> ha_open(x, l)
      [] l.fop = "opendir" -> ha_opendir(x, l)
      [] l.fop = "lk" -> ha_lk(x, l)
      [] l.fop = "stats" -> ha_stats(x, l)
      [] l.fop = "getspec" -> ha_getspec(x, l)

HaCbk(x, l, w, r) ==
    CASE w.cbk = "ha_stat_cbk" -> ha_stat_cbk(x, l, w, r)
      [] w.cbk = "ha_chmod_cbk" -> ha_chmod_cbk(x, l, w, r)
      [] w.cbk = "ha_chown_cbk" -> ha_chown_cbk(x, l, w, r)
      [] w.cbk = "ha_truncate_cbk" -> ha_truncate_cbk(x, l, w, r)
      [] w.cbk = "ha_utimens_cbk" -> ha_utimens_cbk(x, l, w, r)
      [] w.cbk = "ha_access_cbk" -> ha_access_cbk(x, l, w, r)
      [] w.cbk = "ha_readlink_cbk" -> ha_readlink_cbk(x, l, w, r)
      [] w.cbk = "ha_unlink_cbk" -> ha_unlink_cbk(x, l, w, r)
      [] w.cbk = "ha_rmdir_cbk" -> ha_rmdir_cbk(x, l, w, r)
      [] w.cbk = "ha_rename_cbk" -> ha_rename_cbk(x, l, w, r)
      [] w.cbk = "ha_statfs_cbk" -> ha_statfs_cbk(x, l, w, r)
      [] w.cbk = "ha_setxattr_cbk" -> ha_setxattr_cbk(x, l, w, r)
      [] w.cbk = "ha_getxattr_cbk" -> ha_getxattr_cbk(x, l, w, r)
      [] w.cbk = "ha_xattrop_cbk" -> ha_xattrop_cbk(x, l, w, r)
      [] w.cbk = "ha_removexattr_cbk" -> ha_removexattr_cbk(x, l, w, r)
      [] w.cbk = "ha_checksum_cbk" -> ha_checksum_cbk(x, l, w, r)
      [] w.cbk = "ha_fchmod_cbk" -> ha_fchmod_cbk(x, l, w, r)
      [] w.cbk = "ha_fchown_cbk" -> ha_fchown_cbk(x, l, w, r)
      [] w.cbk = "ha_ftruncate_cbk" -> ha_ftruncate_cbk(x, l, w, r)
      [] w.cbk = "ha_readv_cbk" -> ha_readv_cbk(x, l, w, r)
      [] w.cbk = "ha_writev_cbk" -> ha_writev_cbk(x, l, w, r)
      [] w.cbk = "ha_flush_cbk" -> ha_flush_cbk(x, l, w, r)
      [] w.cbk = "ha_fsync_cbk" -> ha_fsync_cbk(x, l, w, r)
      [] w.cbk = "ha_fstat_cbk" -> ha_fstat_cbk(x, l, w, r)
      [] w.cbk = "ha_getdents_cbk" -> ha_getdents_cbk(x, l, w, r)
      [] w.cbk = "ha_setdents_cbk" -> ha_setdents_cbk(x, l, w, r)
      [] w.cbk = "ha_fsyncdir_cbk" -> ha_fsyncdir_cbk(x, l, w, r)
      [] w.cbk = "ha_fxattrop_cbk" -> ha_fxattrop_cbk(x, l, w, r)
      [] w.cbk = "ha_readdir_cbk" -> ha_readdir_cbk(x, l, w, r)
      [] w.cbk = "ha_lookup_cbk" -> ha_lookup_cbk(x, l, w, r)
      [] w.cbk = "ha_mknod_cbk" -> ha_mknod_cbk(x, l, w, r)
      [] w.cbk = "ha_mkdir_cbk" -> ha_mkdir_cbk(x, l, w, r)
      [] w.cbk = "ha_symlink_cbk" -> ha_symlink_cbk(x, l, w, r)
      [] w.cbk = "ha_link_cbk" -> ha_link_cbk(x, l, w, r)
      [] w.cbk = "ha_mknod_lookup_cbk" -> ha_mknod_lookup_cbk(x, l, w, r)
      [] w.cbk = "ha_mkdir_lookup_cbk" -> ha_mkdir_lookup_cbk(x, l, w, r)
      [] w.cbk = "ha_symlink_lookup_cbk" -> ha_symlink_lookup_cbk(x, l, w, r)
      [] w.cbk = "ha_link_lookup_cbk" -> ha_link_lookup_cbk(x, l, w, r)
      [] w.cbk = "ha_create_cbk" -> ha_create_cbk(x, l, w, r)
      [] w.cbk = "ha_open_cbk" -> ha_open_cbk(x, l, w, r)
      [] w.cbk = "ha_opendir_cbk" -> ha_opendir_cbk(x, l, w, r)
      [] w.cbk = "ha_stats_cbk" -> ha_stats_cbk(x, l, w, r)
      [] w.cbk = "ha_getspec_cbk" -> ha_getspec_cbk(x, l, w, r)
=============================================================================
