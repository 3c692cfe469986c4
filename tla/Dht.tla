---------------------------------- MODULE Dht ----------------------------------
(* cluster/dht: a file lives on the subvolume its name hashes to, or on       *)
(* another one with a linkfile at the hashed one; a directory lives on all.   *)
(* Private state: hash (of each name), parent (the layout of the parent       *)
(* directory, << >> for none), hasctx and ctx (the layout in the inode's      *)
(* context), ctxnew (the list of the target's), up, gen, search_unhashed.     *)
EXTENDS CallFrame, DhtLayout

is_dir(e) == e.t = "dir"
is_linkfile(e) == e.t = "link"
Fmt(t) == IF t = "link" THEN "reg" ELSE t

dht_first_up_child(x) == IF x.up = {} THEN 0 ELSE First(x.up)

dht_subvol_get_hashed(x, nm) ==
    IF x.root THEN dht_first_up_child(x) ELSE dht_layout_search(x.parent, x.hash[nm])

dht_subvol_get_cached(x) == IF x.hasctx THEN x.ctx.list[1].xl ELSE 0

dht_subvol_next(x, c) == IF c < x.n THEN c + 1 ELSE 0

dht_subvol_cnt(c) == c - 1    \* -1 for no subvolume

dht_itransform(x, c, v) == v * x.n + dht_subvol_cnt(c)
dht_deitransform(x, y) == [xl |-> (y % x.n) + 1, off |-> y \div x.n]

(* dht_linkfile_subvol: the subvolume a linkfile's attribute names. *)
dht_linkfile_subvol(x, e) == IF e.to \in Children(x) THEN e.to ELSE 0

ctx_put(x, gen, list) == [x EXCEPT !.hasctx = TRUE, !.ctx = [gen |-> gen, list |-> list]]
file_ctx_put(x, c) == [x EXCEPT !.hasctx = TRUE, !.ctx = dht_layout_for_subvol(c)]

Layout(list) == {list[i].xl : i \in DOMAIN list}
dht_frame_return(l) == [l EXCEPT !.call_count = @ - 1]
is_last_call(l) == l.call_count = 1

(* ---- dht-linkfile.c ---- *)

(* A regular file with the sticky bit, made under the name nm on c. *)
dht_linkfile_create(x, l, cbk, tovol, c, nm) ==
    LET k == [l EXCEPT !.linkcbk = cbk, !.linkto = tovol, !.linkname = nm]
    IN  Wind(x, k, {c}, "mknod_linkfile", "dht_linkfile_create_cbk")

dht_linkfile_unlink(c) == {Call(c, "unlink", "dht_linkfile_unlink_cbk", 0)}
dht_linkfile_unlink_cbk(x, l, w, r) == Wait(x, l)

(* ---- dht-selfheal.c ---- *)

dht_lookup_selfheal_cbk(x, l, op_ret) ==
    Unwind(IF op_ret = 0 THEN ctx_put(x, l.gen, l.layout) ELSE x, l, op_ret, l.op_errno)

dht_mkdir_selfheal_cbk(x, l, op_ret) ==
    Unwind(IF op_ret = 0 THEN ctx_put(x, l.gen, l.layout) ELSE x, l, op_ret, l.op_errno)

dht_rmdir_selfheal_cbk(x, l, op_ret) == UnwindLocal(x, l)

dht_selfheal_dir_finish(x, l, ret) ==
    CASE l.dircbk = "lookup" -> dht_lookup_selfheal_cbk(x, l, ret)
      [] l.dircbk = "mkdir" -> dht_mkdir_selfheal_cbk(x, l, ret)
      [] l.dircbk = "rmdir" -> dht_rmdir_selfheal_cbk(x, l, ret)

SetErr(list, c, err) == [i \in DOMAIN list |-> IF list[i].xl = c THEN [list[i] EXCEPT !.err = err]
                                               ELSE list[i]]

(* rmdir heals the layout cached for the directory itself, not a copy of it:  *)
(* what the heal learns of a subvolume is seen by every later call.           *)
HealCached(x, l) == IF l.dircbk = "rmdir" THEN [x EXCEPT !.ctx.list = l.layout] ELSE x

dht_selfheal_dir_xattr_cbk(x, l, w, r) ==
    LET k == [dht_frame_return(l) EXCEPT
                 !.layout = SetErr(l.layout, w.to, IF r.op_ret = 0 THEN "ok" ELSE r.op_errno)]
        y == HealCached(x, k)
    IN  IF is_last_call(l) THEN dht_selfheal_dir_finish(y, k, 0) ELSE Wait(y, k)

(* Every subvolume that has been given a range is told to keep it. *)
dht_selfheal_dir_xattr(x, l) ==
    LET give == {l.layout[i].xl : i \in {j \in DOMAIN l.layout :
                                            l.layout[j].err = "none" /\ l.layout[j].stop # 0}}
    IN  IF give = {} THEN dht_selfheal_dir_finish(x, l, 0)
        ELSE WindCounted(x, l, give, "setlayout", "dht_selfheal_dir_xattr_cbk")

dht_selfheal_dir_mkdir_cbk(x, l, w, r) ==
    LET k == [dht_frame_return(l) EXCEPT
                 !.layout = IF r.op_ret = 0 \/ r.op_errno = "EEXIST" THEN SetErr(@, w.to, "none")
                            ELSE @]
        y == HealCached(x, k)
    IN  IF is_last_call(l) THEN dht_selfheal_dir_xattr(y, k) ELSE Wait(y, k)

dht_selfheal_dir_mkdir(x, l, force) ==
    LET mk == {l.layout[i].xl : i \in {j \in DOMAIN l.layout :
                                          force \/ l.layout[j].err = "ENOENT"}}
    IN  IF mk = {} THEN dht_selfheal_dir_xattr(x, l)
        ELSE WindCounted(x, l, mk, "mkdir_heal", "dht_selfheal_dir_mkdir_cbk")

(* Whether the holes may be left, or the directory has been given ranges.     *)
(* With no subvolume to give a range to, the division is by zero.             *)
dht_selfheal_dir_getafix(x, l) ==
    LET a == dht_layout_anomalies(l.layout)
        virgin == a.missing + a.down = x.n
        gone == \E i \in DOMAIN l.layout : l.layout[i].err = "ENOENT"
    IN  [ret |-> IF virgin \/ a.holes <= a.down \/ gone THEN 0 ELSE -1,
         crash |-> virgin /\ Virgins(l.layout) = {},
         layout |-> IF virgin /\ Virgins(l.layout) # {} THEN dht_selfheal_fix_this_virgin(l.layout)
                    ELSE l.layout]

dht_selfheal_directory(x, l, dircbk) ==
    LET fix == dht_selfheal_dir_getafix(x, l)
        k == [l EXCEPT !.dircbk = dircbk, !.layout = fix.layout, !.crash = fix.crash]
    IN  CASE fix.crash -> Wait(x, k)
          [] ~fix.crash /\ fix.ret = -1 -> dht_selfheal_dir_finish(x, k, -1)
          [] ~fix.crash /\ fix.ret = 0 -> dht_selfheal_dir_mkdir(x, k, FALSE)

dht_selfheal_restore(x, l, dircbk) ==
    dht_selfheal_dir_mkdir(x, [l EXCEPT !.dircbk = dircbk, !.layout = x.ctx.list], TRUE)

(* ---- lookup ---- *)

LookupDir(x, l) ==
    WindCounted(x, [l EXCEPT !.layout = <<>>], Children(x), "lookup", "dht_lookup_dir_cbk")

dht_lookup_dir_cbk(x, l, w, r) ==
    LET merged == dht_layout_merge(l.layout, w.to, r.op_ret, r.op_errno, r.e.lay)
        k == [dht_frame_return(l) EXCEPT
                 !.layout = merged,
                 !.op_errno = IF r.op_ret = -1 THEN "ENOENT" ELSE @,
                 !.op_ret = IF r.op_ret = 0 /\ is_dir(r.e) THEN 0 ELSE @]
        sorted == [k EXCEPT !.layout = dht_layout_sort(merged)]
    IN  CASE ~is_last_call(l) -> Wait(x, k)
          [] is_last_call(l) /\ k.op_ret # 0 -> UnwindLocal(x, k)
          [] is_last_call(l) /\ k.op_ret = 0 /\ dht_layout_normalize(merged) # 0 ->
                 dht_selfheal_directory(x, [sorted EXCEPT !.gen = x.gen], "lookup")
          [] is_last_call(l) /\ k.op_ret = 0 /\ dht_layout_normalize(merged) = 0 ->
                 UnwindLocal(ctx_put(x, l.gen, sorted.layout), k)

dht_revalidate_cbk(x, l, w, r) ==
    LET bad == Fmt(r.e.t) # x.kind
        stale == is_linkfile(r.e)
                 \/ (is_dir(r.e) /\ dht_layout_dir_mismatch(x.ctx.list, w.to, r.e.lay))
        k == [dht_frame_return(l) EXCEPT
                 !.op_ret = IF r.op_ret = -1 THEN @ ELSE IF bad THEN -1 ELSE IF stale THEN @ ELSE 0,
                 !.op_errno = IF r.op_ret = -1 THEN r.op_errno ELSE IF bad THEN "EINVAL" ELSE @,
                 !.mismatch = @ \/ (r.op_ret = 0 /\ ~bad /\ stale)]
    IN  CASE ~is_last_call(l) -> Wait(x, k)
          [] is_last_call(l) /\ k.mismatch -> Fail(x, k, "ESTALE")
          [] is_last_call(l) /\ ~k.mismatch -> UnwindLocal(x, k)

(* What became of the linkfile does not matter to the lookup. *)
dht_lookup_linkfile_create_cbk(x, l, w, r) ==
    Unwind(file_ctx_put(x, l.cached), [l EXCEPT !.op_ret = 0], 0, l.op_errno)

(* Linkfiles found on the way are removed, each in a frame of its own. *)
dht_lookup_everywhere_cbk(x, l, w, r) ==
    LET link == r.op_ret = 0 /\ is_linkfile(r.e)
        k == [dht_frame_return(l) EXCEPT
                 !.op_errno = IF r.op_ret = -1 /\ r.op_errno # "ENOENT" THEN r.op_errno ELSE @,
                 !.cached = IF r.op_ret = 0 /\ ~link /\ @ = 0 THEN w.to ELSE @]
        next == CASE ~is_last_call(l) -> Wait(x, k)
                  [] is_last_call(l) /\ k.cached = 0 -> Fail(x, k, "ENOENT")
                  [] is_last_call(l) /\ k.cached # 0 ->
                         dht_linkfile_create(x, k, "dht_lookup_linkfile_create_cbk",
                                             k.cached, k.hashed, k.name)
    IN  IF link THEN [next EXCEPT !.wind = @ \cup dht_linkfile_unlink(w.to)] ELSE next

dht_lookup_everywhere(x, l) ==
    WindCounted(x, l, Children(x), "lookup", "dht_lookup_everywhere_cbk")

dht_lookup_linkfile_cbk(x, l, w, r) ==
    IF r.op_ret = -1 THEN dht_lookup_everywhere(x, l)
    ELSE Unwind(file_ctx_put(x, w.to), l, r.op_ret, r.op_errno)

FollowLinkfile(x, l, e) ==
    IF dht_linkfile_subvol(x, e) = 0 THEN dht_lookup_everywhere(x, l)
    ELSE Wind(x, l, {dht_linkfile_subvol(x, e)}, "lookup", "dht_lookup_linkfile_cbk")

dht_lookup_cbk(x, l, w, r) ==
    CASE r.op_ret = -1 /\ r.op_errno = "ENOENT" /\ x.search_unhashed ->
             dht_lookup_everywhere(x, [l EXCEPT !.op_errno = "ENOENT"])
      [] r.op_ret = -1 /\ r.op_errno = "ENOTCONN" -> LookupDir(x, l)
      [] r.op_ret = -1 /\ r.op_errno # "ENOTCONN"
           /\ ~(r.op_errno = "ENOENT" /\ x.search_unhashed) -> Fail(x, l, r.op_errno)
      [] r.op_ret = 0 /\ is_dir(r.e) -> LookupDir(x, l)
      [] r.op_ret = 0 /\ is_linkfile(r.e) -> FollowLinkfile(x, l, r.e)
      [] r.op_ret = 0 /\ ~is_dir(r.e) /\ ~is_linkfile(r.e) ->
             Unwind(file_ctx_put(x, w.to), l, 0, r.op_errno)

Subvols(x, l) == [l EXCEPT !.hashed = dht_subvol_get_hashed(x, l.name),
                           !.cached = dht_subvol_get_cached(x)]

Revalidate(x, l) ==
    IF x.ctx.gen # 0 /\ x.ctx.gen < x.gen THEN Fail(x, l, "EAGAIN")
    ELSE WindCounted(x, l, Layout(x.ctx.list), "lookup", "dht_revalidate_cbk")

dht_lookup(x, l0) ==
    LET l == Subvols(x, l0)
    IN  CASE x.hasctx -> Revalidate(x, l)
          [] ~x.hasctx /\ l.hashed = 0 -> LookupDir(x, l)
          [] ~x.hasctx /\ l.hashed # 0 -> Wind(x, l, {l.hashed}, "lookup", "dht_lookup_cbk")

(* ---- attributes, file and fd operations ---- *)

AnySubvolume(x, l, r) ==
    LET k == [dht_frame_return(l) EXCEPT !.op_ret = IF r.op_ret = -1 THEN @ ELSE 0,
                                         !.op_errno = IF r.op_ret = -1 THEN r.op_errno ELSE @]
    IN  IF is_last_call(l) THEN UnwindLocal(x, k) ELSE Wait(x, k)

dht_attr_cbk(x, l, w, r) == AnySubvolume(x, l, r)
dht_err_cbk(x, l, w, r) == AnySubvolume(x, l, r)
dht_fd_cbk(x, l, w, r) == AnySubvolume(x, l, r)
dht_statfs_cbk(x, l, w, r) == AnySubvolume(x, l, r)
dht_fsyncdir_cbk(x, l, w, r) == AnySubvolume(x, l, r)

HandUp(x, l, r) == Unwind(x, l, r.op_ret, r.op_errno)

dht_readlink_cbk(x, l, w, r) == HandUp(x, l, r)
dht_getxattr_cbk(x, l, w, r) == HandUp(x, l, r)
dht_readv_cbk(x, l, w, r) == HandUp(x, l, r)
dht_writev_cbk(x, l, w, r) == HandUp(x, l, r)
dht_lk_cbk(x, l, w, r) == HandUp(x, l, r)
dht_xattrop_cbk(x, l, w, r) == HandUp(x, l, r)
dht_fxattrop_cbk(x, l, w, r) == HandUp(x, l, r)
dht_inodelk_cbk(x, l, w, r) == HandUp(x, l, r)
dht_finodelk_cbk(x, l, w, r) == HandUp(x, l, r)
dht_entrylk_cbk(x, l, w, r) == HandUp(x, l, r)
dht_fentrylk_cbk(x, l, w, r) == HandUp(x, l, r)

(* To every subvolume of the inode's layout. *)
ToLayout(x, l, op) ==
    IF ~x.hasctx THEN Fail(x, l, "EINVAL")
    ELSE WindCounted(x, l, Layout(x.ctx.list), op, "dht_attr_cbk")

dht_stat(x, l) == ToLayout(x, l, "stat")
dht_fstat(x, l) == ToLayout(x, l, "fstat")
dht_chmod(x, l) == ToLayout(x, l, "chmod")
dht_chown(x, l) == ToLayout(x, l, "chown")
dht_fchmod(x, l) == ToLayout(x, l, "fchmod")
dht_fchown(x, l) == ToLayout(x, l, "fchown")
dht_utimens(x, l) == ToLayout(x, l, "utimens")

(* To the first subvolume of the inode's layout: the one that has the file. *)
ToCached(x, l, op, cbk) ==
    LET c == dht_subvol_get_cached(x)
    IN  IF c = 0 THEN Fail(x, l, "EINVAL") ELSE WindCounted(x, l, {c}, op, cbk)

dht_truncate(x, l) == ToCached(x, l, "truncate", "dht_attr_cbk")
dht_ftruncate(x, l) == ToCached(x, l, "ftruncate", "dht_attr_cbk")
dht_access(x, l) == ToCached(x, l, "access", "dht_err_cbk")
dht_readlink(x, l) == ToCached(x, l, "readlink", "dht_readlink_cbk")
dht_getxattr(x, l) == ToCached(x, l, "getxattr", "dht_getxattr_cbk")
dht_setxattr(x, l) == ToCached(x, l, "setxattr", "dht_err_cbk")
dht_removexattr(x, l) == ToCached(x, l, "removexattr", "dht_err_cbk")
dht_open(x, l) == ToCached(x, l, "open", "dht_fd_cbk")
dht_readv(x, l) == ToCached(x, l, "readv", "dht_readv_cbk")
dht_writev(x, l) == ToCached(x, l, "writev", "dht_writev_cbk")
dht_flush(x, l) == ToCached(x, l, "flush", "dht_err_cbk")
dht_fsync(x, l) == ToCached(x, l, "fsync", "dht_err_cbk")
dht_lk(x, l) == ToCached(x, l, "lk", "dht_lk_cbk")
dht_xattrop(x, l) == ToCached(x, l, "xattrop", "dht_xattrop_cbk")
dht_fxattrop(x, l) == ToCached(x, l, "fxattrop", "dht_fxattrop_cbk")
dht_inodelk(x, l) == ToCached(x, l, "inodelk", "dht_inodelk_cbk")
dht_finodelk(x, l) == ToCached(x, l, "finodelk", "dht_finodelk_cbk")
dht_entrylk(x, l) == ToCached(x, l, "entrylk", "dht_entrylk_cbk")
dht_fentrylk(x, l) == ToCached(x, l, "fentrylk", "dht_fentrylk_cbk")

(* To every subvolume. *)
dht_statfs(x, l) == WindCounted(x, l, Children(x), "statfs", "dht_statfs_cbk")
dht_opendir(x, l) == WindCounted(x, l, Children(x), "opendir", "dht_fd_cbk")
dht_fsyncdir(x, l) == WindCounted(x, l, Children(x), "fsyncdir", "dht_fsyncdir_cbk")

(* A batch of entries: those that hash to this subvolume, or nowhere, are     *)
(* passed on, with the offset marked by the subvolume they hash to.  A batch  *)
(* with none of them ends the walk over this subvolume.                       *)
dht_readdir_cbk(x, l, w, r) ==
    LET own(e) == dht_layout_search(x.ctx.list, x.hash[e.name])
        kept == IF r.op_ret < 0 THEN <<>>
                ELSE SelectSeq(r.ents, LAMBDA e : own(e) \in {0, w.to})
        last == kept[Len(kept)]
        k == [l EXCEPT !.listed = @ \o [i \in DOMAIN kept |-> kept[i].name],
                       !.d_off = IF kept = <<>> THEN @ ELSE dht_itransform(x, own(last), last.off)]
        next == dht_subvol_next(x, w.to)
    IN  IF kept = <<>> /\ next # 0
        THEN Wind(x, [k EXCEPT !.offset = 0], {next}, "readdir", "dht_readdir_cbk")
        ELSE Unwind(x, k, Len(kept), r.op_errno)

dht_readdir(x, l) ==
    LET at == dht_deitransform(x, l.offset)
    IN  Wind(x, [l EXCEPT !.offset = at.off], {at.xl}, "readdir", "dht_readdir_cbk")

(* ---- making and removing names ---- *)

KeepPlace(x, l, w, r) ==
    Unwind(IF r.op_ret = -1 THEN x ELSE file_ctx_put(x, w.to), l, r.op_ret, r.op_errno)

dht_newfile_cbk(x, l, w, r) == KeepPlace(x, l, w, r)
dht_create_cbk(x, l, w, r) == KeepPlace(x, l, w, r)

OnHashed(x, l, op, cbk, errno) ==
    LET c == dht_subvol_get_hashed(x, "old")
    IN  IF c = 0 THEN Fail(x, l, errno) ELSE Wind(x, [l EXCEPT !.hashed = c], {c}, op, cbk)

dht_mknod(x, l) == OnHashed(x, l, "mknod", "dht_newfile_cbk", "ENOENT")
dht_symlink(x, l) == OnHashed(x, l, "symlink", "dht_newfile_cbk", "ENOENT")
(* Mutant: the hashed subvolume is not checked for NULL. *)
dht_create_unchecked(x, l) == Wind(x, l, {dht_subvol_get_hashed(x, "old")}, "create", "dht_create_cbk")

dht_create(x, l) == OnHashed(x, l, "create", "dht_create_cbk", "ENOENT")
dht_mkdir(x, l) == OnHashed(x, l, "mkdir", "dht_mkdir_hashed_cbk", "EINVAL")

dht_mkdir_cbk(x, l, w, r) ==
    LET k == [dht_frame_return(l) EXCEPT
                 !.layout = dht_layout_merge(@, w.to, r.op_ret, r.op_errno, <<>>),
                 !.op_errno = IF r.op_ret = -1 THEN r.op_errno ELSE @]
    IN  IF is_last_call(l) THEN dht_selfheal_directory(x, k, "mkdir") ELSE Wait(x, k)

dht_mkdir_hashed_cbk(x, l, w, r) ==
    LET k == [l EXCEPT !.layout = dht_layout_merge(@, w.to, r.op_ret, r.op_errno, <<>>),
                       !.op_ret = 0]
    IN  CASE r.op_ret = -1 -> Fail(x, l, r.op_errno)
          [] r.op_ret # -1 /\ x.n = 1 -> dht_selfheal_directory(x, k, "mkdir")
          [] r.op_ret # -1 /\ x.n > 1 ->
                 WindCounted(x, k, Children(x) \ {l.hashed}, "mkdir", "dht_mkdir_cbk")

dht_unlink(x, l) ==
    LET cached == dht_subvol_get_cached(x)
        hashed == dht_subvol_get_hashed(x, "old")
    IN  IF cached = 0 \/ hashed = 0 THEN Fail(x, l, "EINVAL")
        ELSE WindCounted(x, l, {cached, hashed}, "unlink", "dht_err_cbk")

dht_link_cbk(x, l, w, r) == HandUp(x, l, r)

dht_link_linkfile_cbk(x, l, w, r) ==
    IF r.op_ret = -1 THEN Fail(x, l, r.op_errno)
    ELSE Wind(x, l, {l.linkto}, "link", "dht_link_cbk")

dht_link(x, l) ==
    LET cached == dht_subvol_get_cached(x)
        hashed == dht_subvol_get_hashed(x, "new")
    IN  CASE cached = 0 \/ hashed = 0 -> Fail(x, l, "EINVAL")
          [] cached # 0 /\ hashed # 0 /\ hashed # cached ->
                 dht_linkfile_create(x, l, "dht_link_linkfile_cbk", cached, hashed, "new")
          [] cached # 0 /\ hashed = cached -> Wind(x, l, {cached}, "link", "dht_link_cbk")

(* ---- rmdir: every subvolume must be empty first ---- *)

dht_rmdir_cbk(x, l, w, r) ==
    LET k == [dht_frame_return(l) EXCEPT
                 !.op_ret = IF r.op_ret = -1 THEN -1 ELSE @,
                 !.op_errno = IF r.op_ret = -1 THEN r.op_errno ELSE @,
                 !.need_selfheal = @ \/ (r.op_ret = -1 /\ r.op_errno # "ENOENT")]
    IN  CASE ~is_last_call(l) -> Wait(x, k)
          [] is_last_call(l) /\ k.need_selfheal -> dht_selfheal_restore(x, k, "rmdir")
          [] is_last_call(l) /\ ~k.need_selfheal -> UnwindLocal(x, k)

dht_rmdir_do(x, l) ==
    IF l.op_ret = -1 THEN UnwindLocal(x, l)
    ELSE WindCounted(x, l, Children(x), "rmdir", "dht_rmdir_cbk")

NotEmpty(l, r) == IF r.op_ret > 2 THEN [l EXCEPT !.op_ret = -1, !.op_errno = "ENOTEMPTY"] ELSE l

dht_rmdir_readdir_cbk(x, l, w, r) ==
    LET k == dht_frame_return(NotEmpty(l, r))
    IN  IF is_last_call(l) THEN dht_rmdir_do(x, k) ELSE Wait(x, k)

dht_rmdir_opendir_cbk(x, l, w, r) ==
    CASE r.op_ret # -1 -> Wind(x, l, {w.to}, "readdir_all", "dht_rmdir_readdir_cbk")
      [] r.op_ret = -1 /\ is_last_call(l) -> dht_rmdir_do(x, dht_frame_return(l))
      [] r.op_ret = -1 /\ ~is_last_call(l) -> Wait(x, dht_frame_return(l))

dht_rmdir(x, l) ==
    WindCounted(x, [l EXCEPT !.op_ret = 0], Children(x), "opendir", "dht_rmdir_opendir_cbk")

(* ---- rename of a directory: on every subvolume ---- *)

dht_rename_dir_cbk(x, l, w, r) ==
    LET k == [dht_frame_return(l) EXCEPT !.op_ret = IF r.op_ret = -1 THEN -1 ELSE @,
                                         !.op_errno = IF r.op_ret = -1 THEN r.op_errno ELSE @]
    IN  IF is_last_call(l) THEN UnwindLocal(x, k) ELSE Wait(x, k)

dht_rename_dir_do(x, l) ==
    IF l.op_ret = -1 THEN UnwindLocal(x, l)
    ELSE WindCounted(x, l, Children(x), "rename", "dht_rename_dir_cbk")

dht_rename_readdir_cbk(x, l, w, r) ==
    LET k == dht_frame_return(NotEmpty(l, r))
    IN  IF is_last_call(l) THEN dht_rename_dir_do(x, k) ELSE Wait(x, k)

dht_rename_opendir_cbk(x, l, w, r) ==
    CASE r.op_ret # -1 -> Wind(x, l, {w.to}, "readdir_all_new", "dht_rename_readdir_cbk")
      [] r.op_ret = -1 /\ is_last_call(l) -> dht_rename_dir_do(x, dht_frame_return(l))
      [] r.op_ret = -1 /\ ~is_last_call(l) -> Wait(x, dht_frame_return(l))

dht_rename_dir(x, l) ==
    LET k == [l EXCEPT !.op_ret = 0]
    IN  IF l.dst_cached = 0 THEN dht_rename_dir_do(x, k)
        ELSE WindCounted(x, k, Children(x), "opendir_new", "dht_rename_opendir_cbk")

(* ---- rename of a file: links, then the rename, then the unlinks ---- *)

dht_rename_unlink_cbk(x, l, w, r) ==
    IF is_last_call(l) THEN UnwindLocal(x, dht_frame_return(l)) ELSE Wait(x, dht_frame_return(l))

rename_subvol(l) == IF l.src_cached = l.dst_cached THEN l.src_cached ELSE l.dst_hashed

(* Mutant: the source is removed before looking where the rename was done. *)
dht_rename_cbk_source(x, l, w, r) ==
    IF r.op_ret = -1 THEN Fail(x, l, r.op_errno)
    ELSE WindCounted(x, l, {l.src_cached}, "unlink_new", "dht_rename_unlink_cbk")

dht_rename_cbk(x, l, w, r) ==
    LET old(c, yes) == IF yes THEN {Call(c, "unlink", "dht_rename_unlink_cbk", 0)} ELSE {}
        new(c, yes) == IF yes THEN {Call(c, "unlink_new", "dht_rename_unlink_cbk", 0)} ELSE {}
        gone == old(l.src_cached, l.src_cached # l.dst_hashed /\ l.src_cached # l.dst_cached)
                \cup old(l.src_hashed, l.src_hashed # rename_subvol(l)
                                         /\ l.src_hashed # l.src_cached)
                \cup new(l.dst_cached, l.dst_cached # 0 /\ l.dst_cached # l.dst_hashed
                                         /\ l.dst_cached # l.src_cached)
        k == [l EXCEPT !.call_count = Cardinality(gone)]
    IN  CASE r.op_ret = -1 -> Fail(x, l, r.op_errno)
          [] r.op_ret # -1 /\ gone = {} -> UnwindLocal(x, l)
          [] r.op_ret # -1 /\ gone # {} -> Result(x, k, gone, <<>>)

dht_do_rename(x, l) == Wind(x, l, {rename_subvol(l)}, "rename", "dht_rename_cbk")

dht_rename_links_cbk(x, l, w, r) ==
    LET k == [dht_frame_return(l) EXCEPT !.op_ret = IF r.op_ret = -1 THEN -1 ELSE @,
                                         !.op_errno = IF r.op_ret = -1 THEN r.op_errno ELSE @]
    IN  CASE ~is_last_call(l) -> Wait(x, k)
          [] is_last_call(l) /\ k.op_ret = -1 -> UnwindLocal(x, k)
          [] is_last_call(l) /\ k.op_ret # -1 -> dht_do_rename(x, k)

(* The linkfile is made under the old name, for the rename to move. *)
dht_rename_create_links(x, l) ==
    LET tolink == l.dst_hashed # l.src_hashed /\ l.dst_hashed # l.src_cached
        tohard == l.src_cached # l.dst_hashed
        k == [l EXCEPT !.call_count = (IF tolink THEN 1 ELSE 0) + (IF tohard THEN 1 ELSE 0)]
        mk == dht_linkfile_create(x, k, "dht_rename_links_cbk", l.src_cached, l.dst_hashed, "old")
    IN  IF l.src_cached = l.dst_cached \/ ~(tolink \/ tohard) THEN dht_do_rename(x, l)
        ELSE Result(x, IF tolink THEN mk.l ELSE k,
                    (IF tolink THEN mk.wind ELSE {})
                      \cup (IF tohard THEN {Call(l.src_cached, "link", "dht_rename_links_cbk", 0)}
                            ELSE {}),
                    <<>>)

dht_rename(x, l) ==
    LET k == [l EXCEPT !.src_hashed = dht_subvol_get_hashed(x, "old"),
                       !.src_cached = dht_subvol_get_cached(x),
                       !.dst_hashed = dht_subvol_get_hashed(x, "new"),
                       !.dst_cached = IF x.ctxnew = <<>> THEN 0 ELSE x.ctxnew[1].xl]
    IN  CASE 0 \in {k.src_hashed, k.src_cached, k.dst_hashed} -> Fail(x, l, "EINVAL")
          [] 0 \notin {k.src_hashed, k.src_cached, k.dst_hashed} /\ x.kind = "dir" ->
                 dht_rename_dir(x, k)
          [] 0 \notin {k.src_hashed, k.src_cached, k.dst_hashed} /\ x.kind # "dir" ->
                 dht_rename_create_links(x, [k EXCEPT !.op_ret = 0])

(* ---- nufa.c: the same translator with a volume of its own preferred ---- *)

nufa_local_lookup_cbk(x, l, w, r) ==
    LET found == r.op_ret = 0 /\ ~is_dir(r.e) /\ ~is_linkfile(r.e)
        missing == r.op_ret = -1 /\ r.op_errno = "ENOENT" /\ x.search_unhashed
        y == IF found THEN file_ctx_put(x, w.to) ELSE x
    IN  CASE missing -> dht_lookup_everywhere(x, [l EXCEPT !.op_errno = "ENOENT"])
          [] (r.op_ret = -1 /\ ~missing) \/ found ->
                 IF l.hashed = 0 THEN Unwind(y, l, r.op_ret, "EINVAL")
                 ELSE Wind(y, l, {l.hashed}, "lookup", "dht_lookup_cbk")
          [] r.op_ret = 0 /\ is_dir(r.e) ->
                 LookupDir(x, [l EXCEPT !.op_ret = 0, !.op_errno = "0"])
          [] r.op_ret = 0 /\ is_linkfile(r.e) -> FollowLinkfile(x, l, r.e)

nufa_lookup(x, l0) ==
    LET l == Subvols(x, l0)
    IN  IF x.hasctx THEN Revalidate(x, l)
        ELSE Wind(x, l, {x.local_volume}, "lookup", "nufa_local_lookup_cbk")

nufa_create_linkfile_create_cbk(x, l, w, r) ==
    IF r.op_ret = -1 THEN Fail(x, l, r.op_errno)
    ELSE Wind(x, l, {x.local_volume}, "create", "dht_create_cbk")

nufa_create(x, l) ==
    LET c == dht_subvol_get_hashed(x, "old")
    IN  CASE c = 0 -> Fail(x, l, "ENOENT")
          [] c # 0 /\ c # x.local_volume ->
                 dht_linkfile_create(x, l, "nufa_create_linkfile_create_cbk",
                                     x.local_volume, c, "old")
          [] c # 0 /\ c = x.local_volume -> Wind(x, l, {c}, "create", "dht_create_cbk")

nufa_mknod_linkfile_cbk(x, l, w, r) ==
    IF r.op_ret >= 0 THEN Wind(x, l, {x.local_volume}, "mknod", "dht_newfile_cbk")
    ELSE Unwind(x, l, r.op_ret, r.op_errno)

nufa_mknod(x, l) ==
    LET c == dht_subvol_get_hashed(x, "old")
    IN  CASE c = 0 -> Fail(x, l, "ENOENT")
          [] c # 0 /\ c # x.local_volume ->
                 dht_linkfile_create(x, l, "nufa_mknod_linkfile_cbk", x.local_volume, c, "old")
          [] c # 0 /\ c = x.local_volume -> Wind(x, l, {c}, "mknod", "dht_newfile_cbk")

(* ---- the linkfile is made, or not: local->linkfile.linkfile_cbk ---- *)

linkfile_cbk(x, l, w, r) ==
    CASE l.linkcbk = "dht_lookup_linkfile_create_cbk" -> dht_lookup_linkfile_create_cbk(x, l, w, r)
      [] l.linkcbk = "dht_link_linkfile_cbk" -> dht_link_linkfile_cbk(x, l, w, r)
      [] l.linkcbk = "dht_rename_links_cbk" -> dht_rename_links_cbk(x, l, w, r)
      [] l.linkcbk = "nufa_create_linkfile_create_cbk" ->
             nufa_create_linkfile_create_cbk(x, l, w, r)
      [] l.linkcbk = "nufa_mknod_linkfile_cbk" -> nufa_mknod_linkfile_cbk(x, l, w, r)

dht_linkfile_xattr_cbk(x, l, w, r) == linkfile_cbk(x, l, w, r)

dht_linkfile_create_cbk(x, l, w, r) ==
    IF r.op_ret = -1 THEN linkfile_cbk(x, l, w, r)
    ELSE Wind(x, l, {w.to}, "setxattr_linkto", "dht_linkfile_xattr_cbk")

(* ---- CHILD_UP and CHILD_DOWN ---- *)

dht_init(x) == [x EXCEPT !.gen = 1, !.up = {}]
nufa_init(x) == dht_init(x)    \* and local_volume is one of the children

dht_notify(x, c, up) ==
    IF up THEN [x EXCEPT !.gen = @ + 1, !.up = @ \cup {c}] ELSE [x EXCEPT !.up = @ \ {c}]

DhtFops == {"lookup", "stat", "fstat", "chmod", "chown", "fchmod", "fchown", "utimens",
               "truncate", "ftruncate", "access", "readlink", "getxattr", "setxattr",
               "removexattr", "open", "readv", "writev", "flush", "fsync", "lk", "statfs",
               "opendir", "readdir", "fsyncdir", "mknod", "symlink", "unlink", "link",
               "create", "mkdir", "rmdir", "rename", "xattrop", "fxattrop", "inodelk",
               "finodelk", "entrylk", "fentrylk"}

(* ---- dispatch on the fop and on the callback ---- *)
DhtFop(x, l) ==
    CASE l.fop = "lookup" -> IF x.vol = "nufa" THEN nufa_lookup(x, l) ELSE dht_lookup(x, l)
      [] l.fop = "stat" -> dht_stat(x, l)
      [] l.fop = "fstat" -> dht_fstat(x, l)
      [] l.fop = "chmod" -> dht_chmod(x, l)
      [] l.fop = "chown" -> dht_chown(x, l)
      [] l.fop = "fchmod" -> dht_fchmod(x, l)
      [] l.fop = "fchown" -> dht_fchown(x, l)
      [] l.fop = "utimens" -> dht_utimens(x, l)
      [] l.fop = "truncate" -> dht_truncate(x, l)
      [] l.fop = "ftruncate" -> dht_ftruncate(x, l)
      [] l.fop = "access" -> dht_access(x, l)
      [] l.fop = "readlink" -> dht_readlink(x, l)
      [] l.fop = "getxattr" -> dht_getxattr(x, l)
      [] l.fop = "setxattr" -> dht_setxattr(x, l)
      [] l.fop = "removexattr" -> dht_removexattr(x, l)
      [] l.fop = "open" -> dht_open(x, l)
      [] l.fop = "readv" -> dht_readv(x, l)
      [] l.fop = "writev" -> dht_writev(x, l)
      [] l.fop = "flush" -> dht_flush(x, l)
      [] l.fop = "fsync" -> dht_fsync(x, l)
      [] l.fop = "lk" -> dht_lk(x, l)
      [] l.fop = "statfs" -> dht_statfs(x, l)
      [] l.fop = "opendir" -> dht_opendir(x, l)
      [] l.fop = "readdir" -> dht_readdir(x, l)
      [] l.fop = "fsyncdir" -> dht_fsyncdir(x, l)
      [] l.fop = "mknod" -> IF x.vol = "nufa" THEN nufa_mknod(x, l) ELSE dht_mknod(x, l)
      [] l.fop = "symlink" -> dht_symlink(x, l)
      [] l.fop = "unlink" -> dht_unlink(x, l)
      [] l.fop = "link" -> dht_link(x, l)
      [] l.fop = "create" -> IF x.vol = "nufa" THEN nufa_create(x, l) ELSE dht_create(x, l)
      [] l.fop = "mkdir" -> dht_mkdir(x, l)
      [] l.fop = "rmdir" -> dht_rmdir(x, l)
      [] l.fop = "rename" -> dht_rename(x, l)
      [] l.fop = "xattrop" -> dht_xattrop(x, l)
      [] l.fop = "fxattrop" -> dht_fxattrop(x, l)
      [] l.fop = "inodelk" -> dht_inodelk(x, l)
      [] l.fop = "finodelk" -> dht_finodelk(x, l)
      [] l.fop = "entrylk" -> dht_entrylk(x, l)
      [] l.fop = "fentrylk" -> dht_fentrylk(x, l)

DhtCbk(x, l, w, r) ==
    CASE w.cbk = "dht_linkfile_unlink_cbk" -> dht_linkfile_unlink_cbk(x, l, w, r)
      [] w.cbk = "dht_selfheal_dir_xattr_cbk" -> dht_selfheal_dir_xattr_cbk(x, l, w, r)
      [] w.cbk = "dht_selfheal_dir_mkdir_cbk" -> dht_selfheal_dir_mkdir_cbk(x, l, w, r)
      [] w.cbk = "dht_lookup_dir_cbk" -> dht_lookup_dir_cbk(x, l, w, r)
      [] w.cbk = "dht_revalidate_cbk" -> dht_revalidate_cbk(x, l, w, r)
      [] w.cbk = "dht_lookup_everywhere_cbk" -> dht_lookup_everywhere_cbk(x, l, w, r)
      [] w.cbk = "dht_lookup_linkfile_cbk" -> dht_lookup_linkfile_cbk(x, l, w, r)
      [] w.cbk = "dht_lookup_cbk" -> dht_lookup_cbk(x, l, w, r)
      [] w.cbk = "dht_attr_cbk" -> dht_attr_cbk(x, l, w, r)
      [] w.cbk = "dht_err_cbk" -> dht_err_cbk(x, l, w, r)
      [] w.cbk = "dht_fd_cbk" -> dht_fd_cbk(x, l, w, r)
      [] w.cbk = "dht_statfs_cbk" -> dht_statfs_cbk(x, l, w, r)
      [] w.cbk = "dht_fsyncdir_cbk" -> dht_fsyncdir_cbk(x, l, w, r)
      [] w.cbk = "dht_readlink_cbk" -> dht_readlink_cbk(x, l, w, r)
      [] w.cbk = "dht_getxattr_cbk" -> dht_getxattr_cbk(x, l, w, r)
      [] w.cbk = "dht_readv_cbk" -> dht_readv_cbk(x, l, w, r)
      [] w.cbk = "dht_writev_cbk" -> dht_writev_cbk(x, l, w, r)
      [] w.cbk = "dht_lk_cbk" -> dht_lk_cbk(x, l, w, r)
      [] w.cbk = "dht_xattrop_cbk" -> dht_xattrop_cbk(x, l, w, r)
      [] w.cbk = "dht_fxattrop_cbk" -> dht_fxattrop_cbk(x, l, w, r)
      [] w.cbk = "dht_inodelk_cbk" -> dht_inodelk_cbk(x, l, w, r)
      [] w.cbk = "dht_finodelk_cbk" -> dht_finodelk_cbk(x, l, w, r)
      [] w.cbk = "dht_entrylk_cbk" -> dht_entrylk_cbk(x, l, w, r)
      [] w.cbk = "dht_fentrylk_cbk" -> dht_fentrylk_cbk(x, l, w, r)
      [] w.cbk = "dht_readdir_cbk" -> dht_readdir_cbk(x, l, w, r)
      [] w.cbk = "dht_newfile_cbk" -> dht_newfile_cbk(x, l, w, r)
      [] w.cbk = "dht_create_cbk" -> dht_create_cbk(x, l, w, r)
      [] w.cbk = "dht_mkdir_cbk" -> dht_mkdir_cbk(x, l, w, r)
      [] w.cbk = "dht_mkdir_hashed_cbk" -> dht_mkdir_hashed_cbk(x, l, w, r)
      [] w.cbk = "dht_link_cbk" -> dht_link_cbk(x, l, w, r)
      [] w.cbk = "dht_rmdir_cbk" -> dht_rmdir_cbk(x, l, w, r)
      [] w.cbk = "dht_rmdir_readdir_cbk" -> dht_rmdir_readdir_cbk(x, l, w, r)
      [] w.cbk = "dht_rmdir_opendir_cbk" -> dht_rmdir_opendir_cbk(x, l, w, r)
      [] w.cbk = "dht_rename_dir_cbk" -> dht_rename_dir_cbk(x, l, w, r)
      [] w.cbk = "dht_rename_readdir_cbk" -> dht_rename_readdir_cbk(x, l, w, r)
      [] w.cbk = "dht_rename_opendir_cbk" -> dht_rename_opendir_cbk(x, l, w, r)
      [] w.cbk = "dht_rename_unlink_cbk" -> dht_rename_unlink_cbk(x, l, w, r)
      [] w.cbk = "dht_rename_cbk" -> dht_rename_cbk(x, l, w, r)
      [] w.cbk = "dht_rename_links_cbk" -> dht_rename_links_cbk(x, l, w, r)
      [] w.cbk = "nufa_local_lookup_cbk" -> nufa_local_lookup_cbk(x, l, w, r)
      [] w.cbk = "dht_linkfile_xattr_cbk" -> dht_linkfile_xattr_cbk(x, l, w, r)
      [] w.cbk = "dht_linkfile_create_cbk" -> dht_linkfile_create_cbk(x, l, w, r)
=============================================================================
