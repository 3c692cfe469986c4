-------------------------------- MODULE MapVol --------------------------------
(* cluster/map: the top-level directory of a path says which child holds it.  *)
(* Private state: map (the directories and their children, in order),         *)
(* default_xl (0 for none), mapped (the children with a directory), dir (the  *)
(* top-level directory of each name), ctx (the child kept in the inode, 0 for *)
(* none) and root (the inode is "/").                                         *)
EXTENDS CallFrame
LOCAL INSTANCE SequencesExt

(* ---- init: "option map-directory", pairs of a directory and a child ---- *)

(* A child may be given one directory only. *)
check_multiple_volume_entry(x, xl) == xl \in x.mapped

verify_dir_and_assign_subvol(x, pair) ==
    LET y == [x EXCEPT !.mapped = @ \cup {pair.xl}]
    IN  CASE ~x.valid \/ pair.xl \notin Children(x) \/ check_multiple_volume_entry(x, pair.xl) ->
                 [x EXCEPT !.valid = FALSE]
          [] OTHER -> IF pair.directory = "*"
                      THEN [y EXCEPT !.default_xl = pair.xl, !.valid = x.default_xl = 0]
                      ELSE [y EXCEPT !.map = Append(@, pair)]

(* "option default-volume", 0 for none given. *)
assign_default_subvol(x, xl) ==
    CASE ~x.valid \/ xl = 0 -> x
      [] x.valid /\ xl # 0 -> IF check_multiple_volume_entry(x, xl) THEN [x EXCEPT !.valid = FALSE]
                              ELSE [x EXCEPT !.mapped = @ \cup {xl}, !.default_xl = xl]

(* With no default, the first child without a directory is it. *)
verify_if_all_subvolumes_got_used(x) ==
    LET rest == Children(x) \ x.mapped
    IN  IF x.default_xl # 0 \/ rest = {} THEN x
        ELSE [x EXCEPT !.default_xl = First(rest), !.mapped = @ \cup {First(rest)}]

map_init(x, pairs, default) ==
    LET y == FoldLeft(verify_dir_and_assign_subvol,
                      [x EXCEPT !.map = <<>>, !.default_xl = 0, !.mapped = {}, !.valid = TRUE], pairs)
    IN  verify_if_all_subvolumes_got_used(assign_default_subvol(y, default))

get_mapping_subvol_from_ctx(x) == x.ctx

get_mapping_subvol_from_path(x, name) ==
    LET hit == {i \in DOMAIN x.map : x.map[i].directory = x.dir[name]}
    IN  IF x.root THEN 0
        ELSE IF hit = {} THEN x.default_xl
        ELSE x.map[First(hit)].xl

(* The default_*_cbk of libglusterfs: the child's answer is the answer. *)
default_cbk(x, l, w, r) == Unwind(x, l, r.op_ret, r.op_errno)

(* The fops that go to the child in the inode's context. *)
ToMapped(x, l, op) ==
    LET subvol == get_mapping_subvol_from_ctx(x)
    IN  IF subvol = 0 THEN Fail(x, l, "EINVAL")
        ELSE Wind(x, l, {subvol}, op, "default_cbk")

map_stat(x, l) == ToMapped(x, l, "stat")
map_chmod(x, l) == ToMapped(x, l, "chmod")
map_fchmod(x, l) == ToMapped(x, l, "fchmod")
map_chown(x, l) == ToMapped(x, l, "chown")
map_fchown(x, l) == ToMapped(x, l, "fchown")
map_truncate(x, l) == ToMapped(x, l, "truncate")
map_ftruncate(x, l) == ToMapped(x, l, "ftruncate")
map_utimens(x, l) == ToMapped(x, l, "utimens")
map_access(x, l) == ToMapped(x, l, "access")
map_readlink(x, l) == ToMapped(x, l, "readlink")
map_unlink(x, l) == ToMapped(x, l, "unlink")
map_rmdir(x, l) == ToMapped(x, l, "rmdir")
map_open(x, l) == ToMapped(x, l, "open")
map_readv(x, l) == ToMapped(x, l, "readv")
map_writev(x, l) == ToMapped(x, l, "writev")
map_flush(x, l) == ToMapped(x, l, "flush")
map_fsync(x, l) == ToMapped(x, l, "fsync")
map_fstat(x, l) == ToMapped(x, l, "fstat")
map_getdents(x, l) == ToMapped(x, l, "getdents")
map_setdents(x, l) == ToMapped(x, l, "setdents")
map_fsyncdir(x, l) == ToMapped(x, l, "fsyncdir")
map_setxattr(x, l) == ToMapped(x, l, "setxattr")
map_getxattr(x, l) == ToMapped(x, l, "getxattr")
map_xattrop(x, l) == ToMapped(x, l, "xattrop")
map_fxattrop(x, l) == ToMapped(x, l, "fxattrop")
map_removexattr(x, l) == ToMapped(x, l, "removexattr")
map_lk(x, l) == ToMapped(x, l, "lk")
map_inodelk(x, l) == ToMapped(x, l, "inodelk")
map_finodelk(x, l) == ToMapped(x, l, "finodelk")
map_entrylk(x, l) == ToMapped(x, l, "entrylk")
map_fentrylk(x, l) == ToMapped(x, l, "fentrylk")
map_checksum(x, l) == ToMapped(x, l, "checksum")

(* Two names: both must map to the old name's child, or the new to none. *)
map_rename(x, l) ==
    LET old == get_mapping_subvol_from_ctx(x)
        new == get_mapping_subvol_from_path(x, "new")
    IN  IF old = 0 THEN Fail(x, l, "EINVAL")
        ELSE IF new \notin {0, old} THEN Fail(x, l, "EXDEV")
        ELSE Wind(x, l, {old}, "rename", "default_cbk")

map_link(x, l) ==
    LET old == get_mapping_subvol_from_ctx(x)
        new == get_mapping_subvol_from_path(x, "new")
    IN  IF old = 0 THEN Fail(x, l, "EINVAL")
        ELSE IF new \notin {0, old} THEN Fail(x, l, "EXDEV")
        ELSE Wind(x, l, {old}, "link", "default_cbk")

(* A new entry goes to the child its path maps to; the context is put before  *)
(* the child answers.                                                         *)
NewEntry(x, l, op, cbk) ==
    LET subvol == get_mapping_subvol_from_path(x, l.name)
    IN  IF subvol = 0 THEN Fail(x, l, "EINVAL")
        ELSE Wind([x EXCEPT !.ctx = subvol], l, {subvol}, op, cbk)

map_mknod(x, l) == NewEntry(x, l, "mknod", "map_newentry_cbk")
map_mkdir(x, l) == NewEntry(x, l, "mkdir", "map_newentry_cbk")
map_symlink(x, l) == NewEntry(x, l, "symlink", "map_newentry_cbk")
map_create(x, l) == NewEntry(x, l, "create", "map_create_cbk")

map_newentry_cbk(x, l, w, r) == Unwind(x, l, r.op_ret, r.op_errno)
map_create_cbk(x, l, w, r) == Unwind(x, l, r.op_ret, r.op_errno)

(* "/" is looked up, opened and measured on every child. *)
AllMapped(x, l, op, cbk) == WindCounted(x, [l EXCEPT !.op_ret = -1], Children(x), op, cbk)

map_lookup(x, l) ==
    LET path == get_mapping_subvol_from_path(x, l.name)
        subvol == IF x.ctx # 0 THEN x.ctx ELSE path
    IN  IF x.root THEN AllMapped(x, l, "lookup", "map_lookup_cbk")
        ELSE IF subvol = 0 THEN Fail(x, l, "EINVAL")
        ELSE Wind([x EXCEPT !.ctx = subvol], l, {subvol}, "lookup", "map_single_lookup_cbk")

map_single_lookup_cbk(x, l, w, r) == Unwind(x, l, r.op_ret, r.op_errno)

AnyMapped(x, l, r) ==
    LET k == [l EXCEPT !.call_count = @ - 1,
                       !.op_ret = IF Ok(r) THEN 0 ELSE @,
                       !.op_errno = IF Ok(r) THEN @ ELSE r.op_errno]
    IN  IF k.call_count = 0 THEN UnwindLocal(x, k) ELSE Wait(x, k)

map_lookup_cbk(x, l, w, r) == AnyMapped(x, l, r)
map_statfs_cbk(x, l, w, r) == AnyMapped(x, l, r)
map_opendir_cbk(x, l, w, r) == AnyMapped(x, l, r)

map_statfs(x, l) == IF x.root THEN AllMapped(x, l, "statfs", "map_statfs_cbk")
                    ELSE ToMapped(x, l, "statfs")
map_opendir(x, l) == IF x.root THEN AllMapped(x, l, "opendir", "map_opendir_cbk")
                     ELSE ToMapped(x, l, "opendir")

(* ---- readdir of "/" walks the children through transformed offsets ---- *)

(* Mutant: the offset forgets the child. *)
map_itransform_none(n, subvol, v) == v * n

map_itransform(n, subvol, v) == (v * n) + (subvol - 1)
map_deitransform(n, y) == [subvol |-> 1 + (y % n), v |-> y \div n]
map_subvol_next(x, prev) == IF prev < x.n THEN prev + 1 ELSE 0

map_readdir(x, l) ==
    LET at == map_deitransform(x.n, l.offset)
    IN  IF x.root THEN Wind(x, [l EXCEPT !.offset = at.v], {at.subvol}, "readdir", "map_readdir_cbk")
        ELSE IF x.ctx = 0 THEN Fail(x, l, "EINVAL")
        ELSE Wind(x, l, {x.ctx}, "readdir", "map_single_readdir_cbk")

map_single_readdir_cbk(x, l, w, r) == Unwind(x, l, r.op_ret, r.op_errno)

(* An empty or failed child is passed over; after the last the answer is 0    *)
(* entries, also when it failed.  The entry's offset is transformed.          *)
map_readdir_cbk(x, l, w, r) ==
    LET next == map_subvol_next(x, w.to)
    IN  IF r.op_ret <= 0 /\ next # 0
          THEN Wind(x, [l EXCEPT !.offset = 0], {next}, "readdir", "map_readdir_cbk")
        ELSE IF r.op_ret <= 0 THEN Unwind(x, l, 0, r.op_errno)
        ELSE Unwind(x, [l EXCEPT !.listed = @ \o [i \in DOMAIN r.ents |-> r.ents[i].name],
                                 !.d_off = map_itransform(x.n, w.to, r.ents[Len(r.ents)].off)],
                    r.op_ret, r.op_errno)

MapFops == {"stat", "chmod", "fchmod", "chown", "fchown", "truncate", "ftruncate",
               "utimens", "access", "readlink", "unlink", "rmdir", "open", "readv",
               "writev", "flush", "fsync", "fstat", "getdents", "setdents", "fsyncdir",
               "setxattr", "getxattr", "xattrop", "fxattrop", "removexattr", "lk",
               "inodelk", "finodelk", "entrylk", "fentrylk", "checksum", "rename", "link",
               "mknod", "mkdir", "symlink", "create", "lookup", "statfs", "opendir",
               "readdir"}

(* ---- dispatch on the fop and on the callback ---- *)
MapFop(x, l) ==
    CASE l.fop = "stat" -> map_stat(x, l)
      [] l.fop = "chmod" -> map_chmod(x, l)
      [] l.fop = "fchmod" -> map_fchmod(x, l)
      [] l.fop = "chown" -> map_chown(x, l)
      [] l.fop = "fchown" -> map_fchown(x, l)
      [] l.fop = "truncate" -> map_truncate(x, l)
      [] l.fop = "ftruncate" -> map_ftruncate(x, l)
      [] l.fop = "utimens" -> map_utimens(x, l)
      [] l.fop = "access" -> map_access(x, l)
      [] l.fop = "readlink" -> map_readlink(x, l)
      [] l.fop = "unlink" -> map_unlink(x, l)
      [] l.fop = "rmdir" -> map_rmdir(x, l)
      [] l.fop = "open" -> map_open(x, l)
      [] l.fop = "readv" -> map_readv(x, l)
      [] l.fop = "writev" -> map_writev(x, l)
      [] l.fop = "flush" -> map_flush(x, l)
      [] l.fop = "fsync" -> map_fsync(x, l)
      [] l.fop = "fstat" -> map_fstat(x, l)
      [] l.fop = "getdents" -> map_getdents(x, l)
      [] l.fop = "setdents" -> map_setdents(x, l)
      [] l.fop = "fsyncdir" -> map_fsyncdir(x, l)
      [] l.fop = "setxattr" -> map_setxattr(x, l)
      [] l.fop = "getxattr" -> map_getxattr(x, l)
      [] l.fop = "xattrop" -> map_xattrop(x, l)
      [] l.fop = "fxattrop" -> map_fxattrop(x, l)
      [] l.fop = "removexattr" -> map_removexattr(x, l)
      [] l.fop = "lk" -> map_lk(x, l)
      [] l.fop = "inodelk" -> map_inodelk(x, l)
      [] l.fop = "finodelk" -> map_finodelk(x, l)
      [] l.fop = "entrylk" -> map_entrylk(x, l)
      [] l.fop = "fentrylk" -> map_fentrylk(x, l)
      [] l.fop = "checksum" -> map_checksum(x, l)
      [] l.fop = "rename" -> map_rename(x, l)
      [] l.fop = "link" -> map_link(x, l)
      [] l.fop = "mknod" -> map_mknod(x, l)
      [] l.fop = "mkdir" -> map_mkdir(x, l)
      [] l.fop = "symlink" -> map_symlink(x, l)
      [] l.fop = "create" -> map_create(x, l)
      [] l.fop = "lookup" -> map_lookup(x, l)
      [] l.fop = "statfs" -> map_statfs(x, l)
      [] l.fop = "opendir" -> map_opendir(x, l)
      [] l.fop = "readdir" -> map_readdir(x, l)

MapCbk(x, l, w, r) ==
    CASE w.cbk = "default_cbk" -> default_cbk(x, l, w, r)
      [] w.cbk = "map_newentry_cbk" -> map_newentry_cbk(x, l, w, r)
      [] w.cbk = "map_create_cbk" -> map_create_cbk(x, l, w, r)
      [] w.cbk = "map_single_lookup_cbk" -> map_single_lookup_cbk(x, l, w, r)
      [] w.cbk = "map_lookup_cbk" -> map_lookup_cbk(x, l, w, r)
      [] w.cbk = "map_statfs_cbk" -> map_statfs_cbk(x, l, w, r)
      [] w.cbk = "map_opendir_cbk" -> map_opendir_cbk(x, l, w, r)
      [] w.cbk = "map_single_readdir_cbk" -> map_single_readdir_cbk(x, l, w, r)
      [] w.cbk = "map_readdir_cbk" -> map_readdir_cbk(x, l, w, r)
=============================================================================
