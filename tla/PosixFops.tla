----------------------------- MODULE PosixFops -----------------------------
(***************************************************************************)
(* storage/posix: each call as the sequence of system calls it makes.  A   *)
(* step [do, or] makes the call "do"; when it fails, "or" says how many of *)
(* the steps after it are passed over, -1 standing for all of them: the    *)
(* call is then answered as failed.                                        *)
(*                                                                         *)
(* A request c has the fields op, fd, name, name2, and "how", which tells  *)
(* apart the variants of a call that take different paths.                 *)
(***************************************************************************)
EXTENDS Integers, Sequences

Out(s) == [do |-> s, or |-> -1]
Or(s, k) == [do |-> s, or |-> k]

\* The path of the request, the second path, the descriptor of the file, a descriptor
\* of the call's own, an entry below the path, the context of the descriptor.
GetCtx == Out("ctx_get")

\* Content is read through a descriptor of its own; any other key comes from the disk.
_posix_xattr_get_set(c) ==
    IF c.how = "content" THEN << Or("open", 2), Or("read_own", 0), Or("close", 0) >>
                         ELSE << Or("lgetxattr", 0) >>

posix_lookup_xattr_fill(c) == IF c.how = "no_xattr" THEN << >> ELSE _posix_xattr_get_set(c)

\* A file of another device is answered like one found, without its attributes.
posix_lookup(c) ==
    << Out("lstat") >> \o (IF c.how = "other_device" THEN << >> ELSE posix_lookup_xattr_fill(c))

posix_stat(c) == << Out("lstat") >>

posix_opendir(c) == << Out("open"), Out("dirfd"), Or("ctx_set", 0) >>

\* One entry: the end of the stream ends the call, an entry that is gone fails it.
posix_getdents(c) ==
    << GetCtx, Or("readdir", 3), Or("lstat_entry", 0), Out("lstat_entry"), Or("readlink_entry", 0) >>

posix_releasedir == << Or("close_fd", 0) >>

posix_readlink(c) == << Out("readlink") >>

\* A regular file the system refuses to mknod is created and closed.
posix_mknod(c) ==
    (IF c.how = "creat" THEN << Out("creat"), Or("close", 0) >> ELSE << Out("mknod") >>)
        \o << Out("lchown"), Out("lstat") >>

posix_mkdir(c) == << Out("mkdir"), Out("chown"), Out("lstat") >>

posix_unlink(c) == << Or("cache_flush", 0), Out("unlink") >>

posix_rmdir(c) == << Or("cache_flush", 0), Out("rmdir") >>

posix_symlink(c) == << Out("symlink"), Out("lchown"), Out("lstat") >>

posix_rename(c) == << Or("cache_flush", 0), Out("rename"), Out("lstat_new") >>

posix_link(c) == << Out("link"), Out("lstat_new") >>

posix_chmod(c) ==
    IF c.how = "symlink" THEN << Out("lstat") >> ELSE << Out("chmod"), Out("lstat") >>

posix_chown(c) == << Out("lchown"), Out("lstat") >>

posix_truncate(c) == << Out("truncate"), Out("lstat") >>

posix_utimens(c) == << Out("utimes"), Out("lstat") >>

\* Of the descriptor opened nothing is closed when chown or fstat fails.
posix_create(c) ==
    << Out("creat"), Out("chown"), Out("fstat_own"), Or("ctx_set", 0) >>

posix_open(c) == << Out("open"), Or("ctx_set", 0) >>

posix_readv(c) ==
    << GetCtx >> \o (IF c.how = "size_0" THEN << Out("refuse") >>
                     ELSE << Out("lseek"), Out("transfer"), Out("fstat") >>)

\* With O_DIRECT buffers are written one by one: a failure after the first ends the writing.
posix_writev(c) ==
    << GetCtx, Out("lseek"), Out("transfer") >>
        \o (IF c.how = "o_direct" THEN << Or("transfer", 0) >> ELSE << >>)
        \o << Out("fstat") >>

posix_statfs(c) == << Out("statvfs") >>

posix_flush(c) == << GetCtx, Or("cache_flush_all", 0) >>

posix_release == << Or("cache_flush", 0), Or("close_fd", 0) >>

\* A failed fsync is answered like one that was done.
posix_fsync(c) == << GetCtx, Or("fsync", 0) >>

\* The file is truncated, written and closed, then opened and written once more; only with
\* XATTR_REPLACE, and an empty value leaves the first descriptor open.
set_file_contents(c) ==
    IF c.how = "no_replace" THEN << >>
    ELSE (IF c.how = "replace_empty" THEN << Or("open_entry", 1), Or("lose", 0) >>
          ELSE << Or("open_entry", 2), Out("write_own"), Out("close") >>)
             \o << Out("creat_entry"), Out("write_own"), Out("close") >>

handle_pair(c) == IF c.how = "xattr" THEN << Out("lsetxattr") >> ELSE set_file_contents(c)

posix_setxattr(c) == handle_pair(c)

get_file_contents(c) ==
    << Out("lstat_entry"), Out("open_entry"), Out("read_own"), Out("close") >>

\* The names are listed, then one is read: a name that is gone ends the reading.
posix_getxattr(c) ==
    (IF c.how = "content" THEN get_file_contents(c) ELSE << >>)
        \o << Out("llistxattr"), Or("llistxattr", 0), Or("lgetxattr", 1), Or("lgetxattr", 0) >>

posix_removexattr(c) == << Out("lremovexattr") >>

posix_fsyncdir(c) == << GetCtx >>

\* One key: the cached array is read, the sum is written to the cache.
posix_xattrop_common == << Or("cache_read", 0), Or("cache_write", 0) >>

posix_xattrop(c) == posix_xattrop_common

posix_fxattrop(c) == posix_xattrop_common

posix_access(c) == << Out("access") >>

posix_ftruncate(c) == << GetCtx, Out("ftruncate"), Out("fstat") >>

posix_fchown(c) == << GetCtx, Out("fchown"), Out("fstat") >>

posix_fchmod(c) == << GetCtx, Out("fchmod"), Out("fstat") >>

\* The type of an entry that exists already: the one asked for, or (also when lstat fails) not.
ensure_file_type(c) == IF c.how = "other_type" THEN << Or("lstat_entry", 0) >> ELSE << >>

\* With GF_SET_DIR_ONLY a file is passed over. An entry of another type has its times set like
\* any other, and only then is the call given up.
create_entry(c) ==
    (CASE c.how \in {"existing", "other_type"} -> ensure_file_type(c)
       [] c.how = "dir_only" -> << >>
       [] c.how = "file" -> << Out("creat_entry"), Or("close", 0) >>
       [] OTHER -> << Out("make_entry") >>)
        \o (IF c.how = "symlink" THEN << >> ELSE << Out("utimes_entry") >>)
        \o (IF c.how = "other_type" THEN << Out("refuse") >> ELSE << >>)

posix_setdents(c) ==
    << GetCtx, Or("cache_flush_all", 0) >> \o create_entry(c)
        \o (IF c.how = "symlink" THEN << >> ELSE << Out("chmod_entry") >>)
        \o << Out("lchown_entry") >>
        \o (IF c.how = "epoch" THEN << Out("utimes_entry") >> ELSE << >>)

posix_fstat(c) == << GetCtx, Out("fstat") >>

\* Without features/locks above it, storage/posix answers ENOSYS to every lock request.
posix_lk(c) == << Out("refuse") >>

posix_inodelk(c) == << Out("refuse") >>

posix_finodelk(c) == << Out("refuse") >>

posix_entrylk(c) == << Out("refuse") >>

posix_fentrylk(c) == << Out("refuse") >>

\* The stream is set to the offset and read; the end of the stream ends the call.
posix_readdir(c) == << GetCtx, Or("seekdir", 0), Out("telldir"), Or("readdir", 0) >>

posix_stats(c) == << Out("statvfs"), Out("gettimeofday"), Out("gettimeofday") >>

posix_checksum(c) ==
    << Out("open"), Or("readdir", 1), Or("lstat_entry", 0), Or("close", 0) >>

\* The table of calls.
posix_fops(c) ==
    CASE c.op = "lookup" -> posix_lookup(c)           [] c.op = "stat" -> posix_stat(c)
      [] c.op = "opendir" -> posix_opendir(c)         [] c.op = "getdents" -> posix_getdents(c)
      [] c.op = "readlink" -> posix_readlink(c)       [] c.op = "mknod" -> posix_mknod(c)
      [] c.op = "mkdir" -> posix_mkdir(c)             [] c.op = "unlink" -> posix_unlink(c)
      [] c.op = "rmdir" -> posix_rmdir(c)             [] c.op = "symlink" -> posix_symlink(c)
      [] c.op = "rename" -> posix_rename(c)           [] c.op = "link" -> posix_link(c)
      [] c.op = "chmod" -> posix_chmod(c)             [] c.op = "chown" -> posix_chown(c)
      [] c.op = "truncate" -> posix_truncate(c)       [] c.op = "utimens" -> posix_utimens(c)
      [] c.op = "create" -> posix_create(c)           [] c.op = "open" -> posix_open(c)
      [] c.op = "readv" -> posix_readv(c)             [] c.op = "writev" -> posix_writev(c)
      [] c.op = "statfs" -> posix_statfs(c)           [] c.op = "flush" -> posix_flush(c)
      [] c.op = "fsync" -> posix_fsync(c)             [] c.op = "setxattr" -> posix_setxattr(c)
      [] c.op = "getxattr" -> posix_getxattr(c)       [] c.op = "removexattr" -> posix_removexattr(c)
      [] c.op = "fsyncdir" -> posix_fsyncdir(c)       [] c.op = "xattrop" -> posix_xattrop(c)
      [] c.op = "fxattrop" -> posix_fxattrop(c)       [] c.op = "access" -> posix_access(c)
      [] c.op = "ftruncate" -> posix_ftruncate(c)     [] c.op = "fchown" -> posix_fchown(c)
      [] c.op = "fchmod" -> posix_fchmod(c)           [] c.op = "setdents" -> posix_setdents(c)
      [] c.op = "fstat" -> posix_fstat(c)             [] c.op = "readdir" -> posix_readdir(c)
      [] c.op = "stats" -> posix_stats(c)             [] c.op = "checksum" -> posix_checksum(c)
      [] c.op = "lk" -> posix_lk(c)                   [] c.op = "inodelk" -> posix_inodelk(c)
      [] c.op = "finodelk" -> posix_finodelk(c)       [] c.op = "entrylk" -> posix_entrylk(c)
      [] c.op = "fentrylk" -> posix_fentrylk(c)

\* The calls that close a descriptor of their own when they fail.
ClosesItsOwn == {"opendir", "open", "getxattr"}
=============================================================================
