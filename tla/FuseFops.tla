------------------------------ MODULE FuseFops ------------------------------
(***************************************************************************)
(* The handlers of the mount (xlators/mount/fuse/src/fuse-bridge.c), each  *)
(* reduced to what it does with inodes and descriptors:                    *)
(*   by     how the kernel names the object: its number ("ino"), a parent  *)
(*          and a name ("name"), a descriptor ("fd") or not at all         *)
(*   loc2   what fuse_loc_fill fills loc2 from ("none", "name", "ino")     *)
(*   needs  the handler gives EINVAL when no inode was found               *)
(*   inode  what then replaces loc.inode: a new inode in any case ("new"), *)
(*          one if none was found ("missing"), the inode of loc2 ("loc2")  *)
(*   opens  the handler makes a descriptor of loc.inode (fd_create)        *)
(*   fstat  a descriptor of the inode, if there is one, takes its place    *)
(*   cbk    the callback                                                   *)
(* Callbacks that do no more than answer and free the state are "answer".  *)
(***************************************************************************)

Row(by, needs, cbk) ==
    [by |-> by, loc2 |-> "none", needs |-> needs, inode |-> "found", opens |-> FALSE,
     fstat |-> FALSE, cbk |-> cbk]
Make(cbk) == [Row("name", FALSE, cbk) EXCEPT !.inode = "new"]

fuse_attr_cbk == "answer"
fuse_err_cbk == "answer"
fuse_readlink_cbk == "answer"
fuse_readv_cbk == "answer"
fuse_writev_cbk == "answer"
fuse_readdir_cbk == "answer"
fuse_statfs_cbk == "answer"
fuse_xattr_cbk == "answer"
fuse_getlk_cbk == "answer"
fuse_setlk_cbk == "answer"

OnInode(cbk) == Row("ino", TRUE, cbk)
OnFd(cbk) == Row("fd", FALSE, cbk)

fuse_lookup == [Row("name", FALSE, "entry") EXCEPT !.inode = "missing"]
\* Of the root it is a lookup; otherwise of the inode, or of a descriptor of it.
fuse_getattr(ino) == IF ino = 1 THEN Row("ino", FALSE, "entry")
                     ELSE [OnInode(fuse_attr_cbk) EXCEPT !.fstat = TRUE]

\* fuse_setattr goes by the descriptor if the kernel names one.
do_chmod == {OnFd(fuse_attr_cbk), OnInode(fuse_attr_cbk)}
do_chown == {OnFd(fuse_attr_cbk), OnInode(fuse_attr_cbk)}
do_truncate == {OnFd(fuse_attr_cbk), OnInode(fuse_attr_cbk)}
do_utimes == {OnInode(fuse_attr_cbk)}
fuse_setattr(ino) == do_chmod \cup do_chown \cup do_truncate \cup do_utimes \cup {fuse_getattr(ino)}

fuse_access == OnInode(fuse_err_cbk)
fuse_readlink == OnInode(fuse_readlink_cbk)
fuse_mknod == Make("entry")
fuse_mkdir == Make("entry")
fuse_symlink == Make("entry")
fuse_unlink == Row("name", TRUE, "unlink")
fuse_rmdir == Row("name", TRUE, "unlink")
fuse_rename == [Row("name", TRUE, "rename") EXCEPT !.loc2 = "name"]
fuse_link == [Row("name", FALSE, "entry") EXCEPT !.loc2 = "ino", !.inode = "loc2"]
fuse_create == [Make("create") EXCEPT !.opens = TRUE]
fuse_open == [OnInode("fd") EXCEPT !.opens = TRUE]
fuse_opendir == [OnInode("fd") EXCEPT !.opens = TRUE]

fuse_readv == OnFd(fuse_readv_cbk)
fuse_write == OnFd(fuse_writev_cbk)
fuse_flush == OnFd(fuse_err_cbk)
fuse_fsync == OnFd(fuse_err_cbk)
fuse_readdir == OnFd(fuse_readdir_cbk)
fuse_fsyncdir == OnFd(fuse_err_cbk)
fuse_getlk == OnFd(fuse_getlk_cbk)
fuse_setlk == OnFd(fuse_setlk_cbk)

fuse_statfs == OnInode(fuse_statfs_cbk)
fuse_setxattr == OnInode(fuse_err_cbk)
fuse_getxattr == OnInode(fuse_xattr_cbk)
fuse_listxattr == OnInode(fuse_xattr_cbk)
fuse_removexattr == OnInode(fuse_err_cbk)

\* struct fuse_lowlevel_ops, by what the kernel names.
fuse_ops(ino) ==
    {fuse_lookup, fuse_getattr(ino), fuse_access, fuse_readlink, fuse_mknod, fuse_mkdir,
     fuse_symlink, fuse_unlink, fuse_rmdir, fuse_rename, fuse_link, fuse_create, fuse_open,
     fuse_opendir, fuse_readv, fuse_write, fuse_flush, fuse_fsync, fuse_readdir,
     fuse_fsyncdir, fuse_getlk, fuse_setlk, fuse_statfs, fuse_setxattr, fuse_getxattr,
     fuse_listxattr, fuse_removexattr} \cup fuse_setattr(ino)
=============================================================================
