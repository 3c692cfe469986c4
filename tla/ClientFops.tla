------------------------------ MODULE ClientFops ------------------------------
(***************************************************************************)
(* The functions of protocol/client that take part in a remote call:       *)
(*   client_<fop>               builds the request and picks a channel     *)
(*   client_<fop>_cbk           remembers what the reply tells             *)
(***************************************************************************)

\* What client_<fop> () puts on the wire: the channel its transport is taken from
\* and the keys that name the object: "ino" the inode number the client remembers
\* for it, "par" the one of its parent directory, "fd" the remote descriptor.
client_lookup == [channel |-> "lowlat", sends |-> {"par"}]
client_stat == [channel |-> "lowlat", sends |-> {"ino"}]
client_readlink == [channel |-> "lowlat", sends |-> {"ino"}]
client_access == [channel |-> "lowlat", sends |-> {"ino"}]
client_mknod == [channel |-> "lowlat", sends |-> {"par"}]
client_mkdir == [channel |-> "lowlat", sends |-> {"par"}]
client_symlink == [channel |-> "lowlat", sends |-> {"par"}]
client_create == [channel |-> "lowlat", sends |-> {"par"}]
client_unlink == [channel |-> "bulk", sends |-> {"par"}]
client_rmdir == [channel |-> "bulk", sends |-> {"par"}]
client_link == [channel |-> "lowlat", sends |-> {"ino", "par"}]
client_rename == [channel |-> "lowlat", sends |-> {"par"}]
client_open == [channel |-> "lowlat", sends |-> {"ino"}]
client_opendir == [channel |-> "lowlat", sends |-> {"ino"}]
client_chmod == [channel |-> "lowlat", sends |-> {"ino"}]
client_chown == [channel |-> "lowlat", sends |-> {"ino"}]
client_utimens == [channel |-> "lowlat", sends |-> {"ino"}]
client_truncate == [channel |-> "bulk", sends |-> {"ino"}]
client_setxattr == [channel |-> "bulk", sends |-> {"ino"}]
client_getxattr == [channel |-> "lowlat", sends |-> {"ino"}]
client_removexattr == [channel |-> "lowlat", sends |-> {"ino"}]
client_xattrop == [channel |-> "bulk", sends |-> {"ino"}]
client_inodelk == [channel |-> "bulk", sends |-> {"ino"}]
client_entrylk == [channel |-> "lowlat", sends |-> {"ino"}]
client_statfs == [channel |-> "lowlat", sends |-> {"ino"}]
client_checksum == [channel |-> "bulk", sends |-> {"ino"}]
client_readv == [channel |-> "bulk", sends |-> {"fd"}]
client_writev == [channel |-> "bulk", sends |-> {"fd"}]
client_flush == [channel |-> "bulk", sends |-> {"fd"}]
client_fsync == [channel |-> "bulk", sends |-> {"fd"}]
client_fstat == [channel |-> "bulk", sends |-> {"fd"}]
client_ftruncate == [channel |-> "bulk", sends |-> {"fd"}]
client_fchmod == [channel |-> "lowlat", sends |-> {"fd"}]
client_fchown == [channel |-> "lowlat", sends |-> {"fd"}]
client_fxattrop == [channel |-> "bulk", sends |-> {"fd"}]
client_lk == [channel |-> "bulk", sends |-> {"fd"}]
client_finodelk == [channel |-> "bulk", sends |-> {"fd"}]
client_fentrylk == [channel |-> "lowlat", sends |-> {"fd"}]
client_getdents == [channel |-> "bulk", sends |-> {"fd"}]
client_setdents == [channel |-> "bulk", sends |-> {"fd"}]
client_readdir == [channel |-> "lowlat", sends |-> {"fd"}]
client_fsyncdir == [channel |-> "bulk", sends |-> {"fd"}]

\* What client_<fop>_cbk () remembers of a successful reply: the inode number
\* ("ino", this_ino_set) and the remote descriptor ("fd", this_fd_set).
client_lookup_cbk == {"ino"}
client_stat_cbk == {}
client_readlink_cbk == {}
client_access_cbk == {}
client_mknod_cbk == {"ino"}
client_mkdir_cbk == {"ino"}
client_symlink_cbk == {"ino"}
client_create_cbk == {"ino", "fd"}
client_unlink_cbk == {}
client_rmdir_cbk == {}
client_link_cbk == {}
client_rename_cbk == {}
client_open_cbk == {"fd"}
client_opendir_cbk == {"fd"}
client_chmod_cbk == {}
client_chown_cbk == {}
client_utimens_cbk == {}
client_truncate_cbk == {}
client_setxattr_cbk == {}
client_getxattr_cbk == {}
client_removexattr_cbk == {}
client_xattrop_cbk == {}
client_inodelk_cbk == {}
client_entrylk_cbk == {}
client_statfs_cbk == {}
client_checksum_cbk == {}
client_readv_cbk == {}
client_write_cbk == {}
client_flush_cbk == {}
client_fsync_cbk == {}
client_fstat_cbk == {}
client_ftruncate_cbk == {}
client_fchmod_cbk == {}
client_fchown_cbk == {}
client_fxattrop_cbk == {}
client_lk_common_cbk == {}
client_finodelk_cbk == {}
client_fentrylk_cbk == {}
client_getdents_cbk == {}
client_setdents_cbk == {}
client_readdir_cbk == {}
client_fsyncdir_cbk == {}
=============================================================================
