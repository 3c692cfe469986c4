------------------------------ MODULE ServerFops ------------------------------
(***************************************************************************)
(* The functions of protocol/server that take part in a remote call:       *)
(*   server_<fop>               resolves what the request names            *)
(*   server_stub_resume_<fop>   goes on after a walk of the path           *)
(*   server_<fop>_resume        winds the call to the exported volume      *)
(*   server_<fop>_cbk           updates the tables and replies             *)
(***************************************************************************)

\* What server_<fop> () must find in its tables before it winds the call to the
\* exported volume; with a part of a path missing it calls do_path_lookup () first,
\* with no descriptor in the slot it answers with an error.
server_lookup == {"parent"}
server_stat == {"parent", "inode"}
server_readlink == {"parent", "inode"}
server_access == {"parent", "inode"}
server_mknod == {"parent"}
server_mkdir == {"parent"}
server_symlink == {"parent"}
server_create == {"parent"}
server_unlink == {"parent", "inode"}
server_rmdir == {"parent", "inode"}
server_link == {"parent", "inode"}
server_rename == {"parent", "inode"}
server_open == {"parent", "inode"}
server_opendir == {"parent", "inode"}
server_chmod == {"parent", "inode"}
server_chown == {"parent", "inode"}
server_utimens == {"parent", "inode"}
server_truncate == {"parent", "inode"}
server_setxattr == {"parent", "inode"}
server_getxattr == {"parent", "inode"}
server_removexattr == {"parent", "inode"}
server_xattrop == {"parent", "inode"}
server_inodelk == {"parent", "inode"}
server_entrylk == {"parent", "inode"}
server_statfs == {}
server_checksum == {}
server_readv == {"fd"}
server_writev == {"fd"}
server_flush == {"fd"}
server_fsync == {"fd"}
server_fstat == {"fd"}
server_ftruncate == {"fd"}
server_fchmod == {"fd"}
server_fchown == {"fd"}
server_fxattrop == {"fd"}
server_lk == {"fd"}
server_finodelk == {"fd"}
server_fentrylk == {"fd"}
server_getdents == {"fd"}
server_setdents == {"fd"}
server_readdir == {"fd"}
server_fsyncdir == {"fd"}

\* What the walk of do_path_lookup () must have found for server_stub_resume () to
\* go on with the call; without it the call is answered with ENOENT.
server_stub_resume_lookup == {"inode"}
server_stub_resume_stat == {"inode"}
server_stub_resume_readlink == {"inode"}
server_stub_resume_access == {"inode"}
server_stub_resume_mknod == {"parent"}
server_stub_resume_mkdir == {"parent"}
server_stub_resume_symlink == {"parent"}
server_stub_resume_create == {"parent"}
server_stub_resume_unlink == {"inode"}
server_stub_resume_rmdir == {"inode"}
server_stub_resume_link == {"inode"}
server_stub_resume_rename == {"inode"}
server_stub_resume_open == {"inode"}
server_stub_resume_opendir == {"inode"}
server_stub_resume_chmod == {"inode"}
server_stub_resume_chown == {"inode"}
server_stub_resume_utimens == {"inode"}
server_stub_resume_truncate == {"inode"}
server_stub_resume_setxattr == {"inode"}
server_stub_resume_getxattr == {"inode"}
server_stub_resume_removexattr == {"inode"}
server_stub_resume_xattrop == {"inode"}
server_stub_resume_inodelk == {"inode"}
server_stub_resume_entrylk == {"inode"}

\* What server_<fop>_resume () makes before it winds the call: a fresh inode for a
\* name that will be created or looked up, a fresh fd.
server_lookup_resume == {"inode"}
server_stat_resume == {}
server_readlink_resume == {}
server_access_resume == {}
server_mknod_resume == {"inode"}
server_mkdir_resume == {"inode"}
server_symlink_resume == {"inode"}
server_create_resume == {"inode", "fd"}
server_unlink_resume == {}
server_rmdir_resume == {}
server_link_resume == {}
server_rename_resume == {}
server_open_resume == {"fd"}
server_opendir_resume == {"fd"}
server_chmod_resume == {}
server_chown_resume == {}
server_utimens_resume == {}
server_truncate_resume == {}
server_setxattr_resume == {}
server_getxattr_resume == {}
server_removexattr_resume == {}
server_xattrop_resume == {}
server_inodelk_resume == {}
server_entrylk_resume == {}

\* What server_<fop>_cbk () does to the tables of the server when the volume
\* reports success: "link", "unlink" and "rename" entries of the inode table, take a
\* "lookup" reference for the client, install the "fd" in the connection's table,
\* enter or remove a "locker". It then replies.
server_lookup_cbk == {"link", "lookup"}
server_stat_cbk == {}
server_readlink_cbk == {}
server_access_cbk == {}
server_mknod_cbk == {"link", "lookup"}
server_mkdir_cbk == {"link", "lookup"}
server_symlink_cbk == {"link", "lookup"}
server_create_cbk == {"link", "lookup", "fd"}
server_unlink_cbk == {"unlink"}
server_rmdir_cbk == {"unlink"}
server_link_cbk == {"link"}
server_rename_cbk == {"rename"}
server_open_cbk == {"fd"}
server_opendir_cbk == {"fd"}
server_chmod_cbk == {}
server_chown_cbk == {}
server_utimens_cbk == {}
server_truncate_cbk == {}
server_setxattr_cbk == {}
server_getxattr_cbk == {}
server_removexattr_cbk == {}
server_xattrop_cbk == {}
server_inodelk_cbk == {"locker"}
server_entrylk_cbk == {"locker"}
server_statfs_cbk == {}
server_checksum_cbk == {}
server_readv_cbk == {}
server_writev_cbk == {}
server_flush_cbk == {}
server_fsync_cbk == {}
server_fstat_cbk == {}
server_ftruncate_cbk == {}
server_fchmod_cbk == {}
server_fchown_cbk == {}
server_fxattrop_cbk == {}
server_lk_cbk == {}
server_finodelk_cbk == {"locker"}
server_fentrylk_cbk == {"locker"}
server_getdents_cbk == {}
server_setdents_cbk == {}
server_readdir_cbk == {}
server_fsyncdir_cbk == {}
=============================================================================
