------------------------------ MODULE CallStub ------------------------------
(***************************************************************************)
(* Call stubs of libglusterfs: a stub keeps a call's arguments until the   *)
(* call is resumed or given up.  A stub is modelled by the set of the      *)
(* arguments it keeps; each is a reference or a copy of its own, which the *)
(* destruction of the stub has to give back.                               *)
(***************************************************************************)

\* No stub: an argument the constructor insists on is NULL.
NoStub == {"none"}

\* A stub of a call with the arguments args, which must include needs, keeping those of keeps.
stub_new(args, needs, keeps) == IF needs \subseteq args THEN keeps \cap args ELSE NoStub

\* The constructors of libglusterfs/src/call-stub.c, one per call that is put into a stub.
fop_lookup_stub(args) == stub_new(args, {"loc"}, {"loc", "dict"})
fop_stat_stub(args) == stub_new(args, {"loc"}, {"loc"})
fop_fstat_stub(args) == stub_new(args, {}, {"fd"})
fop_chmod_stub(args) == stub_new(args, {"loc"}, {"loc"})
fop_fchmod_stub(args) == stub_new(args, {}, {"fd"})
fop_chown_stub(args) == stub_new(args, {"loc"}, {"loc"})
fop_fchown_stub(args) == stub_new(args, {}, {"fd"})
fop_truncate_stub(args) == stub_new(args, {"loc"}, {"loc"})
fop_ftruncate_stub(args) == stub_new(args, {}, {"fd"})
fop_utimens_stub(args) == stub_new(args, {"loc"}, {"loc"})
fop_access_stub(args) == stub_new(args, {"loc"}, {"loc"})
fop_readlink_stub(args) == stub_new(args, {"loc"}, {"loc"})
fop_mknod_stub(args) == stub_new(args, {"loc"}, {"loc"})
fop_mkdir_stub(args) == stub_new(args, {"loc"}, {"loc"})
fop_unlink_stub(args) == stub_new(args, {"loc"}, {"loc"})
fop_rmdir_stub(args) == stub_new(args, {"loc"}, {"loc"})
fop_symlink_stub(args) == stub_new(args, {"loc", "name"}, {"loc", "name"})
fop_rename_stub(args) == stub_new(args, {"loc", "newloc"}, {"loc", "newloc"})
fop_link_stub(args) == stub_new(args, {"loc", "newloc"}, {"loc", "newloc"})
fop_create_stub(args) == stub_new(args, {"loc"}, {"loc", "fd"})
fop_open_stub(args) == stub_new(args, {"loc"}, {"loc", "fd"})
fop_readv_stub(args) == stub_new(args, {}, {"fd"})
fop_writev_stub(args) == stub_new(args, {"vector"}, {"fd", "vector", "dict"})
fop_flush_stub(args) == stub_new(args, {}, {"fd"})
fop_fsync_stub(args) == stub_new(args, {}, {"fd"})
\* The descriptor is tested in the stub, still empty, and so never kept.
fop_opendir_stub(args) == stub_new(args, {"loc"}, {"loc"})
fop_getdents_stub(args) == stub_new(args, {}, {"fd"})
fop_fsyncdir_stub(args) == stub_new(args, {}, {"fd"})
fop_statfs_stub(args) == stub_new(args, {"loc"}, {"loc"})
fop_setxattr_stub(args) == stub_new(args, {"loc"}, {"loc", "dict"})
fop_getxattr_stub(args) == stub_new(args, {"loc"}, {"loc", "name"})
fop_removexattr_stub(args) == stub_new(args, {"loc", "name"}, {"loc", "name"})
fop_lk_stub(args) == stub_new(args, {"lock"}, {"fd"})
fop_inodelk_stub(args) == stub_new(args, {"lock"}, {"loc"})
fop_entrylk_stub(args) == stub_new(args, {}, {"loc", "name"})
\* The caller's list of entries passes to the stub.
fop_setdents_stub(args) == stub_new(args, {}, {"fd", "entries"})
fop_readdir_stub(args) == stub_new(args, {}, {"fd"})
fop_checksum_stub(args) == stub_new(args, {"loc"}, {"loc"})
fop_xattrop_stub(args) == stub_new(args, {"dict"}, {"loc", "dict"})
fop_fxattrop_stub(args) == stub_new(args, {"dict"}, {"fd", "dict"})

\* What the destruction of a stub gives back, one case per call.
destroy_lookup == {"loc", "dict"}
destroy_stat == {"loc"}
destroy_fstat == {"fd"}
destroy_chmod == {"loc"}
destroy_fchmod == {"fd"}
destroy_chown == {"loc"}
destroy_fchown == {"fd"}
destroy_truncate == {"loc"}
destroy_ftruncate == {"fd"}
destroy_utimens == {"loc"}
destroy_access == {"loc"}
destroy_readlink == {"loc"}
destroy_mknod == {"loc"}
destroy_mkdir == {"loc"}
destroy_unlink == {"loc"}
destroy_rmdir == {"loc"}
destroy_symlink == {"loc", "name"}
destroy_rename == {"loc", "newloc"}
destroy_link == {"loc", "newloc"}
destroy_create == {"loc", "fd"}
destroy_open == {"loc", "fd"}
destroy_readv == {"fd"}
\* Mutant: the descriptor is not given back.
WriteKeepsFd == {"vector", "dict"}
destroy_writev == {"fd", "vector", "dict"}
destroy_flush == {"fd"}
destroy_fsync == {"fd"}
destroy_opendir == {"loc", "fd"}
destroy_getdents == {"fd"}
destroy_fsyncdir == {"fd"}
destroy_statfs == {"loc"}
destroy_setxattr == {"loc", "dict"}
destroy_getxattr == {"loc", "name"}
destroy_removexattr == {"loc", "name"}
destroy_lk == {"fd"}
destroy_inodelk == {"loc"}
destroy_entrylk == {"loc", "name"}
destroy_setdents == {"fd", "entries"}
destroy_readdir == {"fd"}
destroy_checksum == {"loc"}
destroy_xattrop == {"loc", "dict"}
\* Gives back the dictionary of the other member of the union, which holds none.
destroy_fxattrop == {"fd"}

\* The stub of a call.
StubOf(op, args) ==
    CASE op = "lookup" -> fop_lookup_stub(args)
      [] op = "stat" -> fop_stat_stub(args)
      [] op = "fstat" -> fop_fstat_stub(args)
      [] op = "chmod" -> fop_chmod_stub(args)
      [] op = "fchmod" -> fop_fchmod_stub(args)
      [] op = "chown" -> fop_chown_stub(args)
      [] op = "fchown" -> fop_fchown_stub(args)
      [] op = "truncate" -> fop_truncate_stub(args)
      [] op = "ftruncate" -> fop_ftruncate_stub(args)
      [] op = "utimens" -> fop_utimens_stub(args)
      [] op = "access" -> fop_access_stub(args)
      [] op = "readlink" -> fop_readlink_stub(args)
      [] op = "mknod" -> fop_mknod_stub(args)
      [] op = "mkdir" -> fop_mkdir_stub(args)
      [] op = "unlink" -> fop_unlink_stub(args)
      [] op = "rmdir" -> fop_rmdir_stub(args)
      [] op = "symlink" -> fop_symlink_stub(args)
      [] op = "rename" -> fop_rename_stub(args)
      [] op = "link" -> fop_link_stub(args)
      [] op = "create" -> fop_create_stub(args)
      [] op = "open" -> fop_open_stub(args)
      [] op = "readv" -> fop_readv_stub(args)
      [] op = "writev" -> fop_writev_stub(args)
      [] op = "flush" -> fop_flush_stub(args)
      [] op = "fsync" -> fop_fsync_stub(args)
      [] op = "opendir" -> fop_opendir_stub(args)
      [] op = "getdents" -> fop_getdents_stub(args)
      [] op = "fsyncdir" -> fop_fsyncdir_stub(args)
      [] op = "statfs" -> fop_statfs_stub(args)
      [] op = "setxattr" -> fop_setxattr_stub(args)
      [] op = "getxattr" -> fop_getxattr_stub(args)
      [] op = "removexattr" -> fop_removexattr_stub(args)
      [] op = "lk" -> fop_lk_stub(args)
      [] op = "inodelk" -> fop_inodelk_stub(args)
      [] op = "entrylk" -> fop_entrylk_stub(args)
      [] op = "setdents" -> fop_setdents_stub(args)
      [] op = "readdir" -> fop_readdir_stub(args)
      [] op = "checksum" -> fop_checksum_stub(args)
      [] op = "xattrop" -> fop_xattrop_stub(args)
      [] op = "fxattrop" -> fop_fxattrop_stub(args)

\* The switch on the kind of the call.
call_stub_destroy_wind ==
    [ lookup |-> destroy_lookup, stat |-> destroy_stat, fstat |-> destroy_fstat,
      chmod |-> destroy_chmod, fchmod |-> destroy_fchmod, chown |-> destroy_chown,
      fchown |-> destroy_fchown, truncate |-> destroy_truncate, ftruncate |-> destroy_ftruncate,
      utimens |-> destroy_utimens, access |-> destroy_access, readlink |-> destroy_readlink,
      mknod |-> destroy_mknod, mkdir |-> destroy_mkdir, unlink |-> destroy_unlink,
      rmdir |-> destroy_rmdir, symlink |-> destroy_symlink, rename |-> destroy_rename,
      link |-> destroy_link, create |-> destroy_create, open |-> destroy_open,
      readv |-> destroy_readv, writev |-> destroy_writev, flush |-> destroy_flush,
      fsync |-> destroy_fsync, opendir |-> destroy_opendir, getdents |-> destroy_getdents,
      fsyncdir |-> destroy_fsyncdir, statfs |-> destroy_statfs, setxattr |-> destroy_setxattr,
      getxattr |-> destroy_getxattr, removexattr |-> destroy_removexattr, lk |-> destroy_lk,
      inodelk |-> destroy_inodelk, entrylk |-> destroy_entrylk, setdents |-> destroy_setdents,
      readdir |-> destroy_readdir, checksum |-> destroy_checksum, xattrop |-> destroy_xattrop,
      fxattrop |-> destroy_fxattrop ]

\* A stub destroyed gives back, of what it keeps, what its case names.
call_stub_destroy(op, stub) == IF stub = {} THEN {} ELSE stub \cap call_stub_destroy_wind[op]

\* A resumed call gets the arguments the stub keeps; the stub is then destroyed.
call_resume_wind(stub) == stub
=============================================================================
