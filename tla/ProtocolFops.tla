----------------------------- MODULE ProtocolFops -----------------------------
(***************************************************************************)
(* The file operations (fops) of protocol/client and protocol/server: each *)
(* row of gf_fops joins the functions of ClientFops and ServerFops that a  *)
(* remote call goes through. Module Protocol runs the rows.                *)
(*                                                                         *)
(* A definition keeps what decides where the call goes and what it changes *)
(* in the tables of either side. Marshalling, stat buffers and dictionaries *)
(* are left out.                                                           *)
(***************************************************************************)
EXTENDS ClientFops, ServerFops

\* One row of the dispatch tables of both sides: the handlers a fop goes through.
\* Fops the server never walks a path for have no stub and no resume function.
Row(client, needs, must, makes, done, learns) ==
    [channel |-> client.channel, sends |-> client.sends, needs |-> needs,
     must |-> must, makes |-> makes, done |-> done, learns |-> learns]

\* gf_fops of client-protocol.c and of server-protocol.c, joined on the fop number.
gf_fops == [
    lookup |->
        Row(client_lookup, server_lookup, server_stub_resume_lookup,
            server_lookup_resume, server_lookup_cbk, client_lookup_cbk),
    stat |->
        Row(client_stat, server_stat, server_stub_resume_stat,
            server_stat_resume, server_stat_cbk, client_stat_cbk),
    readlink |->
        Row(client_readlink, server_readlink, server_stub_resume_readlink,
            server_readlink_resume, server_readlink_cbk, client_readlink_cbk),
    access |->
        Row(client_access, server_access, server_stub_resume_access,
            server_access_resume, server_access_cbk, client_access_cbk),
    mknod |->
        Row(client_mknod, server_mknod, server_stub_resume_mknod,
            server_mknod_resume, server_mknod_cbk, client_mknod_cbk),
    mkdir |->
        Row(client_mkdir, server_mkdir, server_stub_resume_mkdir,
            server_mkdir_resume, server_mkdir_cbk, client_mkdir_cbk),
    symlink |->
        Row(client_symlink, server_symlink, server_stub_resume_symlink,
            server_symlink_resume, server_symlink_cbk, client_symlink_cbk),
    create |->
        Row(client_create, server_create, server_stub_resume_create,
            server_create_resume, server_create_cbk, client_create_cbk),
    unlink |->
        Row(client_unlink, server_unlink, server_stub_resume_unlink,
            server_unlink_resume, server_unlink_cbk, client_unlink_cbk),
    rmdir |->
        Row(client_rmdir, server_rmdir, server_stub_resume_rmdir,
            server_rmdir_resume, server_rmdir_cbk, client_rmdir_cbk),
    link |->
        Row(client_link, server_link, server_stub_resume_link,
            server_link_resume, server_link_cbk, client_link_cbk),
    rename |->
        Row(client_rename, server_rename, server_stub_resume_rename,
            server_rename_resume, server_rename_cbk, client_rename_cbk),
    open |->
        Row(client_open, server_open, server_stub_resume_open,
            server_open_resume, server_open_cbk, client_open_cbk),
    opendir |->
        Row(client_opendir, server_opendir, server_stub_resume_opendir,
            server_opendir_resume, server_opendir_cbk, client_opendir_cbk),
    chmod |->
        Row(client_chmod, server_chmod, server_stub_resume_chmod,
            server_chmod_resume, server_chmod_cbk, client_chmod_cbk),
    chown |->
        Row(client_chown, server_chown, server_stub_resume_chown,
            server_chown_resume, server_chown_cbk, client_chown_cbk),
    utimens |->
        Row(client_utimens, server_utimens, server_stub_resume_utimens,
            server_utimens_resume, server_utimens_cbk, client_utimens_cbk),
    truncate |->
        Row(client_truncate, server_truncate, server_stub_resume_truncate,
            server_truncate_resume, server_truncate_cbk, client_truncate_cbk),
    setxattr |->
        Row(client_setxattr, server_setxattr, server_stub_resume_setxattr,
            server_setxattr_resume, server_setxattr_cbk, client_setxattr_cbk),
    getxattr |->
        Row(client_getxattr, server_getxattr, server_stub_resume_getxattr,
            server_getxattr_resume, server_getxattr_cbk, client_getxattr_cbk),
    removexattr |->
        Row(client_removexattr, server_removexattr, server_stub_resume_removexattr,
            server_removexattr_resume, server_removexattr_cbk, client_removexattr_cbk),
    xattrop |->
        Row(client_xattrop, server_xattrop, server_stub_resume_xattrop,
            server_xattrop_resume, server_xattrop_cbk, client_xattrop_cbk),
    inodelk |->
        Row(client_inodelk, server_inodelk, server_stub_resume_inodelk,
            server_inodelk_resume, server_inodelk_cbk, client_inodelk_cbk),
    entrylk |->
        Row(client_entrylk, server_entrylk, server_stub_resume_entrylk,
            server_entrylk_resume, server_entrylk_cbk, client_entrylk_cbk),
    statfs |->
        Row(client_statfs, server_statfs, {},
            {}, server_statfs_cbk, client_statfs_cbk),
    checksum |->
        Row(client_checksum, server_checksum, {},
            {}, server_checksum_cbk, client_checksum_cbk),
    readv |->
        Row(client_readv, server_readv, {},
            {}, server_readv_cbk, client_readv_cbk),
    writev |->
        Row(client_writev, server_writev, {},
            {}, server_writev_cbk, client_write_cbk),
    flush |->
        Row(client_flush, server_flush, {},
            {}, server_flush_cbk, client_flush_cbk),
    fsync |->
        Row(client_fsync, server_fsync, {},
            {}, server_fsync_cbk, client_fsync_cbk),
    fstat |->
        Row(client_fstat, server_fstat, {},
            {}, server_fstat_cbk, client_fstat_cbk),
    ftruncate |->
        Row(client_ftruncate, server_ftruncate, {},
            {}, server_ftruncate_cbk, client_ftruncate_cbk),
    fchmod |->
        Row(client_fchmod, server_fchmod, {},
            {}, server_fchmod_cbk, client_fchmod_cbk),
    fchown |->
        Row(client_fchown, server_fchown, {},
            {}, server_fchown_cbk, client_fchown_cbk),
    fxattrop |->
        Row(client_fxattrop, server_fxattrop, {},
            {}, server_fxattrop_cbk, client_fxattrop_cbk),
    lk |->
        Row(client_lk, server_lk, {},
            {}, server_lk_cbk, client_lk_common_cbk),
    finodelk |->
        Row(client_finodelk, server_finodelk, {},
            {}, server_finodelk_cbk, client_finodelk_cbk),
    fentrylk |->
        Row(client_fentrylk, server_fentrylk, {},
            {}, server_fentrylk_cbk, client_fentrylk_cbk),
    getdents |->
        Row(client_getdents, server_getdents, {},
            {}, server_getdents_cbk, client_getdents_cbk),
    setdents |->
        Row(client_setdents, server_setdents, {},
            {}, server_setdents_cbk, client_setdents_cbk),
    readdir |->
        Row(client_readdir, server_readdir, {},
            {}, server_readdir_cbk, client_readdir_cbk),
    fsyncdir |->
        Row(client_fsyncdir, server_fsyncdir, {},
            {}, server_fsyncdir_cbk, client_fsyncdir_cbk)]

Fops == DOMAIN gf_fops

\* The two ends of the wire agree, fop by fop. The server looks a descriptor up
\* exactly when the client sends one; the client remembers a descriptor exactly
\* when the server has installed the one it had made, and then it has sent none;
\* the client remembers an inode number exactly when the server has taken the
\* lookup reference that a later forget gives back. Every fop has one of the two
\* channels.
ASSUME EndsAgree ==
    \A f \in Fops : LET r == gf_fops[f] IN
        /\ r.channel \in {"lowlat", "bulk"}
        /\ ("fd" \in r.sends) = ("fd" \in r.needs)
        /\ ("fd" \in r.learns) = ("fd" \in r.done)
        /\ ~("fd" \in r.sends /\ "fd" \in r.learns)
        /\ ("fd" \in r.done) = ("fd" \in r.makes)
        /\ ("ino" \in r.learns) = ("lookup" \in r.done)
        /\ "lookup" \in r.done => "link" \in r.done /\ "inode" \in r.makes

=============================================================================
