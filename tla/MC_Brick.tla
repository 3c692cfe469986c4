------------------------------ MODULE MC_Brick ------------------------------
(***************************************************************************)
(* A brick with a file 1 open twice, a file 2 and a directory 3, and the   *)
(* sets of calls asked of it.                                              *)
(***************************************************************************)
EXTENDS Brick

C(op) == [op |-> op, fd |-> 0, name |-> "p", name2 |-> "q", owner |-> 1, off |-> 0, how |-> "plain",
          via |-> "server", lk |-> [cmd |-> "none", ty |-> "UN", s |-> 0, len |-> 0]]
On(f, op) == [C(op) EXCEPT !.fd = f]
At(f, op, off) == [On(f, op) EXCEPT !.off = off]
Of(name, op) == [C(op) EXCEPT !.name = name]
To(name, op, name2) == [C(op) EXCEPT !.name = name, !.name2 = name2]
How(c, hows) == {[c EXCEPT !.how = h] : h \in hows}
By(o, calls) == {[c EXCEPT !.owner = o] : c \in calls}
Lk(o, cmd, ty, s, len) ==
    [On(o, "lk") EXCEPT !.owner = o, !.lk = [cmd |-> cmd, ty |-> ty, s |-> s, len |-> len]]

Fd(i, ctx, worker, pid) == [ino |-> i, ref |-> 1, ctx |-> ctx, worker |-> worker, pid |-> pid,
                            listed |-> TRUE, bound |-> TRUE, dir |-> FALSE]
Dir(i, ctx) == [Fd(i, ctx, 0, 2) EXCEPT !.dir = TRUE]

\* Descriptor 1 was created, 2 opened later; 3 is not in use.
Both == [f \in Fds |-> CASE f = 1 -> Fd(1, 1, iot_create_cbk(1), 1)
                         [] f = 2 -> Fd(1, 2, iot_open_cbk(1), 2)
                         [] OTHER -> NoFd]
FileAndDir == [Both EXCEPT ![2] = Dir(3, 2)]

Load(calls, max) == [calls |-> calls, max |-> max, names |-> [p |-> 1, q |-> 2, n |-> 0, d |-> 3],
                     fds |-> Both, mandatory |-> FALSE, faulty |-> FALSE, closes |-> FALSE, locks |-> TRUE,
                     serial |-> FALSE]

\* Reads, writes and truncations of one file through two descriptors, while they are closed.
Offsets == [Load({At(1, "writev", 0), At(1, "readv", 2), At(2, "writev", 1), C("truncate")}, 3)
               EXCEPT !.closes = TRUE]

\* Record locks of two owners on three bytes, one request after the other and overlapping.
Locking == [Load({Lk(o, "setlkw", ty, at[1], at[2]) : o \in {1, 2}, ty \in {"RD", "WR", "UN"},
                                                     at \in {<< 0, 1 >>, << 2, 1 >>, << 0, 0 >>}}
                     \cup {Lk(1, "setlk", "WR", 0, 0), Lk(1, "getlk", "WR", 0, 1), On(1, "flush")}, 4)
               EXCEPT !.serial = TRUE]
Contending == Load({Lk(o, "setlkw", ty, at[1], at[2]) : o \in {1, 2}, ty \in {"RD", "WR", "UN"},
                                                       at \in {<< 2, 1 >>, << 0, 0 >>}}, 3)

\* Reads, writes and truncations under mandatory locks.
Mandatory == [Load({Lk(o, "setlkw", ty, 0, 0) : o \in {1, 2}, ty \in {"WR", "UN"}}
                       \cup {At(1, "writev", 0), [At(2, "writev", 0) EXCEPT !.owner = 2],
                             [At(2, "readv", 1) EXCEPT !.owner = 2], [On(1, "ftruncate") EXCEPT !.owner = 1],
                             [At(2, "writev", 1) EXCEPT !.owner = 2, !.how = "o_nonblock"]}, 3)
                 EXCEPT !.mandatory = TRUE]

\* Counting through paths and descriptors while files are flushed, renamed and removed.
Journal == [Load({C("xattrop"), Of("q", "xattrop"), Of("d", "xattrop"), On(1, "fxattrop"), On(1, "flush"),
                  Of("q", "unlink"), To("p", "rename", "q")}, 3) EXCEPT !.closes = TRUE, !.fds = [Both EXCEPT ![2] = NoFd]]

\* A file opened, created and counted for while it is removed.
Removal == [Load({C("unlink"), [C("open") EXCEPT !.fd = 3], [C("create") EXCEPT !.fd = 3], C("stat"), C("xattrop")}, 3)
               EXCEPT !.closes = TRUE, !.fds = [Both EXCEPT ![2] = NoFd]]

\* Every call, alone, with a system call that fails.
ByHa(calls) == calls \cup {[c EXCEPT !.via = "ha"] : c \in {x \in calls : x.op \in HaStubs}}
Singles ==
    {C(op) : op \in {"stat", "chown", "truncate", "utimens", "access", "readlink", "unlink", "statfs",
                     "removexattr", "checksum", "xattrop", "inodelk", "entrylk", "stats"}}
        \cup {On(1, op) : op \in {"fstat", "fchmod", "fchown", "ftruncate", "flush", "fsync", "fxattrop",
                                  "finodelk", "fentrylk"}}
        \cup {On(2, op) : op \in {"getdents", "fsyncdir", "readdir"}}
        \cup {Of("n", op) : op \in {"mkdir", "symlink"}}
        \cup {[Of(p, op) EXCEPT !.fd = 3] : p \in {"p", "n"}, op \in {"open", "create"}}
        \cup {[Of("d", "opendir") EXCEPT !.fd = 3], Of("d", "rmdir"), To("p", "rename", "n"), To("p", "link", "n"),
              Lk(1, "setlkw", "WR", 0, 0), [C("stat") EXCEPT !.owner = 3], Of("n", "stat"), Of("n", "setxattr"), Of("n", "lookup")}
        \cup How(C("lookup"), {"content", "no_xattr", "other_device", "plain"})
        \cup How(Of("n", "mknod"), {"plain", "creat"}) \cup How(C("chmod"), {"plain", "symlink"})
        \cup How(On(1, "readv"), {"plain", "size_0"}) \cup How(On(1, "writev"), {"plain", "o_direct"})
        \cup How(C("setxattr"), {"xattr", "no_replace", "replace", "replace_empty"})
        \cup How(C("getxattr"), {"plain", "content"})
        \cup How(On(2, "setdents"), {"existing", "other_type", "dir_only", "file", "symlink", "epoch", "dir"})
EveryCall == [Load(ByHa(Singles), 1) EXCEPT !.fds = FileAndDir, !.faulty = TRUE, !.closes = TRUE]
WithoutLocks == [EveryCall EXCEPT !.locks = FALSE]

MCLoads == [offsets |-> Offsets, locking |-> Locking, contending |-> Contending, mandatory |-> Mandatory, journal |-> Journal,
             removal |-> Removal,
             every |-> EveryCall, nolocks |-> WithoutLocks]
MCNames == {"p", "q", "n", "d"}
=============================================================================
