------------------------------- MODULE Brick -------------------------------
(***************************************************************************)
(* A brick: protocol/server over performance/io-threads over               *)
(* features/locks over storage/posix.  Requests arrive in the poll thread; *)
(* io-threads hands some to its workers; a thread runs a call as a         *)
(* sequence of steps, each a system call or a section under one lock.      *)
(***************************************************************************)
EXTENDS IoThreads, CallStub, PosixFops, PosixLocks, XattrCache

CONSTANTS
    Loads,      \* Loads[l]: what is asked of the brick, [calls, max, names, fds, mandatory, faulty, closes, locks, serial]
    Names,      \* paths
    Fds,        \* descriptors of the server (fd_t)
    MaxIno,     \* inodes there can be
    MaxOs,      \* descriptors of the operating system in use at once
    MaxFaults,  \* system calls that fail without a reason the model shows
    CacheSize   \* entries of the attribute cache (16 in the code)

VARIABLES
    load,       \* the load considered
    req,        \* the requests, in the order of their arrival
    stack,      \* stack[t]: the calls thread t is in, innermost first
    queue,      \* queue[w]: the requests handed to worker w
    misc,       \* running index of calls without a file
    fds,        \* fds[f]: [ino, ref, ctx, worker, pid, listed, bound, dir]
    os,         \* os[d]: the file a system descriptor has open and its position
    names,      \* names[p]: the inode a path names, 0 when there is none
    view,       \* view[p]: the same in the server's inode table
    nextIno,    \* the next inode number
    disk,       \* disk[i]: the count stored as the attribute of an inode
    cache,      \* the attribute cache
    strayed,    \* inodes met by a handle that led elsewhere
    locks,      \* locks[i]: the record locks of an inode
    rws,        \* rws[i]: reads and writes that wait for a mandatory lock
    kept,       \* kept[x]: arguments of kind x the living stubs own
    lost,       \* system descriptors nobody will close
    faults,     \* unexplained failures so far
    crashed,    \* the process is gone
    added,      \* added[i]: xattrops that have changed the count of an inode
    promised    \* promised[i]: the <<owner, byte, type>> owners were told they hold

vars == << load, req, stack, queue, misc, fds, os, names, view, nextIno, disk, cache,
           strayed, locks, rws, kept, lost, faults, crashed, added, promised >>

Asked == Loads[load]
Inodes == 1 .. MaxIno
EntryIno == MaxIno + 1
Kinds == {"loc", "newloc", "fd", "dict", "name", "vector", "entries", "lock"}
Layers == {"server", "iot", "locks", "ha"}
Free == [ino |-> 0, pos |-> 0]
NoFd == [ino |-> 0, ref |-> 0, ctx |-> 0, worker |-> 0, pid |-> 0, listed |-> FALSE, bound |-> FALSE, dir |-> FALSE]

\* The kinds of calls, by what they take.
ByFd == {"fstat", "fchmod", "fchown", "ftruncate", "readv", "writev", "flush", "fsync", "getdents",
         "fsyncdir", "lk", "setdents", "readdir", "fxattrop", "finodelk", "fentrylk"}
Opening == {"open", "create", "opendir"}
Making == {"mknod", "mkdir", "symlink", "create"}
ByPath == {"lookup", "stat", "chmod", "chown", "truncate", "utimens", "access", "readlink", "mknod",
           "mkdir", "unlink", "rmdir", "symlink", "rename", "link", "create", "open", "opendir",
           "statfs", "setxattr", "getxattr", "removexattr", "checksum", "xattrop", "inodelk", "entrylk"}
\* The calls protocol/server keeps in a stub while it looks their path up.
ServerStubs == {"lookup", "stat", "chmod", "chown", "truncate", "utimens", "access", "readlink", "mknod",
                "mkdir", "unlink", "rmdir", "symlink", "rename", "link", "create", "open", "opendir",
                "setxattr", "getxattr", "removexattr", "xattrop", "inodelk", "entrylk"}
\* The calls cluster/ha keeps in a stub until they are answered.
HaStubs == (ByFd \cup ByPath) \ {"lookup", "open", "opendir", "finodelk", "fentrylk"}

\* The arguments of a call; protocol/server creates the descriptor after the path is resolved.
Args(c, layer) ==
    (IF c.op \in ByPath THEN {"loc", "newloc", "dict", "name", "lock"}
     ELSE {"dict", "name", "vector", "entries", "lock"})
        \cup (IF c.op \in ByFd \/ (c.op \in Opening /\ layer # "server") THEN {"fd"} ELSE {})

------------------------------------------------------------------------------
Init ==
    /\ load \in DOMAIN Loads
    /\ req = << >>
    /\ stack = [t \in Threads |-> << >>]
    /\ queue = [w \in Workers |-> << >>]
    /\ misc = 0
    /\ fds = [f \in Fds |-> Asked.fds[f]]
    /\ os = [n \in 1 .. MaxOs |->
                IF \E f \in Fds : fds[f].ctx = n
                THEN [ino |-> fds[CHOOSE f \in Fds : fds[f].ctx = n].ino, pos |-> 0] ELSE Free]
    /\ names = Asked.names
    /\ view = Asked.names
    /\ nextIno = 4
    /\ disk = [i \in Inodes |-> 0]
    /\ cache = [k \in 1 .. CacheSize |-> NoEntry]
    /\ strayed = {}
    /\ locks = [i \in Inodes |-> << >>]
    /\ rws = [i \in Inodes |-> << >>]
    /\ kept = [x \in Kinds |-> 0]
    /\ lost = {}
    /\ faults = 0
    /\ crashed = FALSE
    /\ added = [i \in Inodes |-> 0]
    /\ promised = [i \in Inodes |-> {}]

------------------------------------------------------------------------------
(* Threads and what they are in. *)

Frame(r, f, todo) == [r |-> r, f |-> f, todo |-> todo]
Top(t) == Head(stack[t])
Step(t) == Head(Top(t).todo)
Runs(t, do) == ~crashed /\ stack[t] # << >> /\ Step(t).do = do
RunsOne(t, set) == ~crashed /\ stack[t] # << >> /\ Step(t).do \in set
Rq(t) == req[Top(t).r]

\* The stack st with the todo of its first call replaced; a call with nothing to do is left.
With(st, todo) == IF todo = << >> THEN Tail(st) ELSE << [Head(st) EXCEPT !.todo = todo] >> \o Tail(st)

\* Steps after those of the call itself: the answer, and the stubs that go when it returns.
Closing == {"answer", "destroy_server", "destroy_iot", "destroy_locks"}
Ends(todo) == SelectSeq(todo, LAMBDA s : s.do \in Closing)
Returns(todo) == SelectSeq(todo, LAMBDA s : s.do \in Closing \ {"answer"})

Next1(t) == With(stack[t], Tail(Top(t).todo))
Goes(t) == stack' = [stack EXCEPT ![t] = Next1(t)]
\* Innermost calls of the thread go first.
Enters(t, frames, st) == stack' = [stack EXCEPT ![t] = SelectSeq(frames, LAMBDA x : x.todo # << >>) \o st]

Answer == Or("answer", 0)

\* n references to f are dropped by thread t; the last one releases the descriptor there.
ReleaseFrame(f) ==
    Frame(0, f, IF fds[f].ctx = 0 THEN << >> ELSE IF fds[f].dir THEN posix_releasedir ELSE posix_release)
Unref(fd, n) == [fd EXCEPT !.ref = @ - n, !.worker = IF fd.ref = n THEN 0 ELSE @, !.bound = @ /\ fd.ref # n]
Drops(t, f, n, st) ==
    /\ fds' = [fds EXCEPT ![f] = Unref(@, n)]
    /\ Enters(t, IF fds[f].ref = n THEN << ReleaseFrame(f) >> ELSE << >>, st)

\* A stub takes and gives back its arguments.
Keep(stub) == [x \in Kinds |-> kept[x] + IF x \in stub THEN 1 ELSE 0]
GiveBack(gone) == [x \in Kinds |-> kept[x] - IF x \in gone THEN 1 ELSE 0]

------------------------------------------------------------------------------
(* Requests. *)

\* The inode of a path: from the server's table, else looked up on the disk.
Resolve(p) == IF view[p] # 0 THEN view[p] ELSE names[p]

\* An owner has one lock request, or one close, out at a time.
Waits(o) == \E r \in DOMAIN req : req[r].c.owner = o /\ req[r].c.op \in {"lk", "flush"} /\ req[r].stage # "done"

\* Nothing is under way: requests wait for locks at most.
Idle == \A t \in Threads : stack[t] = << >> /\ (t # Poll => queue[t] = << >>)

Stub(c, layer) == StubOf(c.op, Args(c, layer))
NoStubs == [l \in Layers |-> {}]

\* Of a request that is over nothing is remembered, unless its stub has left something behind.
Past == [c |-> [op |-> "none", fd |-> 0, owner |-> 0, via |-> "server"], stage |-> "done", ino |-> 0, own |-> 0,
         stub |-> NoStubs]
Over(q) == q.stage \in {"done", "gone"} /\ q.stub = NoStubs /\ q.c.via = "server"
Settled(q) == IF Over(q) THEN Past ELSE q

\* A request on a path is kept in a stub while its path is looked up, in this thread, unless
\* the table knows it.
InStub(c) == c.via = "server" /\ c.op \in ServerStubs
Gone(c) == InStub(c) /\ c.op \notin Making \cup {"lookup"} /\ Resolve(c.name) = 0

\* A request whose path is gone is answered and its stub freed without call_stub_destroy: what
\* is left in it then is lost.
server_stub_resume(op, stub) ==
    stub \ (IF op = "open" THEN {} ELSE {"loc", "newloc"} \cup IF op = "setxattr" THEN {"dict"} ELSE {})

\* A request arrives: a descriptor is referenced for the call's state, one to be opened is
\* created; the call goes down, resumed from its stub, which is destroyed when it returns.
Receive(c) ==
    /\ ~crashed /\ stack[Poll] = << >> /\ Len(req) < Asked.max
    /\ Asked.serial => Idle
    /\ c.op \in {"lk", "flush"} => ~Waits(c.owner)
    /\ c.op \in ByFd => fds[c.fd].listed
    /\ c.op \in Opening => fds[c.fd] = NoFd
    /\ ~InStub(c) /\ c.op \in ByPath \ Making => Resolve(c.name) # 0
    /\ LET layer == IF InStub(c) THEN "server" ELSE "ha"
           stub == CASE Gone(c) -> server_stub_resume(c.op, Stub(c, layer))
                     [] ~Gone(c) /\ (InStub(c) \/ c.via = "ha") -> Stub(c, layer)
                     [] OTHER -> {}
           more == IF "fd" \in stub THEN 1 ELSE 0
           whole == InStub(c) /\ ~Gone(c) => "loc" \in call_resume_wind(stub)
       IN  /\ req' = Append(req, Settled([c |-> c, stage |-> IF Gone(c) THEN "gone" ELSE "out", ok |-> whole /\ ~Gone(c),
                                  ino |-> IF c.op \in ByFd THEN fds[c.fd].ino ELSE Resolve(c.name),
                                  own |-> 0, val |-> 0, at |-> 0, stub |-> [NoStubs EXCEPT ![layer] = stub]]))
           /\ kept' = Keep(stub)
           /\ fds' = CASE Gone(c) -> fds
                       [] c.op \in Opening -> [fds EXCEPT ![c.fd] = [NoFd EXCEPT !.ref = 2 + more, !.pid = c.owner,
                                                                                 !.dir = c.op = "opendir"]]
                       [] c.op \in ByFd -> [fds EXCEPT ![c.fd].ref = @ + 1 + more]
                       [] OTHER -> fds
           /\ stack' = IF Gone(c) THEN stack
                       ELSE [stack EXCEPT ![Poll] =
                               << Frame(Len(req) + 1, c.fd, << Or("wind", 0) >>
                                           \o IF InStub(c) THEN << Or("destroy_server", 0) >> ELSE << >>) >>]
    /\ UNCHANGED << load, queue, misc, os, names, view, nextIno, disk, cache, strayed, locks, rws, lost,
                    faults, crashed, added, promised >>

\* The client closes a descriptor: the server's table lets go of it.
Release(f) ==
    /\ ~crashed /\ stack[Poll] = << >> /\ fds[f].listed /\ Asked.closes
    /\ fds' = [fds EXCEPT ![f] = [Unref(@, 1) EXCEPT !.listed = FALSE]]
    /\ Enters(Poll, IF fds[f].ref = 1 THEN << ReleaseFrame(f) >> ELSE << >>, << >>)
    /\ UNCHANGED << load, req, queue, misc, os, names, view, nextIno, disk, cache, strayed, locks, rws, kept,
                    lost, faults, crashed, added, promised >>

------------------------------------------------------------------------------
(* io-threads. *)

\* A call in the stack of translators, from features/locks down.
pl_truncate(c) == posix_stat(c) \o << Out("pl_truncate") >> \o posix_truncate(c)
pl_ftruncate(c) == posix_fstat(c) \o << Out("pl_truncate") >> \o posix_ftruncate(c)
pl_readv(c) == << Out("pl_rw") >> \o posix_readv(c)
pl_writev(c) == << Out("pl_rw") >> \o posix_writev(c)
pl_flush(c) == << Or("pl_flush", 0), Or("grant", 0), Or("blocked_rw", 0) >> \o posix_flush(c)
pl_lk(c) == IF c.lk.cmd = "getlk" THEN << >> ELSE << Out("pl_setlk"), Or("grant", 0), Or("blocked_rw", 0) >>

Below(c) ==
    IF ~Asked.locks THEN posix_fops(c)
    ELSE CASE c.op = "truncate" -> pl_truncate(c)  [] c.op = "ftruncate" -> pl_ftruncate(c)
           [] c.op = "readv" -> pl_readv(c)        [] c.op = "writev" -> pl_writev(c)
           [] c.op = "flush" -> pl_flush(c)        [] c.op = "lk" -> pl_lk(c)
           [] OTHER -> posix_fops(c)

\* The caller has the inode open.
fd_lookup(i, pid) == \E f \in Fds : fds[f].bound /\ fds[f].ino = i /\ fds[f].pid = pid

\* The worker a call is handed to, 0 when it goes down in the thread it came in.
Goal(r) ==
    CASE fops(req[r].c.op) = "file" -> fds[req[r].c.fd].worker
      [] fops(req[r].c.op) = "inode" /\ fd_lookup(req[r].ino, req[r].c.owner) -> iot_schedule(req[r].ino)
      [] fops(req[r].c.op) = "misc" -> iot_schedule(misc)
      [] OTHER -> 0

\* io-threads: a call goes into a stub and a queue, goes down, or has no file (EBADFD).
Wind(t) ==
    /\ Runs(t, "wind")
    /\ LET r == Top(t).r
           c == Rq(t).c
           w == Goal(r)
           stub == Stub(c, "iot")
           rest == Tail(Top(t).todo)
       IN  IF w # 0
           THEN /\ queue' = iot_queue(queue, w, r)
                /\ misc' = IF fops(c.op) = "misc" THEN (misc + 1) % thread_count ELSE misc
                /\ req' = [req EXCEPT ![r].stub["iot"] = stub]
                /\ kept' = Keep(stub)
                /\ fds' = IF "fd" \in stub THEN [fds EXCEPT ![c.fd].ref = @ + 1] ELSE fds
                /\ Goes(t)
           ELSE /\ stack' = [stack EXCEPT ![t] = With(stack[t],
                                (IF fops(c.op) = "file" THEN << >> ELSE Below(c)) \o << Answer >> \o rest)]
                /\ req' = [req EXCEPT ![r].ok = @ /\ fops(c.op) # "file"]
                /\ UNCHANGED << queue, misc, kept, fds >>
    /\ UNCHANGED << load, os, names, view, nextIno, disk, cache, strayed, locks, rws, lost, faults, crashed, added, promised >>

\* A worker takes the first request of its queue and resumes it.
iot_worker(w) ==
    /\ ~crashed /\ stack[w] = << >> /\ queue[w] # << >>
    /\ queue' = iot_dequeue(queue, w)
    /\ LET r == Head(queue[w])
           c == req[r].c
           whole == c.op \in ByFd => "fd" \in call_resume_wind(req[r].stub["iot"])
       IN  /\ stack' = [stack EXCEPT ![w] =
                          << Frame(r, c.fd, (IF whole THEN Below(c) ELSE << >>) \o << Answer, Or("destroy_iot", 0) >>) >>]
           /\ req' = [req EXCEPT ![r].ok = @ /\ whole]
    /\ UNCHANGED << load, misc, fds, os, names, view, nextIno, disk, cache, strayed, locks, rws, kept, lost,
                    faults, crashed, added, promised >>

\* The call a stub was kept for has returned: the stub goes, and perhaps the last reference with it.
LayerOf == [destroy_server |-> "server", destroy_iot |-> "iot", destroy_locks |-> "locks"]
DestroyStub(t) ==
    /\ RunsOne(t, DOMAIN LayerOf)
    /\ LET layer == LayerOf[Step(t).do]
           gone == call_stub_destroy(Rq(t).c.op, Rq(t).stub[layer])
       IN  /\ kept' = GiveBack(gone)
           /\ req' = [req EXCEPT ![Top(t).r] = Settled([@ EXCEPT !.stub[layer] = {}])]
           /\ IF "fd" \in gone THEN Drops(t, Rq(t).c.fd, 1, Next1(t)) ELSE Goes(t) /\ UNCHANGED fds
    /\ UNCHANGED << load, queue, misc, os, names, view, nextIno, disk, cache, strayed, locks, rws, lost, faults,
                    crashed, added, promised >>

\* What the server's inode table knows once a call is answered.
Viewed(q) ==
    CASE ~q.ok -> view
      [] q.c.op \in Making \cup {"lookup"} -> [view EXCEPT ![q.c.name] = q.ino]
      [] q.c.op \in {"unlink", "rmdir"} -> [view EXCEPT ![q.c.name] = 0]
      [] q.c.op = "rename" -> [view EXCEPT ![q.c.name] = 0, ![q.c.name2] = q.ino]
      [] q.c.op = "link" -> [view EXCEPT ![q.c.name2] = q.ino]
      [] OTHER -> view

\* A call is answered: io-threads gives a descriptor opened its worker, cluster/ha
\* destroys its stub, the server lists the descriptor and lets go of its state.
AnswerCall(t) ==
    /\ Runs(t, "answer")
    /\ LET r == Top(t).r
           q == Rq(t)
           gone == call_stub_destroy(q.c.op, q.stub["ha"])
           n == (IF "fd" \in gone THEN 1 ELSE 0)
                  + (IF q.c.op \in ByFd \/ (q.c.op \in Opening /\ q.ok) THEN 1
                     ELSE IF q.c.op \in Opening THEN 2 ELSE 0)
       IN  /\ req' = [req EXCEPT ![r] = Settled([@ EXCEPT !.stage = "done", !.stub["ha"] = {}])]
           /\ kept' = GiveBack(gone)
           /\ view' = Viewed(q)
           /\ IF q.c.op \in Opening /\ q.ok
              THEN /\ fds' = [fds EXCEPT ![q.c.fd] =
                               [@ EXCEPT !.ref = @ - n, !.listed = TRUE, !.bound = TRUE,
                                         !.worker = CASE q.c.op = "open" -> iot_open_cbk(q.ino)
                                                      [] q.c.op = "create" -> iot_create_cbk(q.ino)
                                                      [] OTHER -> 0]]
                   /\ Goes(t)
              ELSE IF n > 0 THEN Drops(t, q.c.fd, n, Next1(t)) ELSE Goes(t) /\ UNCHANGED fds
    /\ UNCHANGED << load, queue, misc, os, names, nextIno, disk, cache, strayed, locks, rws, lost, faults,
                    crashed, added, promised >>

------------------------------------------------------------------------------
(* Steps of storage/posix. *)

Passes(t) == Tail(Top(t).todo)
Beyond(t) == SubSeq(Top(t).todo, 2 + Step(t).or, Len(Top(t).todo))
\* A system call fails for a reason of its own.
Fault(t) == Asked.faulty /\ faults < MaxFaults /\ Top(t).r # 0 /\ faults' = faults + 1
NoFault == faults' = faults

\* A step that fails may end the call; a descriptor of the call's own is then closed or forgotten.
EndsCall(t) ==
    LET own == Rq(t).own
        closes == own # 0 /\ Rq(t).c.op \in ClosesItsOwn
    IN  /\ stack' = [stack EXCEPT ![t] = With(@, Ends(Top(t).todo))]
        /\ req' = [req EXCEPT ![Top(t).r].ok = FALSE, ![Top(t).r].own = 0]
        /\ os' = IF closes THEN [os EXCEPT ![own] = Free] ELSE os
        /\ lost' = IF own = 0 \/ closes THEN lost ELSE lost \cup {own}

\* Or it is passed over, with those that depend on it.
Fails(t) ==
    \/ Step(t).or = -1 /\ EndsCall(t)
    \/ /\ Step(t).or # -1
       /\ stack' = [stack EXCEPT ![t] = With(@, Beyond(t))]
       /\ UNCHANGED << req, os, lost >>

\* What the path of a request names; lstat after rename and link is on the second path.
Named(t) == names[IF Step(t).do = "lstat_new" THEN Rq(t).c.name2 ELSE Rq(t).c.name]

OnPath == {"lstat", "lstat_new", "chmod", "chown", "lchown", "truncate", "utimes", "access", "readlink",
           "lgetxattr", "llistxattr", "lsetxattr", "lremovexattr", "statvfs"}
OnEntry == {"lstat_entry", "readlink_entry", "chmod_entry", "lchown_entry", "utimes_entry", "make_entry"}
OnDescriptor == {"fstat", "fstat_own", "read_own", "write_own", "fsync", "ftruncate", "fchown", "fchmod",
                 "seekdir", "telldir", "dirfd", "gettimeofday"}

\* Calls that change nothing the model follows: the path may be gone, a stream at its end,
\* the context missing (a call on a descriptor that was never opened), the call refused.
Untracked(t) ==
    /\ RunsOne(t, OnPath \cup OnEntry \cup OnDescriptor \cup {"readdir", "ctx_get", "refuse"})
    /\ LET do == Step(t).do
           works == /\ do \in OnPath => Named(t) # 0
                    /\ do = "ctx_get" => fds[Top(t).f].ctx # 0
                    /\ do # "refuse"
       IN  \/ works /\ Goes(t) /\ NoFault /\ UNCHANGED << req, os, lost >>
           \/ (~works \/ do = "readdir") /\ Fails(t) /\ NoFault
           \/ works /\ do # "ctx_get" /\ Fails(t) /\ Fault(t)
    /\ UNCHANGED << load, queue, misc, fds, names, view, nextIno, disk, cache, strayed, locks, rws, kept,
                    crashed, added, promised >>

\* The lowest number the operating system has free.
Lowest == {n \in DOMAIN os : os[n] = Free /\ \A m \in DOMAIN os : os[m] = Free => n <= m}

\* open(2) and creat(2), on the path or on an entry below it; a file made has a new inode.
Opens(t) ==
    /\ RunsOne(t, {"open", "creat", "open_entry", "creat_entry"})
    /\ LET do == Step(t).do
           fresh == do = "creat" /\ Named(t) = 0
           i == CASE do \in {"open_entry", "creat_entry"} -> EntryIno
                  [] fresh -> nextIno
                  [] OTHER -> Named(t)
           works == /\ do = "open" => Named(t) # 0
                    /\ fresh => nextIno <= MaxIno
       IN  \/ /\ works
              /\ \E n \in Lowest :
                     /\ os' = [os EXCEPT ![n] = [ino |-> i, pos |-> 0]]
                     /\ req' = [req EXCEPT ![Top(t).r].own = n,
                                           ![Top(t).r].ino = IF do = "creat" THEN i ELSE @]
              /\ names' = IF fresh THEN [names EXCEPT ![Rq(t).c.name] = i] ELSE names
              /\ nextIno' = IF fresh THEN nextIno + 1 ELSE nextIno
              /\ Goes(t) /\ NoFault /\ UNCHANGED lost
           \/ /\ \/ ~works /\ NoFault
                 \/ works /\ Fault(t)
              /\ Fails(t) /\ UNCHANGED << names, nextIno >>
    /\ UNCHANGED << load, queue, misc, fds, view, disk, cache, strayed, locks, rws, kept, crashed, added, promised >>

\* The call's own descriptor is closed (a failing close(2) closes it too), left behind, or
\* becomes the context of the file descriptor.
Closes(t) ==
    /\ RunsOne(t, {"close", "lose", "ctx_set"})
    /\ LET own == Rq(t).own
       IN  /\ req' = [req EXCEPT ![Top(t).r].own = 0]
           /\ os' = IF Step(t).do = "close" THEN [os EXCEPT ![own] = Free] ELSE os
           /\ lost' = IF Step(t).do = "lose" THEN lost \cup {own} ELSE lost
           /\ fds' = IF Step(t).do = "ctx_set"
                     THEN [fds EXCEPT ![Top(t).f].ctx = own, ![Top(t).f].ino = Rq(t).ino] ELSE fds
    /\ Goes(t)
    /\ UNCHANGED << load, queue, misc, names, view, nextIno, disk, cache, strayed, locks, rws, kept, faults,
                    crashed, added, promised >>

\* Released: the context is freed, its system descriptor closed.
CloseFd(t) ==
    /\ Runs(t, "close_fd")
    /\ os' = [os EXCEPT ![fds[Top(t).f].ctx] = Free]
    /\ fds' = [fds EXCEPT ![Top(t).f] = NoFd]
    /\ Goes(t)
    /\ UNCHANGED << load, req, queue, misc, names, view, nextIno, disk, cache, strayed, locks, rws, kept,
                    lost, faults, crashed, added, promised >>

\* Names come and go.
Renames(t) ==
    /\ RunsOne(t, {"mknod", "mkdir", "symlink", "unlink", "rmdir", "rename", "link"})
    /\ LET c == Rq(t).c
           do == Step(t).do
           makes == do \in {"mknod", "mkdir", "symlink"}
           i == names[c.name]
           works == /\ (i = 0) = makes
                    /\ makes => nextIno <= MaxIno
                    /\ do = "link" => names[c.name2] = 0
       IN  \/ /\ works
              /\ names' = CASE makes -> [names EXCEPT ![c.name] = nextIno]
                            [] do \in {"unlink", "rmdir"} -> [names EXCEPT ![c.name] = 0]
                            [] do = "link" -> [names EXCEPT ![c.name2] = i]
                            [] do = "rename" /\ names[c.name2] = i -> names
                            [] OTHER -> [names EXCEPT ![c.name] = 0, ![c.name2] = i]
              /\ nextIno' = IF makes THEN nextIno + 1 ELSE nextIno
              /\ req' = IF makes THEN [req EXCEPT ![Top(t).r].ino = nextIno] ELSE req
              /\ Goes(t) /\ NoFault /\ UNCHANGED << os, lost >>
           \/ /\ \/ ~works /\ NoFault
                 \/ works /\ Fault(t)
              /\ EndsCall(t) /\ UNCHANGED << names, nextIno >>
    /\ UNCHANGED << load, queue, misc, fds, view, disk, cache, strayed, locks, rws, kept, crashed, added, promised >>

\* A position is set, then data moved from it on: two system calls on one shared position.
Moves(t) ==
    /\ RunsOne(t, {"lseek", "transfer"})
    /\ LET d == fds[Top(t).f].ctx
           to == IF Step(t).do = "lseek" THEN Rq(t).c.off ELSE os[d].pos + 1
       IN  \/ /\ os' = [os EXCEPT ![d].pos = to]
              /\ req' = [req EXCEPT ![Top(t).r].at = IF Step(t).do = "lseek" THEN Rq(t).c.off ELSE @ + 1]
              /\ Goes(t) /\ NoFault /\ UNCHANGED lost
           \/ Fails(t) /\ Fault(t)
    /\ UNCHANGED << load, queue, misc, fds, names, view, nextIno, disk, cache, strayed, locks, rws, kept,
                    crashed, added, promised >>

\* The disk as the attribute cache reaches it.
Disk == [disk |-> disk, names |-> names, strayed |-> strayed,
         ino |-> [f \in Fds |-> IF fds[f].ctx = 0 THEN 0 ELSE os[fds[f].ctx].ino]]
Stores(d) == disk' = d.disk /\ strayed' = d.strayed
__inode_for_handle(t) == IF Top(t).r = 0 THEN fds[Top(t).f].ino ELSE Rq(t).ino
Handle(t) == IF Rq(t).c.op = "xattrop" THEN [path |-> Rq(t).c.name, fd |-> 0] ELSE [path |-> "", fd |-> Top(t).f]

CacheStep(t) ==
    /\ \/ /\ Runs(t, "cache_flush")
          /\ LET x == posix_xattr_cache_flush(__inode_for_handle(t), cache, Disk)
             IN  cache' = x.cache /\ Stores(x.d)
          /\ UNCHANGED << req, added >>
       \/ /\ Runs(t, "cache_flush_all")
          /\ LET x == posix_xattr_cache_flush_all(cache, Disk)
             IN  cache' = x.cache /\ Stores(x.d)
          /\ UNCHANGED << req, added >>
       \/ /\ Runs(t, "cache_read")
          /\ LET x == posix_xattr_cache_read(Rq(t).ino, Handle(t), cache, Disk)
             IN  /\ cache' = x.cache /\ Stores(x.d)
                 /\ req' = [req EXCEPT ![Top(t).r].val = x.val]
          /\ UNCHANGED added
       \/ /\ Runs(t, "cache_write")
          /\ LET x == posix_xattr_cache_write(Rq(t).ino, Handle(t), Rq(t).val + 1, cache, Disk)
             IN  cache' = x.cache /\ Stores(x.d)
          /\ added' = [added EXCEPT ![Rq(t).ino] = @ + 1]
          /\ UNCHANGED req
    /\ Goes(t)
    /\ UNCHANGED << load, queue, misc, fds, os, names, view, nextIno, locks, rws, kept, lost, faults, crashed, promised >>

------------------------------------------------------------------------------
(* Steps of features/locks. *)

\* The bytes a read, a write or a truncation is about, as its caller's lock.
Region(c) == new_posix_lock(c.owner, "WR", c.off, IF c.op \in {"readv", "writev"} THEN 1 ELSE 0, 0)

\* A mandatory lock may refuse a truncation.
TruncateStep(t) ==
    /\ Runs(t, "pl_truncate")
    /\ IF Asked.mandatory /\ ~truncate_allowed(locks[Rq(t).ino], Region(Rq(t).c))
       THEN EndsCall(t) ELSE Goes(t) /\ UNCHANGED << req, os, lost >>
    /\ UNCHANGED << load, queue, misc, fds, names, view, nextIno, disk, cache, strayed, locks, rws, kept,
                    faults, crashed, added, promised >>

\* The call stops here, unanswered; its thread goes on.
Stops(t, stage, stub) ==
    /\ req' = [req EXCEPT ![Top(t).r].stage = stage, ![Top(t).r].stub["locks"] = stub]
    /\ stack' = [stack EXCEPT ![t] = With(@, Returns(Top(t).todo))]

\* On a file with mandatory locks a read or write that is allowed is neither done nor
\* answered; one that is not is refused (O_NONBLOCK) or kept until the locks change.
ReadWriteStep(t) ==
    /\ Runs(t, "pl_rw")
    /\ LET c == Rq(t).c
           i == Rq(t).ino
           allowable == __rw_allowable(locks[i], Region(c), c.op)
       IN  \/ /\ ~Asked.mandatory
              /\ Goes(t)
              /\ UNCHANGED << req, rws, kept, fds, os, lost >>
           \/ /\ Asked.mandatory /\ allowable
              /\ Stops(t, "hung", {})
              /\ UNCHANGED << rws, kept, fds, os, lost >>
           \/ /\ Asked.mandatory /\ ~allowable /\ c.how = "o_nonblock"
              /\ EndsCall(t)
              /\ UNCHANGED << rws, kept, fds >>
           \/ /\ Asked.mandatory /\ ~allowable /\ c.how # "o_nonblock"
              /\ Stops(t, "blocked", Stub(c, "locks"))
              /\ rws' = [rws EXCEPT ![i] = Append(@, Top(t).r)]
              /\ kept' = Keep(Stub(c, "locks"))
              /\ fds' = [fds EXCEPT ![c.fd].ref = @ + 1]
              /\ UNCHANGED << os, lost >>
    /\ UNCHANGED << load, queue, misc, names, view, nextIno, disk, cache, strayed, locks, faults, crashed,
                    added, promised >>

\* A node unlinked that has no links crashes the process, one with stale links may.
Harm(harm) == CASE harm = "no" -> {FALSE} [] harm = "maybe" -> BOOLEAN [] harm = "sure" -> {TRUE}

\* What an owner is told it holds once a lock request is granted.
Promise(set, o, ty, start, len) ==
    LET of == new_posix_lock(o, ty, start, len, 0)
    IN  {x \in set : ~(x[1] = o /\ x[2] \in of.s .. of.e)}
            \cup (IF ty = "UN" THEN {} ELSE {<< o, b, ty >> : b \in of.s .. of.e})

\* A lock is set, waited for without an answer, or refused.
SetLock(t) ==
    /\ Runs(t, "pl_setlk")
    /\ LET r == Top(t).r
           c == Rq(t).c
           lock == new_posix_lock(c.owner, c.lk.ty, c.lk.s, c.lk.len, r)
           x == pl_setlk(locks[Rq(t).ino], lock, c.lk.cmd = "setlkw")
       IN  /\ locks' = [locks EXCEPT ![Rq(t).ino] = x.list]
           /\ crashed' \in Harm(x.harm)
           /\ req' = CASE x.ret = "granted" -> req
                       [] x.ret = "waits" -> [req EXCEPT ![r].stage = "blocked"]
                       [] x.ret = "refused" -> [req EXCEPT ![r].ok = FALSE]
           /\ stack' = [stack EXCEPT ![t] =
                           With(@, IF x.ret = "waits" THEN SelectSeq(Passes(t), LAMBDA s : s.do # "answer")
                                   ELSE Passes(t))]
    /\ LET c == Rq(t).c
       IN  promised' = IF pl_setlk(locks[Rq(t).ino], new_posix_lock(c.owner, c.lk.ty, c.lk.s, c.lk.len, 0), FALSE).ret
                             = "granted"
                       THEN [promised EXCEPT ![Rq(t).ino] = Promise(@, c.owner, c.lk.ty, c.lk.s, c.lk.len)]
                       ELSE promised
    /\ UNCHANGED << load, queue, misc, fds, os, names, view, nextIno, disk, cache, strayed, rws, kept, lost,
                    faults, added >>

\* close(2) takes the owner's locks.
DropLocks(t) ==
    /\ Runs(t, "pl_flush")
    /\ locks' = [locks EXCEPT ![Rq(t).ino] = __delete_locks_of_owner(@, Rq(t).c.owner)]
    /\ Goes(t)
    /\ promised' = [promised EXCEPT ![Rq(t).ino] = {x \in @ : x[1] # Rq(t).c.owner}]
    /\ UNCHANGED << load, req, queue, misc, fds, os, names, view, nextIno, disk, cache, strayed, rws, kept,
                    lost, faults, crashed, added >>

\* Locks that became free are granted, their requests answered in this thread.
grant_blocked_locks(t) ==
    /\ Runs(t, "grant")
    /\ LET x == __grant_blocked_locks(locks[Rq(t).ino])
       IN  /\ locks' = [locks EXCEPT ![Rq(t).ino] = x.list]
           /\ crashed' \in Harm(x.harm)
           /\ Enters(t, [k \in DOMAIN x.granted |->
                            Frame(x.granted[k], req[x.granted[k]].c.fd, << Answer >>)], Next1(t))
    /\ LET told(set, r) == LET c == req[r].c IN Promise(set, c.owner, c.lk.ty, c.lk.s, c.lk.len)
       IN  promised' = [promised EXCEPT ![Rq(t).ino] =
                           FoldLeft(told, @, __grant_blocked_locks(locks[Rq(t).ino]).granted)]
    /\ UNCHANGED << load, req, queue, misc, fds, os, names, view, nextIno, disk, cache, strayed, rws, kept,
                    lost, faults, added >>

\* Reads and writes that became allowed are resumed, one after the other, in this thread.
do_blocked_rw(t) ==
    /\ Runs(t, "blocked_rw")
    /\ LET i == Rq(t).ino
           may(r) == __rw_allowable(locks[i], Region(req[r].c), req[r].c.op)
           go == SelectSeq(rws[i], may)
       IN  /\ rws' = [rws EXCEPT ![i] = SelectSeq(@, LAMBDA r : ~may(r))]
           /\ Enters(t, [k \in DOMAIN go |->
                            Frame(go[k], req[go[k]].c.fd,
                                  posix_fops(req[go[k]].c) \o << Answer, Or("destroy_locks", 0) >>)], Next1(t))
    /\ UNCHANGED << load, req, queue, misc, fds, os, names, view, nextIno, disk, cache, strayed, locks, kept,
                    lost, faults, crashed, added, promised >>

------------------------------------------------------------------------------
Next ==
    \/ \E c \in Asked.calls : Receive(c)
    \/ \E f \in Fds : Release(f)
    \/ \E w \in Workers : iot_worker(w)
    \/ \E t \in Threads :
          \/ Wind(t) \/ DestroyStub(t) \/ AnswerCall(t)
          \/ Untracked(t) \/ Opens(t) \/ Closes(t) \/ CloseFd(t) \/ Renames(t) \/ Moves(t) \/ CacheStep(t)
          \/ TruncateStep(t) \/ ReadWriteStep(t) \/ SetLock(t) \/ DropLocks(t)
          \/ grant_blocked_locks(t) \/ do_blocked_rw(t)

Spec == Init /\ [][Next]_vars

------------------------------------------------------------------------------
(* Properties. *)

\* A read or a write moves its data at the offset it was given, although it takes two system
\* calls (posix.c:1641) on a position all calls on the descriptor share: io-threads has one
\* worker run them all.  (With mandatory locks another thread may resume one.)
AtItsOffset ==
    ~Asked.mandatory =>
        \A t \in Threads : Runs(t, "transfer") => os[fds[Top(t).f].ctx].pos = Rq(t).at

\* No two owners hold locks that conflict, whatever splitting, merging and granting was done
\* to the list (common.c:333), and an owner told that it has a lock has it until it lets go.
RecordLocksHold ==
    \A i \in Inodes :
        LET has == {k \in DOMAIN locks[i] : ~locks[i][k].blk}
        IN  /\ \A j, k \in has :
                  \/ same_owner(locks[i][j], locks[i][k])
                  \/ ~locks_overlap(locks[i][j], locks[i][k])
                  \/ locks[i][j].ty = "RD" /\ locks[i][k].ty = "RD"
            /\ ~crashed => \A x \in promised[i] : \E k \in has :
                  LET l == locks[i][k]
                  IN  l.o = x[1] /\ x[2] \in l.s .. l.e /\ (x[3] = "WR" => l.ty = "WR")

\* No xattrop is lost between the cache and the disk (xattr-cache.c:335), however flushes by
\* other threads, purges and releases fall between its reading and its writing; and an entry
\* kept through a descriptor goes before the descriptor does.  A file is left out once a
\* handle has led to another file, or to none.
CountsKept ==
    /\ \A i \in Inodes \ strayed :
          LET hit == __cache_lookup(cache, i)
          IN  added[i] = IF hit = {} THEN disk[i] ELSE cache[CHOOSE k \in hit : TRUE].val
    /\ \A k \in DOMAIN cache : cache[k].ino # 0 /\ cache[k].by.fd # 0 => fds[cache[k].by.fd].ctx # 0

\* The stubs that keep an argument of kind x.
Holders(x) == {<< r, l >> \in (DOMAIN req) \X Layers : x \in req[r].stub[l]}

\* Each descriptor is referenced by the server's table, by each call that uses it and by each
\* stub that keeps it (call-stub.c:3249), and by nothing else; it has the file it was opened on
\* open, alone, until the last reference goes, and every other open descriptor of the system
\* belongs to a call in progress or was left behind by one that failed.  What stubs keep is
\* given back, but for the dictionary of fxattrop (call-stub.c:3536).
DescriptorsExact ==
    LET open == {n \in DOMAIN os : os[n] # Free}
        users(f) == {r \in DOMAIN req : req[r].c.fd = f /\ req[r].stage \notin {"gone", "done"}}
        releasing(f) == \E t \in Threads : \E k \in DOMAIN stack[t] : stack[t][k].r = 0 /\ stack[t][k].f = f
    IN  /\ \A f \in Fds :
              /\ fds[f].ref = (IF fds[f].listed THEN 1 ELSE 0)
                                + Cardinality({r \in users(f) : req[r].c.op \in ByFd})
                                + 2 * Cardinality({r \in users(f) : req[r].c.op \in Opening})
                                + Cardinality({x \in Holders("fd") : req[x[1]].c.fd = f})
              /\ fds[f].ctx # 0 => os[fds[f].ctx].ino = fds[f].ino /\ (fds[f].ref > 0 \/ releasing(f))
              /\ fds[f].listed => fds[f].ctx # 0
        /\ \A f, g \in Fds : f # g /\ fds[f].ctx # 0 => fds[f].ctx # fds[g].ctx
        /\ open = ({fds[f].ctx : f \in Fds} \ {0}) \cup ({req[r].own : r \in DOMAIN req} \ {0}) \cup lost
        /\ \A x \in Kinds :
              kept[x] = Cardinality(Holders(x))
                          + IF x # "dict" THEN 0
                            ELSE Cardinality({r \in DOMAIN req : /\ req[r].c.op = "fxattrop"
                                                                 /\ req[r].c.via = "ha"
                                                                 /\ req[r].stage = "done"})

\* What doc/hacker-guide/replicate.txt:121 says: the pending count is the extended attribute of
\* the inode.  Once its xattrops are answered, the attribute on the disk counts them.
PendingStored ==
    \A i \in Inodes :
        (\A r \in DOMAIN req : req[r].ino = i => req[r].stage \in {"gone", "done"}) => disk[i] = added[i]
=============================================================================
