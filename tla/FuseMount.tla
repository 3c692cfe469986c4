------------------------------ MODULE FuseMount ------------------------------
(***************************************************************************)
(* The mount: the kernel's requests, the inode table they go through and   *)
(* the volume below.  One thread takes the kernel's requests (fuse_thread_ *)
(* proc), another the replies of the volume (the poll loop), so that every *)
(* lock section of the table is a step of its own: of fuse_loc_fill the    *)
(* search of the inode and the search of its parent, of a callback         *)
(* inode_link and inode_lookup.                                            *)
(* The kernel and the volume are external.                                 *)
(***************************************************************************)
EXTENDS InodeTable, FuseFops
LOCAL INSTANCE FiniteSetsExt

CONSTANTS Frames,      \* requests under way at one time
          Names,
          Volumes,     \* what the volume may hold at the start
          MaxRequests, \* bound on the requests the kernel makes
          MaxOthers    \* bound on what other clients do to the volume

VARIABLES
    t,       \* the inode table
    frame,   \* the fuse_state_t of each request
    busy,    \* the request the fuse thread is in, None between two
    fd,      \* the descriptors: the inode, the references, what the kernel holds of them
    told,    \* for each file, the lookups the kernel has been told of
    vol,     \* the volume's entries
    leaked,  \* references nobody can give back any more, by object
    left     \* what is left of the bounds

vars == <<t, frame, busy, fd, told, vol, leaked, left>>

Inos == 1 .. 4
Dirs == {1, 2}
Files == {3, 4}
NoFd == 0
Fds == {1}

NoLoc == [inode |-> None, parent |-> None, ino |-> 0, ret |-> 0]
Idle == [pc |-> "idle", row |-> fuse_access, ino |-> 0, par |-> 0, name |-> "", par2 |-> 0,
         name2 |-> "", loc |-> NoLoc, loc2 |-> NoLoc, reval |-> 0, fd |-> NoFd,
         ok |-> FALSE, st_ino |-> 0]

Closed == [inode |-> None, ref |-> 0, bound |-> FALSE, open |-> FALSE]

Entry(par, name) == {e \in vol : e.par = par /\ e.name = name}
InoOf(E) == IF E = {} THEN 0 ELSE (CHOOSE e \in E : TRUE).ino

-----------------------------------------------------------------------------
\* fuse_loc_fill: its first section, the inode by number or by parent and name ...
inode_search(tab, ino) == __inode_search(tab, ino)
inode_grep(tab, par, name) ==
    LET d == __dentry_search(tab, par, name) IN IF d = {} THEN None ELSE (CHOOSE e \in d : TRUE).inode

Referred(tab, i) == IF i = None THEN tab ELSE inode_ref(tab, i)

LocInode(tab, ino, par, name) == IF par # 0 THEN inode_grep(tab, par, name) ELSE inode_search(tab, ino)

\* ... its second, the parent it has by that name, or by any ...
inode_parent(tab, i, par, name) ==
    LET ds == IF par # 0 THEN __dentry_search_for_inode(tab, i, par, name)
              ELSE __dentry_search_arbit(tab, i)
    IN  IF ds = {} THEN None ELSE (CHOOSE d \in ds : TRUE).parent

LocParent(tab, i, par, name) ==
    IF i # None THEN inode_parent(tab, i, par, name) ELSE inode_search(tab, par)

\* ... and what it returns: inode_path finds no name for an inode without an entry.
inode_path(tab, i) == tab.inode[i].ino = 1 \/ DentriesOf(tab, i) # {}

LocRet(tab, i, parent, ino, par) ==
    LET path == IF par # 0 /\ parent # None THEN inode_path(tab, parent)
                ELSE i = None \/ inode_path(tab, i)
    IN  IF path /\ (ino = 1 \/ parent # None) THEN 0 ELSE -1

-----------------------------------------------------------------------------
\* free_state: loc_wipe of both, then the descriptor.
RECURSIVE UnrefAll(_, _)
UnrefAll(tab, s) == IF s = <<>> THEN tab ELSE UnrefAll(inode_unref(tab, Head(s)), Tail(s))

\* Mutant: the reference to the parent is forgotten.
WipeInodeOnly(tab, loc) == UnrefAll(tab, <<loc.inode>>)

loc_wipe(tab, loc) == UnrefAll(tab, <<loc.inode, loc.parent>>)

\* The last reference to a descriptor gives up the one to its inode (fd_destroy).
fd_unref(tab, fds, k) ==
    IF k = NoFd THEN [t |-> tab, fd |-> fds]
    ELSE IF fds[k].ref > 1 THEN [t |-> tab, fd |-> [fds EXCEPT ![k].ref = @ - 1]]
    ELSE [t |-> inode_unref(tab, fds[k].inode), fd |-> [fds EXCEPT ![k] = Closed]]

free_state(tab, fds, f) == fd_unref(loc_wipe(loc_wipe(tab, f.loc), f.loc2), fds, f.fd)

Finish(n, tab, fds, f) ==
    LET u == free_state(tab, fds, f)
    IN  t' = u.t /\ fd' = u.fd /\ frame' = [frame EXCEPT ![n] = Idle]
-----------------------------------------------------------------------------
\* The kernel names what it knows, and holds the lock of a directory while it
\* looks up or changes a name in it.
Known == {1} \cup {i \in Inos : told[i] > 0}
Active == {n \in Frames : frame[n].pc # "idle"}
Locked(d) == \E n \in Active : frame[n].row.by = "name" /\ d \in {frame[n].par, frame[n].par2}
OpenDir(d) == d \in Known \cap Dirs /\ ~Locked(d)
Opening == \E n \in Active : frame[n].row.opens
CanOpen == fd[1] = Closed /\ ~Opening

Leak(i) == IF i = None THEN leaked ELSE [leaked EXCEPT ![i] = @ + 1]

Init ==
    /\ t = inode_table_new(0)
    /\ frame = [n \in Frames |-> Idle]
    /\ busy = None
    /\ fd = [k \in Fds |-> Closed]
    /\ told = [i \in Inos |-> 0]
    /\ vol \in Volumes
    /\ leaked = [i \in Objects |-> 0]
    /\ left = [req |-> MaxRequests, other |-> MaxOthers]

Spend == left' = [left EXCEPT !.req = @ - 1]

\* A request arrives; the first section of fuse_loc_fill.
Request(n) ==
    /\ busy = None /\ frame[n].pc = "idle" /\ left.req > 0
    /\ \E ino \in Known : \E row \in fuse_ops(ino) :
         /\ row.by \in {"ino", "name"}
         /\ row.opens => CanOpen
         /\ \E par \in IF row.by = "name" THEN {d \in Dirs : OpenDir(d)} ELSE {0},
               name \in IF row.by = "name" THEN Names ELSE {""},
               par2 \in IF row.loc2 = "name" THEN {d \in Dirs : OpenDir(d)} ELSE {0},
               name2 \in IF row.loc2 = "name" THEN Names ELSE {""} :
              LET own == IF row.by = "ino" \/ row.loc2 = "ino" THEN ino ELSE 0
                  i == LocInode(t, own, par, name)
              IN  /\ row.by = "name" /\ row.loc2 # "ino" => ino = 1
                  /\ t' = Referred(t, i)
                  /\ frame' = [frame EXCEPT ![n] = [Idle EXCEPT
                        !.pc = "parent", !.row = row, !.ino = own, !.par = par, !.name = name,
                        !.par2 = par2, !.name2 = name2,
                        !.loc = [NoLoc EXCEPT !.inode = i, !.ino = IF i = None THEN 0 ELSE t.inode[i].ino]]]
    /\ busy' = n
    /\ Spend
    /\ UNCHANGED <<fd, told, vol, leaked>>

\* A request on a descriptor refers to that alone (FI_TO_FD).
RequestFd(n) ==
    /\ busy = None /\ frame[n].pc = "idle" /\ left.req > 0
    /\ \E k \in Fds : \E row \in fuse_ops(1) :
         /\ fd[k].open /\ row.by = "fd"
         /\ fd' = [fd EXCEPT ![k].ref = @ + 1]
         /\ frame' = [frame EXCEPT ![n] = [Idle EXCEPT !.pc = "wound", !.row = row, !.fd = k]]
    /\ Spend
    /\ UNCHANGED <<t, busy, told, vol, leaked>>

\* EINVAL: free_state and nothing wound.
Reject(n, tab, f) == /\ Finish(n, tab, fd, f) /\ busy' = None /\ UNCHANGED leaked

fd_create(i) == [Closed EXCEPT !.inode = i, !.ref = 1]

\* With the reference that goes to the kernel.
fd_bind(k) == [fd EXCEPT ![k].ref = @ + 1, ![k].bound = TRUE, ![k].open = TRUE]

\* fd_lookup: the descriptors bound to the inode; the one of the same pid, if any.
fd_lookup(f) ==
    {NoFd} \cup {k \in Fds : f.row.fstat /\ f.loc.inode # None /\ fd[k].bound /\ fd[k].inode = f.loc.inode}

\* The handler after fuse_loc_fill: whether it gives up ...
Rejected(f, k) ==
    CASE f.row.inode = "loc2" -> f.loc2.inode = None \/ f.loc2.ret < 0
      [] f.row.fstat -> f.loc.inode = None \/ (f.loc.ret < 0 /\ (k = NoFd \/ f.ino \in Dirs))
      [] OTHER -> f.loc.ret < 0 \/ f.loc2.ret < 0 \/ (f.row.needs /\ f.loc.inode = None)

\* ... or goes on: the inode of the call, its descriptor, the wind.
Proceed(n, tab, f, look) ==
    LET old == f.loc.inode
        makes == f.row.inode = "new" \/ (f.row.inode = "missing" /\ old = None)
        revalidates == f.row.cbk = "entry" /\ f.row.inode \in {"missing", "found"} /\ old # None
        k == IF f.row.opens THEN 1 ELSE look
    IN  \E i \in IF makes THEN Unused(tab) ELSE {IF f.row.inode = "loc2" THEN f.loc2.inode ELSE old} :
          LET tab1 == IF makes THEN inode_new(tab, i)
                      ELSE IF f.row.inode = "loc2" THEN inode_ref(tab, i) ELSE tab
          IN  /\ t' = IF f.row.opens THEN inode_ref(tab1, i) ELSE tab1
              /\ leaked' = IF f.row.inode \in {"new", "loc2"} THEN Leak(old) ELSE leaked
              /\ fd' = IF f.row.opens THEN [fd EXCEPT ![1] = fd_create(i)]
                       ELSE IF look # NoFd THEN [fd EXCEPT ![look].ref = @ + 1] ELSE fd
              /\ frame' = [frame EXCEPT ![n] = [f EXCEPT !.pc = "wound", !.loc.inode = i, !.fd = k,
                                                      !.reval = IF revalidates THEN 1 ELSE 0]]
              /\ busy' = None

Continue(n, tab, f) ==
    \E k \in fd_lookup(f) : IF Rejected(f, k) THEN Reject(n, tab, f) ELSE Proceed(n, tab, f, k)

\* The second section of fuse_loc_fill, and of the second one if there is a loc2.
Parent(n) ==
    LET f == frame[n]
        p == LocParent(t, f.loc.inode, f.par, f.name)
        g == [f EXCEPT !.loc.parent = p,
                       !.loc.ret = LocRet(t, f.loc.inode, p, f.ino, f.par)]
        tab == Referred(t, p)
    IN  /\ f.pc = "parent"
        /\ IF f.row.loc2 = "none" THEN Continue(n, tab, g)
           ELSE IF f.row.loc2 = "name" /\ (g.loc.inode = None \/ g.loc.ret < 0) THEN Reject(n, tab, g)
           ELSE /\ t' = tab /\ frame' = [frame EXCEPT ![n] = [g EXCEPT !.pc = "search2"]]
                /\ UNCHANGED <<fd, busy, leaked>>
        /\ UNCHANGED <<told, vol, left>>

Search2(n) ==
    LET f == frame[n]
        i == LocInode(t, f.ino, f.par2, f.name2)
    IN  /\ f.pc = "search2"
        /\ t' = Referred(t, i)
        /\ frame' = [frame EXCEPT ![n] = [f EXCEPT !.pc = "parent2", !.loc2.inode = i]]
        /\ UNCHANGED <<fd, busy, told, vol, leaked, left>>

Parent2(n) ==
    LET f == frame[n]
        p == LocParent(t, f.loc2.inode, f.par2, f.name2)
        g == [f EXCEPT !.loc2.parent = p, !.loc2.ret = LocRet(t, f.loc2.inode, p, f.ino, f.par2)]
        tab == Referred(t, p)
    IN  /\ f.pc = "parent2"
        /\ Continue(n, tab, g)
        /\ UNCHANGED <<told, vol, left>>

-----------------------------------------------------------------------------
\* The volume (external): what it does for a call, and what it will answer.
Answer(n, ok, ino) == frame' = [frame EXCEPT ![n].pc = "answered", ![n].ok = ok, ![n].st_ino = ino]

Gone(i) == ~(\E e \in vol : e.ino = i)
Exists(i) == i = 1 \/ ~Gone(i)
\* A number is given to a new file once nothing is left of the old one.
Fresh == {i \in Inos \ {1} : Gone(i) /\ ~(\E k \in Fds : fd[k].inode # None /\ t.inode[fd[k].inode].ino = i)}
Movable(i, d) == i \in Files \/ d # i
Removable(i) == ~(\E e \in vol : e.par = i)

VolumeFails(n) == frame[n].pc = "wound" /\ Answer(n, FALSE, 0) /\ UNCHANGED vol

VolumeDoes(n) ==
    LET f == frame[n]
        here == Entry(f.par, f.name)
        there == Entry(f.par2, f.name2)
        looks == f.row.cbk = "entry" /\ (f.row.inode \in {"missing", "found"})
    IN  /\ f.pc = "wound"
        /\ \/ /\ looks
              /\ IF f.par = 0 THEN Answer(n, TRUE, 1)
                 ELSE here # {} /\ Answer(n, TRUE, InoOf(here))
              /\ UNCHANGED vol
           \/ /\ f.row.inode \in {"new", "loc2"} /\ here = {} /\ Exists(f.par)
              /\ \E i \in IF f.row.inode = "new" THEN Fresh
                           ELSE {t.inode[f.loc2.inode].ino} \cap {j \in Files : Exists(j)} :
                   /\ f.row.opens => i \in Files
                   /\ vol' = vol \cup {[par |-> f.par, name |-> f.name, ino |-> i]}
                   /\ Answer(n, TRUE, i)
           \/ /\ f.row.cbk = "unlink" /\ here # {} /\ Removable(InoOf(here))
              /\ vol' = vol \ here /\ Answer(n, TRUE, 0)
           \/ /\ f.row.cbk = "rename" /\ here # {} /\ Exists(f.par2) /\ Movable(InoOf(here), f.par2)
              /\ Removable(InoOf(there))
              /\ vol' = IF InoOf(here) = InoOf(there) THEN vol
                        ELSE (vol \ (here \cup there)) \cup {[par |-> f.par2, name |-> f.name2, ino |-> InoOf(here)]}
              /\ Answer(n, TRUE, 0)
           \/ /\ f.row.cbk \in {"answer", "fd"} /\ Answer(n, TRUE, 0) /\ UNCHANGED vol

Volume(n) == (VolumeFails(n) \/ VolumeDoes(n)) /\ UNCHANGED <<t, busy, fd, told, leaked, left>>

\* Another client removes a file, or puts another in its place.
OtherClient ==
    /\ left.other > 0
    /\ \E e \in vol : e.ino \in Files /\ vol' \in {vol \ {e}} \cup
         {(vol \ {e}) \cup {[e EXCEPT !.ino = i]} : i \in Files \cap Fresh}
    /\ left' = [left EXCEPT !.other = @ - 1]
    /\ UNCHANGED <<t, frame, busy, fd, told, leaked>>

-----------------------------------------------------------------------------
\* The callbacks. They run in the thread the replies come in, one after the other;
\* the fuse thread goes on beside them.
Replying == \E n \in Frames : frame[n].pc = "linked"
Answered(n, cbk) == ~Replying /\ frame[n].pc = "answered" /\ frame[n].row.cbk = cbk

need_fresh_lookup(f) == f.reval = 1 /\ (~f.ok \/ t.inode[f.loc.inode].ino # f.st_ino)

\* fuse_entry_cbk asks once more when what is there is not what was known ...
EntryAgain(n) ==
    LET f == frame[n]
        tab == inode_unref(t, f.loc.inode)
    IN  /\ Answered(n, "entry") /\ need_fresh_lookup(f)
        /\ \E i \in Unused(tab) :
             /\ t' = inode_new(tab, i)
             /\ frame' = [frame EXCEPT ![n].pc = "wound", ![n].loc.inode = i, ![n].reval = 2]
        /\ UNCHANGED <<busy, fd, told, vol, leaked, left>>

\* ... else links the inode, as fuse_create_cbk does, ...
Link(n) ==
    LET f == frame[n]
    IN  /\ Answered(n, "create") \/ (Answered(n, "entry") /\ ~need_fresh_lookup(f))
        /\ f.ok
        /\ t' = inode_link(t, f.loc.inode, f.loc.parent, f.name, f.st_ino)
        /\ frame' = [frame EXCEPT ![n].pc = "linked"]
        /\ UNCHANGED <<busy, fd, told, vol, leaked, left>>

Tell(i) == told' = IF i = 1 THEN told ELSE [told EXCEPT ![i] = @ + 1]

\* ... counts the lookup, replies and frees its state. It does not look at what the
\* reply returns: when the request was interrupted the kernel never hears of it.
fuse_entry_cbk(n) ==
    LET f == frame[n]
    IN  /\ f.pc = "linked" /\ f.row.cbk = "entry"
        /\ Finish(n, inode_lookup(t, f.loc.inode), fd, f)
        /\ Tell(f.st_ino) \/ UNCHANGED told
        /\ UNCHANGED <<busy, vol, leaked, left>>

\* fuse_create_cbk takes the lookup and the descriptor back when it was interrupted.
fuse_create_cbk(n) ==
    LET f == frame[n]
        tab == inode_lookup(t, f.loc.inode)
    IN  /\ f.pc = "linked" /\ f.row.cbk = "create"
        /\ \/ /\ Finish(n, tab, fd_bind(f.fd), f)
              /\ Tell(f.st_ino)
           \/ /\ Finish(n, inode_forget(tab, f.loc.inode, 1), fd, f)
              /\ UNCHANGED told
        /\ UNCHANGED <<busy, vol, leaked, left>>

fuse_fd_cbk(n) ==
    LET f == frame[n]
    IN  /\ Answered(n, "fd") /\ f.ok
        /\ \/ Finish(n, t, fd_bind(f.fd), f)
           \/ Finish(n, t, fd, f)
        /\ UNCHANGED <<busy, told, vol, leaked, left>>

fuse_unlink_cbk(n) ==
    LET f == frame[n]
    IN  /\ Answered(n, "unlink") /\ f.ok
        /\ Finish(n, inode_unlink(t, f.loc.inode, f.loc.parent, f.name), fd, f)
        /\ UNCHANGED <<busy, told, vol, leaked, left>>

fuse_rename_cbk(n) ==
    LET f == frame[n]
    IN  /\ Answered(n, "rename") /\ f.ok
        /\ Finish(n, inode_rename(t, f.loc.parent, f.name, f.loc2.parent, f.name2, f.loc.inode, f.loc.ino), fd, f)
        /\ UNCHANGED <<busy, told, vol, leaked, left>>

\* A callback that only answers, and every one that answers an error.
AnswerOnly(n) ==
    LET f == frame[n]
    IN  /\ Answered(n, f.row.cbk) /\ (~f.ok \/ f.row.cbk = "answer")
        /\ ~(f.row.cbk = "entry" /\ need_fresh_lookup(f))
        /\ Finish(n, t, fd, f)
        /\ UNCHANGED <<busy, told, vol, leaked, left>>

-----------------------------------------------------------------------------
\* The kernel closes a descriptor nothing of its own uses any more.
Release(kind) ==
    /\ busy = None
    /\ \E k \in Fds :
         /\ fd[k].open /\ t.inode[fd[k].inode].ino \in kind
         /\ ~(\E n \in Active : frame[n].row.by = "fd" /\ frame[n].fd = k)
         /\ LET u == fd_unref(t, [fd EXCEPT ![k].open = FALSE], k)
            IN  t' = u.t /\ fd' = u.fd
    /\ UNCHANGED <<frame, busy, told, vol, leaked, left>>

fuse_release == Release(Files)
fuse_releasedir == Release(Dirs)

\* The kernel forgets a file nothing of its own refers to: all the lookups it was told of.
Pinned(i) ==
    \/ \E n \in Active : i \in {frame[n].ino, frame[n].par, frame[n].par2}
                          \/ (frame[n].row.needs /\ frame[n].loc.ino = i)
    \/ \E k \in Fds : fd[k].open /\ t.inode[fd[k].inode].ino = i

Forget(n) ==
    /\ busy = None /\ frame[n].pc = "idle"
    /\ \E i \in Known \ {1} :
         LET o == inode_search(t, i)
         IN  /\ ~Pinned(i)
             /\ told' = [told EXCEPT ![i] = 0]
             /\ IF o = None THEN UNCHANGED <<t, frame, busy>>
                ELSE /\ t' = inode_ref(t, o)
                     /\ frame' = [frame EXCEPT ![n].pc = "forget", ![n].loc.inode = o, ![n].st_ino = told[i]]
                     /\ busy' = n
    /\ UNCHANGED <<fd, vol, leaked, left>>

fuse_forget(n) ==
    LET f == frame[n]
    IN  /\ f.pc = "forget"
        /\ Finish(n, inode_forget(t, f.loc.inode, f.st_ino), fd, f)
        /\ busy' = None
        /\ UNCHANGED <<told, vol, leaked, left>>

-----------------------------------------------------------------------------
Next ==
    \/ \E n \in Frames : Request(n) \/ RequestFd(n) \/ Parent(n) \/ Search2(n) \/ Parent2(n)
                        \/ Volume(n) \/ EntryAgain(n) \/ Link(n) \/ fuse_entry_cbk(n)
                        \/ fuse_create_cbk(n) \/ fuse_fd_cbk(n) \/ fuse_unlink_cbk(n)
                        \/ fuse_rename_cbk(n) \/ AnswerOnly(n) \/ Forget(n) \/ fuse_forget(n)
    \/ OtherClient
    \/ fuse_release
    \/ fuse_releasedir

Spec == Init /\ [][Next]_vars

-----------------------------------------------------------------------------
\* Every file the kernel was told of is in the table, under the number it was told,
\* with at least as many lookups as it was told of: whichever of the objects that
\* overlapping lookups made for the file won (__inode_replace, inode_lookup), a later
\* request by that number finds it, and no lookup is counted on an object that lost.
KernelKeeps ==
    \A i \in Inos \ {1} : told[i] > 0 =>
        LET o == inode_search(t, i) IN o # None /\ t.inode[o].nlookup >= told[i]

Holds(l, i) == (IF l.inode = i THEN 1 ELSE 0) + (IF l.parent = i THEN 1 ELSE 0)

\* An object's references are those of the requests, descriptors and entries that name
\* it, and the ones that a handler wrote over: each is given back exactly once
\* (loc_wipe, fd_destroy, __dentry_unset, __adopt_children), no object is freed in use
\* and no assertion of the table fails.
RefsExact ==
    /\ ~t.fault
    /\ \A i \in Objects : t.inode[i].ino # 1 =>
          t.inode[i].ref = MapThenSumSet(LAMBDA n : Holds(frame[n].loc, i) + Holds(frame[n].loc2, i), Frames)
                           + Cardinality({k \in Fds : fd[k].inode = i})
                           + Cardinality(ChildrenOf(t, i)) + leaked[i]

\* A name in a directory leads to one inode, and what a name leads to can be found by
\* its number too: __inode_link takes the name from whoever had it, inode_rename clears
\* the target, and a file that was replaced takes its names along.
OneName ==
    \A d, e \in t.dentries : d.hashed =>
        /\ t.inode[d.inode].hashed
        /\ e.hashed /\ d.name = e.name /\ t.inode[d.parent].ino = t.inode[e.parent].ino => d = e
=============================================================================
