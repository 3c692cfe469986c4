---------------------------- MODULE InodeTable ----------------------------
(***************************************************************************)
(* The table of inodes and directory entries that the mount and the server *)
(* keep (libglusterfs/src/inode.c). Each operation is a function from the  *)
(* table before to the table after, as each holds table->lock; the pruning *)
(* that follows in a lock section of its own is inode_table_prune.         *)
(*                                                                         *)
(* An inode_t is an object of the heap; the file it stands for is its ino. *)
(* Several objects may stand for one file while lookups of it overlap: the *)
(* one linked last is hashed, the others live on for those who hold them.  *)
(*                                                                         *)
(* A failed assert and the use of a NULL pointer set fault.                *)
(***************************************************************************)
EXTENDS Integers, Sequences, FiniteSets

CONSTANT MaxObjects   \* bound on the inode_t objects that exist at one time

Objects == 1 .. MaxObjects
None == 0             \* the NULL pointer; also the ino of an inode never linked

\* struct _inode; the three lists of the table partition the objects that live.
Free == [list |-> "free", ino |-> None, ref |-> 0, nlookup |-> 0, hashed |-> FALSE]

\* The entries of the table. A dentry_t belongs to an inode and refers to its parent.
DentriesOf(t, i) == {d \in t.dentries : d.inode = i}
ChildrenOf(t, i) == {d \in t.dentries : d.parent = i}

Some(S) == IF S = {} THEN None ELSE CHOOSE x \in S : TRUE

__inode_search(t, ino) == Some({i \in Objects : t.inode[i].hashed /\ t.inode[i].ino = ino})

__dentry_search(t, par, name) ==
    {d \in t.dentries : d.hashed /\ t.inode[d.parent].ino = par /\ d.name = name}

__dentry_search_for_inode(t, i, par, name) ==
    {d \in DentriesOf(t, i) : t.inode[d.parent].ino = par /\ d.name = name}

\* __dentry_search_arbit: the ones it may return.
__dentry_search_arbit(t, i) ==
    LET hashed == {d \in DentriesOf(t, i) : d.hashed}
    IN  IF hashed # {} THEN hashed ELSE DentriesOf(t, i)

Rehash(t, ds, h) ==
    [t EXCEPT !.dentries = (@ \ ds) \cup {[d EXCEPT !.hashed = h] : d \in ds}]

-----------------------------------------------------------------------------
\* References

\* The references of the root are never given back (__inode_unref), so all that its
\* count tells is whether there were any: 1 stands for every number above 0.
__inode_ref(t, i) ==
    LET u == [t EXCEPT !.inode[i].ref = @ + 1]
    IN  IF t.inode[i].ref # 0 THEN (IF t.inode[i].ino = 1 THEN t ELSE u)
        ELSE [u EXCEPT !.inode[i].list = "active", !.lru_size = @ - 1,
                       !.lru = SelectSeq(@, LAMBDA x : x # i)]

RECURSIVE __inode_unref(_, _), __dentry_unset(_, _), UnsetAll(_, _)

\* An entry that goes gives up its reference to its parent.
__dentry_unset(t, d) == __inode_unref([t EXCEPT !.dentries = @ \ {d}], d.parent)

UnsetAll(t, ds) ==
    IF ds = {} THEN t
    ELSE LET d == CHOOSE d \in ds : TRUE IN UnsetAll(__dentry_unset(t, d), ds \ {d})

__inode_passivate(t, i) ==
    UnsetAll([t EXCEPT !.inode[i].list = "lru", !.lru = Append(@, i), !.lru_size = @ + 1],
             {d \in DentriesOf(t, i) : ~d.hashed})

__inode_retire(t, i) ==
    UnsetAll([t EXCEPT !.inode[i].list = "purge", !.inode[i].hashed = FALSE,
                       !.fault = @ \/ ChildrenOf(t, i) # {}],
             DentriesOf(t, i))

\* The root is never unreferenced; any other inode nobody refers to waits in the lru
\* list if it can be found and was looked up, and is on its way out otherwise.
__inode_unref(t, i) ==
    LET u == [t EXCEPT !.inode[i].ref = @ - 1, !.fault = @ \/ t.inode[i].ref = 0]
    IN  IF t.inode[i].ino = 1 THEN t
        ELSE IF u.inode[i].ref > 0 THEN u
        ELSE IF u.inode[i].nlookup > 0 /\ u.inode[i].hashed THEN __inode_passivate(u, i)
        ELSE __inode_retire(u, i)

\* inode_table_prune: the inodes longest in the lru list make room, and what has been
\* retired is destroyed.
RECURSIVE Evict(_)
Evict(t) ==
    IF t.lru_limit = 0 \/ t.lru_size <= t.lru_limit THEN t
    ELSE IF t.lru = <<>> THEN [t EXCEPT !.fault = TRUE]
    ELSE LET i == Head(t.lru)
         IN  Evict(__inode_retire([t EXCEPT !.lru = Tail(@), !.lru_size = @ - 1], i))

inode_table_prune(t) ==
    LET u == Evict(t)
    IN  [u EXCEPT !.inode = [i \in Objects |-> IF @[i].list = "purge" THEN Free ELSE @[i]]]

inode_ref(t, i) == __inode_ref(t, i)
inode_unref(t, i) == IF i = None THEN t ELSE inode_table_prune(__inode_unref(t, i))

-----------------------------------------------------------------------------
\* Making, finding and naming inodes

\* The object the allocator gives out next.
Unused(t) == {i \in Objects : t.inode[i].list = "free" /\ \A j \in 1 .. (i - 1) : t.inode[j].list # "free"}

inode_new(t, i) == [t EXCEPT !.inode[i] = [Free EXCEPT !.list = "active", !.ref = 1]]

__dentry_create(t, i, parent, name) ==
    [__inode_ref(t, parent) EXCEPT
        !.dentries = @ \cup {[inode |-> i, parent |-> parent, name |-> name, hashed |-> FALSE]}]

\* __copy_dentries: newi gets the names of oldi, and is found by those oldi was found by.
RECURSIVE CopyDentries(_, _, _)
CopyDentries(t, ds, newi) ==
    IF ds = {} THEN t
    ELSE LET d == CHOOSE d \in ds : TRUE
             par == t.inode[d.parent].ino
             u == IF __dentry_search_for_inode(t, newi, par, d.name) # {} THEN t
                  ELSE __dentry_create(t, newi, d.parent, d.name)
             new == __dentry_search_for_inode(u, newi, par, d.name)
             v == IF d.hashed THEN Rehash(Rehash(u, {d}, FALSE), new, TRUE) ELSE u
         IN  CopyDentries(v, ds \ {d}, newi)

\* __adopt_children: the references of the children move to newi.
RECURSIVE AdoptChildren(_, _, _, _)
AdoptChildren(t, ds, oldi, newi) ==
    IF ds = {} THEN t
    ELSE LET d == CHOOSE d \in ds : TRUE
             u == __inode_ref(__inode_unref(t, oldi), newi)
             v == [u EXCEPT !.dentries = (@ \ {d}) \cup {[d EXCEPT !.parent = newi]}]
         IN  AdoptChildren(v, ds \ {d}, oldi, newi)

\* Mutant: the lookups of the old object are not carried over.
ReplaceForgets(t, oldi, newi) ==
    LET u == CopyDentries(t, DentriesOf(t, oldi), newi)
        v == AdoptChildren(u, ChildrenOf(u, oldi), oldi, newi)
    IN  [v EXCEPT !.inode[oldi].nlookup = 0, !.inode[oldi].hashed = FALSE,
                  !.root = IF v.inode[newi].ino = 1 THEN newi ELSE @]

__inode_replace(t, oldi, newi) ==
    LET u == CopyDentries(t, DentriesOf(t, oldi), newi)
        v == AdoptChildren(u, ChildrenOf(u, oldi), oldi, newi)
    IN  [v EXCEPT !.inode[newi].nlookup = v.inode[oldi].nlookup,
                  !.inode[oldi].nlookup = 0, !.inode[oldi].hashed = FALSE,
                  !.root = IF v.inode[newi].ino = 1 THEN newi ELSE @]

\* Mutant: the name is not taken from the inode it led to before.
LinkBeside(t, i, parent, name, ino) ==
    LET old == __inode_search(t, ino)
        t1 == [t EXCEPT !.inode[i].ino = ino]
        t2 == IF old \in {None, i} THEN t1
              ELSE __inode_unref(__inode_replace(__inode_ref(t1, old), old, i), old)
        t3 == [t2 EXCEPT !.inode[i].hashed = TRUE]
        par == t3.inode[parent].ino
        t4 == IF __dentry_search_for_inode(t3, i, par, name) # {} THEN t3
              ELSE __dentry_create(t3, i, parent, name)
    IN  IF parent = None THEN t3
        ELSE Rehash(t4, __dentry_search_for_inode(t4, i, par, name), TRUE)

\* The inode is the one of its file from now on, and the name leads to it.
__inode_link(t, i, parent, name, ino) ==
    LET old == __inode_search(t, ino)
        t1 == [t EXCEPT !.inode[i].ino = ino,
                        !.fault = @ \/ t.inode[i].ino \notin {None, ino}]
        t2 == IF old \in {None, i} THEN t1
              ELSE __inode_unref(__inode_replace(__inode_ref(t1, old), old, i), old)
        t3 == [t2 EXCEPT !.inode[i].hashed = TRUE]
        par == t3.inode[parent].ino
        t4 == IF __dentry_search_for_inode(t3, i, par, name) # {} THEN t3
              ELSE __dentry_create(t3, i, parent, name)
        t5 == Rehash(t4, __dentry_search(t4, par, name), FALSE)
    IN  IF parent = None THEN t3
        ELSE Rehash(t5, __dentry_search_for_inode(t5, i, par, name), TRUE)

inode_link(t, i, parent, name, ino) == inode_table_prune(__inode_link(t, i, parent, name, ino))

\* The object that stands for the file of i now; NULL if there is none any more.
Current(t, i) == IF t.inode[i].hashed THEN i ELSE __inode_search(t, t.inode[i].ino)

\* (The root is not counted: it is neither forgotten nor unreferenced.)
inode_lookup(t, i) ==
    LET j == Current(t, i)
    IN  IF j = None THEN [t EXCEPT !.fault = TRUE]
        ELSE IF t.inode[j].ino = 1 THEN t ELSE [t EXCEPT !.inode[j].nlookup = @ + 1]

\* nlookup of 0 stands for all.
inode_forget(t, i, nlookup) ==
    LET j == Current(t, i)
    IN  IF j = None \/ t.inode[j].nlookup < nlookup THEN [t EXCEPT !.fault = TRUE]
        ELSE inode_table_prune(
               [t EXCEPT !.inode[j].nlookup = IF nlookup = 0 THEN 0 ELSE @ - nlookup])

__inode_unlink(t, i, parent, name) ==
    UnsetAll(t, __dentry_search_for_inode(t, i, t.inode[parent].ino, name))

inode_unlink(t, i, parent, name) ==
    LET j == Current(t, i)
    IN  IF j = None THEN [t EXCEPT !.fault = TRUE]
        ELSE inode_table_prune(__inode_unlink(t, j, parent, name))

inode_rename(t, srcdir, srcname, dstdir, dstname, i, ino) ==
    LET j == Current(t, i)
        u == UnsetAll(t, __dentry_search(t, t.inode[dstdir].ino, dstname))
    IN  IF j = None THEN [t EXCEPT !.fault = TRUE]
        ELSE inode_table_prune(
               __inode_link(__inode_unlink(u, j, srcdir, srcname), j, dstdir, dstname, ino))

\* inode_table_new: the root alone, linked and in the lru list.
inode_table_new(limit) ==
    [inode |-> [i \in Objects |->
                  IF i = 1 THEN [Free EXCEPT !.list = "lru", !.ino = 1, !.hashed = TRUE] ELSE Free],
     dentries |-> {}, lru |-> <<1>>, lru_size |-> 1, lru_limit |-> limit, root |-> 1, fault |-> FALSE]

=============================================================================
