--------------------------- MODULE AfrTransaction ---------------------------
(***************************************************************************)
(* The replicate translator's transaction (cluster/afr, afr-transaction.c) *)
(* run by several clients, each with a replicate translator of its own,    *)
(* over the same children.  An operation that changes a file or a          *)
(* directory locks it on lock_server_count children, counts every child as *)
(* pending on every live child, performs the change on the live children,  *)
(* takes the count back, and unlocks.                                      *)
(*                                                                         *)
(* A client runs one operation at a time.  The calls of one phase go to    *)
(* the children in parallel: each is executed and answered in one step, in *)
(* any order, and a lost connection answers the calls on it, some of them  *)
(* executed, with ENOTCONN.                                                *)
(***************************************************************************)
EXTENDS Integers, Sequences, FiniteSets, FiniteSetsExt

CONSTANTS
  Clients,      \* mounts, each with its replicate translator
  Cells,        \* parts of the data: blocks of the file, directory entries
  Keys,         \* changelog attributes: one of the file, one per directory
  KeyOf,        \* the attribute that journals a cell
  Setups        \* volumes and workloads, with these fields:
                \*   clients       the mounts that run
                \*   n             priv->child_count
                \*   ops           the operations they ask for, as made below
                \*   lock_servers  data-, entry-, metadata-lock-server-count
                \*   change_log    the types whose changelog option is on
                \*   dup           an fd may be used again after a flush (dup(2))
                \*   no_locking    children without the locks translator
                \*   no_xattrs     children without extended attributes
                \*   faults        phases in which children may answer EIO
                \*   starts, drops, reconnects, crashes  bounds: how many

Modes == {"DATA", "METADATA", "ENTRY"}

ASSUME AfrAssumption ==
  /\ KeyOf \in [Cells -> Keys]
  /\ \A s \in Setups :
       /\ s.clients \subseteq Clients /\ IsFiniteSet(s.clients)
       /\ s.n \in Nat \ {0}
       /\ s.lock_servers \in [Modes -> 0 .. s.n]
       /\ s.change_log \subseteq Modes
       /\ \A op \in s.ops : /\ op.type \in Modes \cup {"FLUSH", "RENAME"}
                           /\ DOMAIN op.locks \in {1 .. 1, 1 .. 2}
                           /\ DOMAIN op.keys \in {1 .. 1, 1 .. 2}

VARIABLES
  vol,       \* the setup, which never changes
  child_up,  \* priv->child_up: the children each client is connected to
  tx,        \* the local state of the operation each client runs
  fdctx,     \* the open fd of a client: "none", or the mark 0xaf1 of its
             \* first write is set ("written") and it was flushed ("flushed")
  badfd,     \* what each child answers to calls on the fd of a client: "none",
             \* EBADFD where it was never opened, EINVAL where it was forgotten
  locks,     \* the locks each child holds
  pending,   \* the changelog: pending[c][k][d] counts d on child c
  cell,      \* the last update each child performed on each cell
  acked,     \* the last update of each cell a client was told succeeded
  dead,      \* clients that crashed
  updates,   \* updates numbered so far, in the order they are performed
  missed,    \* the children that did not perform an update of a client, and
             \* whether the client made it through its fd
  miscounted, \* a post-op has taken back the count of a child for an update
             \* that the child missed
  starts, drops, reconnects, crashes  \* how often, for the bounds

Children == 1 .. vol.n
bounds == <<starts, drops, reconnects, crashes>>
children == <<locks, pending, cell>>
history == <<missed, miscounted>>
vars == <<vol, history, child_up, tx, fdctx, badfd, children, acked, dead, updates, bounds>>
-----------------------------------------------------------------------------
(* The operations.  locks are the regions or names locked, in the order of *)
(* the calls; keys the attributes counted, in the order of the calls;      *)
(* early tells that the caller is answered at the first success (the       *)
(* default wait_count), last that it is answered when the last child has   *)
(* replied; otherwise it is answered at the end.                           *)

InodeWrite(fop, type, region, cs, fd, reply) ==
  [fop |-> fop, type |-> type, locks |-> <<region>>, cells |-> cs, fd |-> fd,
   keys |-> <<IF type = "METADATA" THEN "metadata" ELSE "data">>,
   reply |-> reply]

DirWrite(fop, name, cs) ==
  [fop |-> fop, type |-> "ENTRY", locks |-> <<{name}>>, cells |-> cs,
   fd |-> FALSE, keys |-> <<KeyOf[name]>>, reply |-> "last"]

\* Metadata operations lock the whole file.
afr_chmod == InodeWrite("chmod", "METADATA", {"mode"}, {"mode"}, FALSE, "early")
afr_fchmod == InodeWrite("fchmod", "METADATA", {"mode"}, {"mode"}, TRUE, "early")
afr_chown == InodeWrite("chown", "METADATA", {"mode"}, {"mode"}, FALSE, "early")
afr_fchown == InodeWrite("fchown", "METADATA", {"mode"}, {"mode"}, TRUE, "early")
afr_utimens == InodeWrite("utimens", "METADATA", {"mode"}, {"mode"}, FALSE, "early")
afr_setxattr == InodeWrite("setxattr", "METADATA", {"mode"}, {"mode"}, FALSE, "early")
afr_removexattr ==
  InodeWrite("removexattr", "METADATA", {"mode"}, {"mode"}, FALSE, "early")

\* A write of blocks bs locks them.
afr_writev(bs) == InodeWrite("writev", "DATA", bs, bs, TRUE, "last")

\* Cutting a file off after its blocks head drops its blocks tail: the lock
\* is on (0, offset), which is the whole file when offset is 0.
CutRegion(head, tail) == IF head = {} THEN tail ELSE head

afr_truncate(head, tail) ==
  InodeWrite("truncate", "DATA", CutRegion(head, tail), tail, FALSE, "early")
afr_ftruncate(head, tail) ==
  InodeWrite("ftruncate", "DATA", CutRegion(head, tail), tail, TRUE, "early")

\* flush changes nothing; it takes back the count of the fd's first write.
afr_flush(bs) ==
  [InodeWrite("flush", "DATA", bs, {}, TRUE, "end") EXCEPT !.type = "FLUSH"]

afr_create(n) == DirWrite("create", n, {n})
afr_mknod(n) == DirWrite("mknod", n, {n})
afr_mkdir(n) == DirWrite("mkdir", n, {n})
afr_symlink(n) == DirWrite("symlink", n, {n})
afr_unlink(n) == DirWrite("unlink", n, {n})
afr_rmdir(n) == DirWrite("rmdir", n, {n})

\* link makes the name new and locks the name old.
afr_link(old, new) == DirWrite("link", old, {new})

\* rename locks both names, the lower one in lower_path's order first, and
\* counts on the new parent first.
afr_rename(old, new, lower, higher) ==
  [DirWrite("rename", old, {old, new}) EXCEPT
     !.type = "RENAME", !.locks = <<{lower}, {higher}>>,
     !.keys = <<KeyOf[new], KeyOf[old]>>]
-----------------------------------------------------------------------------
(* What a transaction does next, as functions of its local state t.        *)

Mode(op) == CASE op.type = "FLUSH" -> "DATA"
              [] op.type = "RENAME" -> "ENTRY"
              [] OTHER -> op.type

afr_lock_server_count_zero(op) == 0

afr_lock_server_count(op) == vol.lock_servers[Mode(op)]

__changelog_enabled(op) == op.type = "FLUSH" \/ Mode(op) \in vol.change_log

\* Writes through an fd are counted once, by the first of them.
OnFd(op) == op.fop \in {"writev", "ftruncate"}

__changelog_needed_pre_op_inodes(op, first) ==
  /\ __changelog_enabled(op) /\ Mode(op) # "ENTRY"
  /\ op.fop # "flush"
  /\ OnFd(op) => first
__changelog_needed_pre_op_always(op, first) ==
  __changelog_enabled(op) /\ op.fop # "flush"

__changelog_needed_pre_op(op, first) ==
  /\ __changelog_enabled(op)
  /\ op.fop # "flush"
  /\ OnFd(op) => first

__changelog_needed_post_op(op) == __changelog_enabled(op) /\ ~ OnFd(op)

Nothing == [phase |-> "idle"]
NoCount == [c \in Children |-> 0]
AllPending == [c \in Children |-> 1]

\* __mark_all_success, then __mark_down_children: what the fop found out
\* about its children (afr_transaction_child_died) is overwritten.
SuccessCount_all(t) == [c \in Children |-> -1]

SuccessCount(t) == [c \in Children |-> IF c \in t.up THEN -1 ELSE 0]

Calls(t, phase, cs, on) ==
  [t EXCEPT !.phase = phase, !.calls = cs \X DOMAIN on]

\* transaction.done answers the caller if it was not answered before.
Answer(t) ==
  IF t.answer = "none"
  THEN [t EXCEPT !.answer = IF t.success > 0 THEN "ok" ELSE "failed"]
  ELSE t

Done(t) == [Answer(t) EXCEPT !.phase = "done", !.calls = {}]

afr_unlock(t) ==
  IF t.locked = {} THEN Done(t) ELSE Calls(t, "unlock", t.locked, t.op.locks)

afr_changelog_post_op(t) ==
  IF t.up = {} THEN afr_unlock(t)
  ELSE Calls([t EXCEPT !.pending = SuccessCount(t)], "postop", t.up, t.op.keys)

afr_transaction_resume(t) ==
  IF __changelog_needed_post_op(t.op) THEN afr_changelog_post_op(t)
  ELSE IF afr_lock_server_count(t.op) = 0 THEN Done(t)
  ELSE afr_unlock(t)

\* transaction.fop: wind the operation to every child thought to be up.
Fop(t) ==
  IF t.up = {} THEN afr_transaction_resume(t)
  ELSE Calls(t, "fop", t.up, <<t.op.fop>>)

afr_changelog_pre_op(t) ==
  IF t.up = {} THEN afr_unlock(t)
  ELSE Calls([t EXCEPT !.pending = AllPending], "preop", t.up, t.op.keys)

LocksTaken(t, first) ==
  IF __changelog_needed_pre_op(t.op, first) THEN afr_changelog_pre_op(t)
  ELSE Fop(t)

afr_lock_rec_parallel(t, i, first) ==
  LET next == {c \in t.up : c >= i} IN
  IF next = {} /\ t.locked = {} THEN Done(t)
  ELSE IF next = {} \/ Cardinality(t.locked) = afr_lock_server_count(t.op)
  THEN LocksTaken(t, first)
  ELSE Calls(t, "lock", next, t.op.locks)

\* Lock the next live child from i on, if more locks are wanted.
afr_lock_rec(t, i, first) ==
  LET next == {c \in t.up : c >= i} IN
  IF next = {} /\ t.locked = {} THEN Done(t)
  ELSE IF next = {} \/ Cardinality(t.locked) = afr_lock_server_count(t.op)
  THEN LocksTaken(t, first)
  ELSE Calls(t, "lock", {Min(next)}, t.op.locks)

\* afr_lock_rec has all the locks it will get.
LocksDone(t, i) ==
  \/ Cardinality(t.locked) = afr_lock_server_count(t.op)
  \/ t.locked # {} /\ \A c \in t.up : c < i
-----------------------------------------------------------------------------
(* Steps of a client.                                                      *)

First(cl) == fdctx[cl] = "none"

\* t is the new local state of client cl.
Becomes(cl, t) ==
  LET performs == t.phase = "fop" /\ tx[cl].phase # "fop" /\ t.op.cells # {}
      acks == t.answer = "ok" /\ (tx[cl].phase = "idle" \/ tx[cl].answer # "ok")
  IN /\ tx' = [tx EXCEPT ![cl] =
                 IF t.phase = "done" THEN Nothing
                 ELSE IF performs THEN [t EXCEPT !.version = updates + 1] ELSE t]
     /\ updates' = IF performs THEN updates + 1 ELSE updates
     /\ acked' = [x \in Cells |-> IF acks /\ x \in t.op.cells
                                  THEN Max({t.version, acked[x]}) ELSE acked[x]]

\* __is_first_write_on_fd marks the fd.
MarkFd(cl, t, i) ==
  fdctx' = IF t.op.fop = "flush" THEN [fdctx EXCEPT ![cl] = "flushed"]
           ELSE IF LocksDone(t, i) /\ OnFd(t.op) /\ __changelog_enabled(t.op)
           THEN [fdctx EXCEPT ![cl] = "written"] ELSE fdctx

\* AFR_LOCAL_INIT: which children are up is copied now.
LocalInit(cl, op) ==
  [phase |-> "lock", op |-> op, up |-> child_up[cl], locked |-> {}, calls |-> {},
   lost |-> {}, pending |-> NoCount, errno |-> "none", success |-> 0,
   answer |-> "none", version |-> 0]

\* A fop of the translator begins.  A flush of an fd that was not written is
\* no transaction.
Start(cl, op) ==
  /\ cl \in vol.clients
  /\ tx[cl].phase = "idle" /\ cl \notin dead
  /\ starts < vol.starts /\ starts' = starts + 1
  /\ child_up[cl] # {}
  /\ op.fop = "flush" => ~ First(cl)
  /\ op.fd /\ fdctx[cl] = "flushed" => vol.dup
  /\ LET t == LocalInit(cl, op)
     IN Becomes(cl, afr_lock_rec(t, 1, First(cl))) /\ MarkFd(cl, t, 1)
  /\ missed' = [missed EXCEPT ![cl] = {m \in missed[cl] : m.fd}]
  /\ UNCHANGED <<vol, miscounted, child_up, badfd, children, dead, drops, reconnects, crashes>>

Unsupported(c, phase) ==
  CASE phase = "lock" /\ c \in vol.no_locking -> "ENOSYS"
    [] phase \in {"preop", "postop"} /\ c \in vol.no_xattrs -> "ENOTSUP"
    [] OTHER -> "none"

Disconnected(cl, c, k) == c \notin child_up[cl] \/ <<c, k>> \in tx[cl].lost

BadFd(cl, c) == tx[cl].op.fd /\ badfd[cl][c] # "none"

\* The client finds no remote fd and answers without asking the child.
NeverOpened(cl, c) == tx[cl].op.fd /\ badfd[cl][c] = "EBADFD"

\* Child c can execute call k of client cl, or answers error e.
Reaches(cl, c, k) ==
  /\ ~ Disconnected(cl, c, k) /\ ~ BadFd(cl, c)
  /\ Unsupported(c, tx[cl].phase) = "none"

Fails(cl, c, k, e) ==
  \/ e = "EBADFD" /\ NeverOpened(cl, c)
  \/ e = "ENOTCONN" /\ Disconnected(cl, c, k) /\ ~ NeverOpened(cl, c)
  \/ e = "EINVAL" /\ ~ Disconnected(cl, c, k) /\ BadFd(cl, c) /\ ~ NeverOpened(cl, c)
  \/ e # "none" /\ ~ Disconnected(cl, c, k) /\ ~ BadFd(cl, c) /\ e = Unsupported(c, tx[cl].phase)
  \/ e = "EIO" /\ Reaches(cl, c, k) /\ tx[cl].phase \in vol.faults

Pending(cl, c, k) ==
  cl \notin dead /\ tx[cl].phase # "idle" /\ <<c, k>> \in tx[cl].calls

Returned(cl, c, k) == [tx[cl] EXCEPT !.calls = @ \ {<<c, k>>}, !.lost = @ \ {<<c, k>>}]

AllReturned(t) == t.calls = {}

InodeLock(op) == op.type \in {"DATA", "METADATA", "FLUSH"}

Free(c, region) == \A l \in locks[c] : l.region \cap region = {}

AddLock(cl, c, region) ==
  locks' = [locks EXCEPT ![c] = @ \cup {[client |-> cl, region |-> region,
                                         inode |-> InodeLock(tx[cl].op),
                                         stale |-> FALSE]}]

\* afr_lock_cbk: a failed lock is counted like one that was granted.
AfterLock(cl, t, c) ==
  IF ~ AllReturned(t) THEN t
  ELSE IF t.errno = "ENOSYS" THEN afr_unlock(t)
  ELSE afr_lock_rec([t EXCEPT !.locked = @ \cup {c}], c + 1, First(cl))

LockCbk(cl, c, t) ==
  /\ Becomes(cl, AfterLock(cl, t, c))
  /\ IF AllReturned(t) /\ t.errno # "ENOSYS"
     THEN MarkFd(cl, [t EXCEPT !.locked = @ \cup {c}], c + 1)
     ELSE UNCHANGED fdctx

Failed(t, c, e) == [t EXCEPT !.up = @ \ {c}, !.errno = e]

\* The child grants the lock.  A conflicting entry lock waits at the child;
LockGranted(cl, c, k) ==
  /\ Pending(cl, c, k) /\ tx[cl].phase = "lock" /\ Reaches(cl, c, k)
  /\ Free(c, tx[cl].op.locks[k])
  /\ AddLock(cl, c, tx[cl].op.locks[k])
  /\ LockCbk(cl, c, Returned(cl, c, k))
  /\ UNCHANGED <<vol, history, child_up, badfd, pending, cell, dead, bounds>>

\* a conflicting inode lock is put in the list and answered -1, errno 0.
LockConflicts(cl, c, k) ==
  /\ Pending(cl, c, k) /\ tx[cl].phase = "lock" /\ Reaches(cl, c, k)
  /\ InodeLock(tx[cl].op)
  /\ ~ Free(c, tx[cl].op.locks[k])
  /\ AddLock(cl, c, tx[cl].op.locks[k])
  /\ LockCbk(cl, c, Failed(Returned(cl, c, k), c, "0"))
  /\ UNCHANGED <<vol, history, child_up, badfd, pending, cell, dead, bounds>>

LockFails(cl, c, k, e) ==
  /\ Pending(cl, c, k) /\ tx[cl].phase = "lock"
  /\ Fails(cl, c, k, e)
  /\ LockCbk(cl, c, Failed(Returned(cl, c, k), c, e))
  /\ UNCHANGED <<vol, history, child_up, badfd, children, dead, bounds>>

\* xattrop on child c: add a count per child to the attribute of call k.
AddArray(c, key, count) ==
  pending' = [pending EXCEPT ![c][key] = [d \in Children |-> @[d] + count[d]]]

\* afr_changelog_pre_op_cbk, once the last child has replied.
AfterPreOp(t) ==
  IF ~ AllReturned(t) THEN t
  ELSE IF t.errno = "ENOTSUP" THEN afr_transaction_resume(t)
  ELSE Fop(t)

PreOp(cl, c, k) ==
  /\ Pending(cl, c, k) /\ tx[cl].phase = "preop" /\ Reaches(cl, c, k)
  /\ AddArray(c, tx[cl].op.keys[k], tx[cl].pending)
  /\ Becomes(cl, AfterPreOp(Returned(cl, c, k)))
  /\ UNCHANGED <<vol, history, child_up, fdctx, badfd, locks, cell, dead, bounds>>

PreOpFails(cl, c, k, e) ==
  /\ Pending(cl, c, k) /\ tx[cl].phase = "preop"
  /\ Fails(cl, c, k, e)
  /\ Becomes(cl, AfterPreOp(Failed(Returned(cl, c, k), c, e)))
  /\ UNCHANGED <<vol, history, child_up, fdctx, badfd, children, dead, bounds>>

\* The fop's callback answers the caller at the first success or after the
\* last reply, and resumes the transaction after the last reply.
AfterFop(t) ==
  LET last == AllReturned(t)
      u == IF \/ t.op.reply = "early" /\ t.success > 0
              \/ t.op.reply = "last" /\ last
           THEN Answer(t) ELSE t
  IN IF last THEN afr_transaction_resume(u) ELSE u

\* The update is made, in a file or directory, by the fop of child c.
Perform(c, t) ==
  cell' = [cell EXCEPT ![c] = [x \in Cells |-> IF x \in t.op.cells
                                             THEN t.version ELSE @[x]]]

\* The children cs missed the update of client cl, and so did, where the count
\* is the fd's, the children it was not sent to.
Misses(cl, cs) ==
  LET fd == OnFd(tx[cl].op)
      all == cs \cup (IF fd THEN Children \ tx[cl].up ELSE {})
  IN missed' = [missed EXCEPT ![cl] = @ \cup {[child |-> c, fd |-> fd] : c \in all}]

FopOk(cl, c, k) ==
  /\ Pending(cl, c, k) /\ tx[cl].phase = "fop" /\ Reaches(cl, c, k)
  /\ Perform(c, tx[cl])
  /\ Becomes(cl, AfterFop([Returned(cl, c, k) EXCEPT !.success = @ + 1]))
  /\ Misses(cl, {})
  /\ UNCHANGED <<vol, miscounted, child_up, fdctx, badfd, locks, pending, dead, bounds>>

\* child_went_down marks the child in the pending array, except where the
\* callback does not ask.
NotMarked == {"setxattr", "removexattr", "flush"}

afr_transaction_child_died(t, c, e) ==
  IF e \in {"ENOTCONN", "EBADFD"} /\ t.op.fop \notin NotMarked
  THEN [t EXCEPT !.pending[c] = 0] ELSE t

\* Child c has not performed the fop of transaction t.
Missed(t, c) == \E x \in t.op.cells : cell[c][x] < t.version

FopFails(cl, c, k, e) ==
  /\ Pending(cl, c, k) /\ tx[cl].phase = "fop"
  /\ Fails(cl, c, k, e)
  /\ Becomes(cl, AfterFop(afr_transaction_child_died(Returned(cl, c, k), c, e)))
  /\ Misses(cl, IF Missed(tx[cl], c) THEN {c} ELSE {})
  /\ UNCHANGED <<vol, miscounted, child_up, fdctx, badfd, children, dead, bounds>>

\* afr_changelog_post_op_cbk takes no notice of errors.
AfterPostOp(t) ==
  IF ~ AllReturned(t) THEN t
  ELSE IF afr_lock_server_count(t.op) = 0 THEN Done(t) ELSE afr_unlock(t)

\* The post-op of transaction t of client cl takes back the count of a child
\* that missed what the count is for.
TakesBackMissed(cl, t) ==
  \E m \in missed[cl] : m.fd = (t.op.fop = "flush") /\ t.pending[m.child] = -1

PostOp(cl, c, k) ==
  /\ Pending(cl, c, k) /\ tx[cl].phase = "postop" /\ Reaches(cl, c, k)
  /\ AddArray(c, tx[cl].op.keys[k], tx[cl].pending)
  /\ Becomes(cl, AfterPostOp(Returned(cl, c, k)))
  /\ miscounted' = (miscounted \/ TakesBackMissed(cl, tx[cl]))
  /\ UNCHANGED <<vol, missed, child_up, fdctx, badfd, locks, cell, dead, bounds>>

PostOpFails(cl, c, k, e) ==
  /\ Pending(cl, c, k) /\ tx[cl].phase = "postop"
  /\ Fails(cl, c, k, e)
  /\ Becomes(cl, AfterPostOp(Returned(cl, c, k)))
  /\ UNCHANGED <<vol, history, child_up, fdctx, badfd, children, dead, bounds>>

\* afr_unlock_common_cbk takes no notice of errors either.
AfterUnlock_first(t) == Done(t)

AfterUnlock(t) == IF AllReturned(t) THEN Done(t) ELSE t

Unlock(cl, c, k) ==
  /\ Pending(cl, c, k) /\ tx[cl].phase = "unlock" /\ Reaches(cl, c, k)
  /\ locks' = [locks EXCEPT ![c] = {l \in @ : \/ l.client # cl \/ l.stale
                                             \/ l.region # tx[cl].op.locks[k]}]
  /\ Becomes(cl, AfterUnlock(Returned(cl, c, k)))
  /\ UNCHANGED <<vol, history, child_up, fdctx, badfd, pending, cell, dead, bounds>>

UnlockFails(cl, c, k, e) ==
  /\ Pending(cl, c, k) /\ tx[cl].phase = "unlock"
  /\ Fails(cl, c, k, e)
  /\ Becomes(cl, AfterUnlock(Returned(cl, c, k)))
  /\ UNCHANGED <<vol, history, child_up, fdctx, badfd, children, dead, bounds>>
-----------------------------------------------------------------------------
(* Connections.                                                            *)

\* The calls ks of client cl are executed on child c though the reply never
\* arrives.  A lock that is granted dies with the connection.
Executed(cl, c, ks) ==
  LET t == tx[cl]
      sum == [key \in Keys |-> [d \in Children |->
                Cardinality({k \in ks : t.op.keys[k] = key}) * t.pending[d]]]
      counts == ks # {} /\ t.phase \in {"preop", "postop"}
      performs == ks # {} /\ t.phase = "fop"
      unlocks == ks # {} /\ t.phase = "unlock"
  IN /\ pending' = IF counts
                   THEN [pending EXCEPT ![c] = [key \in Keys |-> [d \in Children |->
                                                 @[key][d] + sum[key][d]]]]
                   ELSE pending
     /\ IF performs THEN Perform(c, t) ELSE UNCHANGED cell
     /\ locks' = [locks EXCEPT ![c] =
          {[l EXCEPT !.stale = l.stale \/ l.client = cl] :
             l \in {m \in locks[c] : ~ (unlocks /\ m.client = cl /\ ~ m.stale /\
                                 \E k \in ks : m.region = t.op.locks[k])}}]

\* The calls to child c that are not answered yet.
OnChild(cl, c) ==
  IF tx[cl].phase = "idle" THEN {} ELSE {call \in tx[cl].calls : call[1] = c}

\* The connection of client cl to child c is lost: notify clears child_up.
Drop(cl, c) ==
  /\ cl \in vol.clients /\ c \in child_up[cl]
  /\ IF cl \in dead THEN UNCHANGED drops
     ELSE drops < vol.drops /\ drops' = drops + 1
  /\ \E ks \in SUBSET {call[2] : call \in OnChild(cl, c)} :
       /\ \A k \in ks : tx[cl].phase # "lock" /\ Reaches(cl, c, k)
       /\ Executed(cl, c, ks)
       /\ miscounted' = \/ miscounted
                         \/ /\ ks # {} /\ tx[cl].phase = "postop"
                            /\ TakesBackMissed(cl, tx[cl])
  /\ tx' = IF tx[cl].phase = "idle" THEN tx
           ELSE [tx EXCEPT ![cl].lost = @ \cup OnChild(cl, c)]
  /\ child_up' = [child_up EXCEPT ![cl] = @ \ {c}]
  /\ badfd' = [badfd EXCEPT ![cl][c] = IF @ = "none" THEN "EINVAL" ELSE @]
  /\ UNCHANGED <<vol, missed, fdctx, acked, dead, updates, starts, reconnects, crashes>>

\* The client connects again: notify sets child_up.
Reconnect(cl, c) ==
  /\ cl \in vol.clients \ dead
  /\ c \in Children \ child_up[cl]
  /\ reconnects < vol.reconnects /\ reconnects' = reconnects + 1
  /\ child_up' = [child_up EXCEPT ![cl] = @ \cup {c}]
  /\ UNCHANGED <<vol, history, tx, fdctx, badfd, children, acked, dead, updates, starts, drops,
                 crashes>>

\* An fd opened on the children cs.
OpenedOn(cs) == [c \in Children |-> IF c \in cs THEN "none" ELSE "EBADFD"]

\* The client opens the file again: a new fd on the children it reaches.
Reopen(cl) ==
  /\ tx[cl].phase = "idle" /\ cl \notin dead
  /\ fdctx[cl] = "flushed"
  /\ starts < vol.starts /\ starts' = starts + 1
  /\ fdctx' = [fdctx EXCEPT ![cl] = "none"]
  /\ badfd' = [badfd EXCEPT ![cl] = OpenedOn(child_up[cl])]
  /\ missed' = [missed EXCEPT ![cl] = {}]
  /\ UNCHANGED <<vol, miscounted, child_up, tx, children, acked, dead, updates, drops, reconnects,
                 crashes>>

\* The server releases the entry locks of a connection that is gone.
Cleanup(c) ==
  /\ \E l \in locks[c] : l.stale /\ ~ l.inode
  /\ locks' = [locks EXCEPT ![c] = {l \in @ : ~ l.stale \/ l.inode}]
  /\ UNCHANGED <<vol, history, child_up, tx, fdctx, badfd, pending, cell, acked, dead, updates,
                 bounds>>

\* The client crashes; its connections are then lost one by one.
Crash(cl) ==
  /\ cl \in vol.clients \ dead
  /\ crashes < vol.crashes /\ crashes' = crashes + 1
  /\ dead' = dead \cup {cl}
  /\ UNCHANGED <<vol, history, child_up, tx, fdctx, badfd, children, acked, updates, starts, drops,
                 reconnects>>

\* Nothing is left to do but wait for a lock.
Rest ==
  /\ \A cl \in Clients : tx[cl].phase \in {"idle", "lock"} \/ cl \in dead
  /\ UNCHANGED vars
-----------------------------------------------------------------------------
Init ==
  /\ vol \in Setups
  /\ child_up = [cl \in Clients |-> Children]
  /\ tx = [cl \in Clients |-> Nothing]
  /\ fdctx = [cl \in Clients |-> "none"]
  /\ badfd = [cl \in Clients |-> OpenedOn(Children)]
  /\ missed = [cl \in Clients |-> {}] /\ miscounted = FALSE
  /\ locks = [c \in Children |-> {}]
  /\ pending = [c \in Children |-> [key \in Keys |-> NoCount]]
  /\ cell = [c \in Children |-> [x \in Cells |-> 0]]
  /\ acked = [x \in Cells |-> 0]
  /\ dead = {}
  /\ updates = 0
  /\ starts = 0 /\ drops = 0 /\ reconnects = 0 /\ crashes = 0

Errnos == {"ENOTCONN", "EBADFD", "EINVAL", "ENOSYS", "ENOTSUP", "EIO"}

Reply(cl, c, k) ==
  \/ LockGranted(cl, c, k) \/ LockConflicts(cl, c, k)
  \/ PreOp(cl, c, k) \/ FopOk(cl, c, k) \/ PostOp(cl, c, k) \/ Unlock(cl, c, k)
  \/ \E e \in Errnos :
       \/ LockFails(cl, c, k, e) \/ PreOpFails(cl, c, k, e) \/ FopFails(cl, c, k, e)
       \/ PostOpFails(cl, c, k, e) \/ UnlockFails(cl, c, k, e)

Next ==
  \/ \E cl \in Clients :
       \/ \E op \in vol.ops : Start(cl, op)
       \/ \E c \in Children, k \in 1 .. 2 : Reply(cl, c, k)
       \/ \E c \in Children : Drop(cl, c) \/ Reconnect(cl, c)
       \/ Reopen(cl) \/ Crash(cl)
  \/ \E c \in Children : Cleanup(c)
  \/ Rest

Spec == Init /\ [][Next]_vars
-----------------------------------------------------------------------------
(* Properties.                                                             *)

Phases == {"lock", "preop", "fop", "postop", "unlock"}

TxOK(t) ==
  \/ t = Nothing
  \/ /\ t.phase \in Phases
     /\ t.op \in vol.ops
     /\ t.up \subseteq Children /\ t.locked \subseteq Children
     /\ t.calls # {} /\ t.calls \subseteq Children \X (1 .. 2)
     /\ t.lost \subseteq t.calls
     /\ t.pending \in [Children -> -1 .. 1]
     /\ t.success \in 0 .. vol.n
     /\ t.answer \in {"none", "ok", "failed"}
     /\ t.version \in 0 .. updates

\* The state has its types; a transaction that is not over waits for a reply.
TypeOK ==
  /\ child_up \in [Clients -> SUBSET Children]
  /\ \A cl \in Clients : TxOK(tx[cl])
  /\ fdctx \in [Clients -> {"none", "written", "flushed"}]
  /\ badfd \in [Clients -> [Children -> {"none", "EBADFD", "EINVAL"}]]
  /\ missed \in [Clients -> SUBSET [child : Children, fd : BOOLEAN]]
  /\ miscounted \in BOOLEAN
  /\ \A c \in Children : \A l \in locks[c] :
       l.client \in Clients /\ l.inode \in BOOLEAN /\ l.stale \in BOOLEAN
  /\ pending \in [Children -> [Keys -> [Children -> Int]]]
  /\ cell \in [Children -> [Cells -> 0 .. updates]]
  /\ acked \in [Cells -> 0 .. updates]
  /\ dead \subseteq Clients

\* Child c is a source for self-heal (afr_sh_mark_sources): no other child
\* counts it as pending.
Source(c, key) == \A d \in Children \ {c} : pending[d][key][c] = 0

\* Every operation of the workload is of a type whose changelog is on.
Journaled == \A op \in vol.ops : __changelog_enabled(op)

\* Two children that differ are never both sources, whatever is lost, refused
\* or crashes at any moment, up to the post-op that vouches for a child its fop
\* failed on (afr-transaction.c:376): until that step self-heal can tell from
\* what the pre-op has written that the replicas differ. After it the marks of
\* both can be gone; afr_fopfail shows what that step does.
DivergenceKnown ==
  Journaled /\ ~ miscounted => \A c, d \in Children, x \in Cells :
    cell[c][x] # cell[d][x] => ~ (Source(c, KeyOf[x]) /\ Source(d, KeyOf[x]))

\* One client runs, or no connection has come back: a client that lost its
\* locks with a connection does not go on through a new one.
LocksKept == reconnects = 0 \/ Cardinality(vol.clients) = 1

\* A source has every update a client was told succeeded: self-heal from it
\* undoes nothing that was acknowledged.
SourceFresh ==
  LocksKept => \A c \in Children, x \in Cells : Source(c, KeyOf[x]) => cell[c][x] >= acked[x]

\* The same up to the post-op that vouches for a child its fop failed on: also
\* while a fop is refused by a child or loses its connection to it, and when the
\* client crashes then, a source has every acknowledged update.
FreshUntilMiscounted == miscounted \/ SourceFresh

Resting == \A cl \in Clients : tx[cl].phase = "idle"

\* The lock taken keeps two clients from performing operations on the same
\* cell at the same time on a child both reach.
WritersExclude ==
  LocksKept => \A c \in Children, c1, c2 \in Clients :
    /\ c1 # c2
    /\ tx[c1].phase = "fop" /\ c \in tx[c1].up \cap child_up[c1]
    /\ tx[c2].phase = "fop" /\ c \in tx[c2].up \cap child_up[c2]
    => tx[c1].op.cells \cap tx[c2].op.cells = {}

\* An operation that is over has given back every lock it holds on a child it
\* is connected to, also when locking failed half way.
NoLockLeft ==
  \A cl \in Clients : tx[cl].phase = "idle" =>
    \A c \in Children : \A l \in locks[c] : l.client = cl => l.stale

\* When nothing has failed and every written fd is flushed, all counts are
\* back at zero: the journal records no operation that is not pending.
JournalClears ==
  /\ Resting /\ drops = 0 /\ dead = {}
  /\ vol.faults = {} /\ vol.no_locking = {} /\ vol.no_xattrs = {}
  /\ Cardinality(vol.clients) = 1 \/ ~ \E op \in vol.ops : InodeLock(op)
  /\ \A cl \in Clients : fdctx[cl] # "written"
  => \A c \in Children, key \in Keys : pending[c][key] = NoCount

\* Client cl waits for a lock that client m holds.
WaitsFor(cl, m) ==
  /\ cl \notin dead /\ tx[cl].phase = "lock" /\ ~ InodeLock(tx[cl].op)
  /\ \E call \in tx[cl].calls :
       /\ Reaches(cl, call[1], call[2])
       /\ \E l \in locks[call[1]] :
            /\ l.client = m /\ ~ l.stale
            /\ l.region \cap tx[cl].op.locks[call[2]] # {}

\* Locks are asked for one child after the other, in the order of the
\* children, so clients never wait for each other in a circle.  (Not so for two
\* clients that rename: both locks of a rename are asked for at once.  The
\* setups have one client rename.)
NoCircularWait ==
  ~ \E S \in (SUBSET vol.clients) \ {{}} : \A cl \in S : \E m \in S : WaitsFor(cl, m)
=============================================================================
