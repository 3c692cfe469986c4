# A TLA+ model of GlusterFS

This directory holds TLA+ specifications of the GlusterFS 2.0 sources under
`src/`, the TLC configurations that check them on small instances, and TLAPS
proofs of the results that hold for every instance. `PROJECT.json` lists the
components, the runs, the mutants, the source lines behind each definition, the
hazards and the theorems. Paths below are relative to `src/xlators/` unless they
say otherwise.

## The system and its models

A GlusterFS process is a graph of translators. A call (*fop*) enters at the top,
is wound to the children of each translator and unwound through its callbacks.
On a client the graph starts at `mount/fuse` and ends at `protocol/client`; on a
server (a *brick*) it starts at `protocol/server` and ends at `storage/posix`.

| Part of the system | Modules | Run |
| --- | --- | --- |
| `performance/write-behind` | `WriteBehind`, `WriteBehindProofs`, `WriteBehindQueueProofs` | `wb`, `wb_order` |
| `features/locks`, entry locks | `NameLocks` (promise), `EntryLocks`, `EntryLocksProofs` | `locks`, `locks_owner` |
| `protocol/server`, lock table | `ServerLocks` (over `EntryLocks`), `ServerLocksProofs` | `locks_server` |
| `cluster/afr`, transaction | `AfrTransaction`, `AfrTransactionProofs` | `afr`, `afr_fopfail` |
| `protocol/client`, `protocol/server`, socket | `ClientFops`, `ServerFops`, `ProtocolFops`, `Protocol`, `ProtocolProofs`, `ProtocolStepProofs`, `ProtocolDescriptorProofs` | `protocol` |
| `cluster/stripe`, `ha`, `map`, `unify`, `dht`, `nufa` | `CallFrame`, `Stripe`, `Ha`, `MapVol`, `Unify`, `UnifySelfHeal`, `DhtLayout`, `Dht`, `Cluster` | `cluster` |
| `mount/fuse` and the inode table | `InodeTable`, `FuseFops`, `FuseMount` | `mount` |
| a brick: `io-threads`, call stubs, record locks, `posix`, its attribute cache | `IoThreads`, `CallStub`, `PosixLocks`, `PosixFops`, `XattrCache`, `Brick` | `brick`, `brick_pending` |

Each `MC_` module gives small values to the constants of the module it extends.

### write-behind

`WriteBehind` is one open file: the request queue with its three flags, the
window, the error memory, and threads that run the translator at once.
`file->lock` covers only the queue, so each critical section and each unlocked
piece (acknowledging, sending) is a step. Requests are named by their place in
the order `wb_enqueue` queued them. The options are constants; the
`Environments` say whether one thread does everything, whether replies come in
order, and whether flush-behind is on.

### Entry locks

`EntryLocks` has the lists of one directory (`dir_list`, the `blocked_locks` of
each lock), the mutex, and the two critical sections of an unlock: one removes
the lock, the next retries what was blocked on it. `NameLocks` is what a client
may rely on, without lists or threads; `ImplementsPromise` is the refinement,
with the set of locks in `dir_list` as `held`. A second read lock on a name
frees the lock it counts on (`features/locks/src/internal.c:444`); the model
sets `freed` there and claims nothing afterwards. `ServerLocks` adds the table a
connection keeps of its locks, the references frames hold on a transport, and
the end of a connection.

### AFR transactions

`AfrTransaction` runs the phases lock, pre-op, fop, post-op and unlock for
several clients over the same children. The calls of a phase are executed and
answered one by one in any order; a lost connection answers the calls on it with
ENOTCONN whether they were executed or not. `cell` is the last update each child
performed, `pending` the changelog, `acked` what clients were told. A
conflicting inode lock is put in the list and answered -1, as
`pl_inodelk_common` does; a conflicting entry lock waits. A call on a descriptor
that was never opened on a child is answered EBADFD by the client translator,
one on a descriptor that was lost with its connection EINVAL by the server:
`badfd` tells the two apart, since `afr_transaction_child_died` counts only
ENOTCONN and EBADFD as the death of a child. Two variables are history, read by
no action: `missed` (which children did not perform an update a client sent) and
`miscounted` (a post-op took back the count of a child for an update it missed).

### Remote calls

`ClientFops` and `ServerFops` have one definition per function that takes part in
a remote call; `ProtocolFops` joins them into one row per fop; `Protocol` runs the rows over two channels, with
transports that break, are noticed by each end on its own and are replaced, the
saved frames of the client, and the descriptor table of the server's connection
object. `EndsAgree` in `ProtocolFops` is an assumption TLC evaluates: what a
client sends is what the server needs, for every fop.

### Aggregating translators

A fop or callback of such a translator is an operator on the translator's
private state and the frame's local that returns the new state, the calls wound
and the answers unwound (`CallFrame`). `Cluster` runs one call of one translator
over children that execute it, refuse it, or lose their connection before or
after executing it, with replies in any order. A call that changed the namespace
is followed by a fresh lookup of each name with every child connected, as a
newly started client would make.

### The mount

`InodeTable` has each operation of `libglusterfs/src/inode.c` as a function from
table to table; an inode is a heap object, and several may stand for one file
while lookups overlap. `FuseFops` reduces each handler to what it does with
inodes and descriptors; `FuseMount` interleaves the thread that takes the
kernel's requests with the one that runs the callbacks, one lock section per
step. The kernel and the volume below are external.

### The brick

Requests arrive in the poll thread, which also walks paths; `IoThreads` says
which worker runs a call, `CallStub` what a stub keeps and gives back,
`PosixFops` which system calls a call makes and what each failure skips,
`PosixLocks` how record locks are split, merged and granted, `XattrCache` how
counts are cached. `Brick` interleaves the threads, one system call or lock
section per step. `added` is a ghost (every count an xattrop added), `promised`
another (every lock an owner was told it has).

## What the runs check

`tlc -config X.cfg M` runs a configuration; a run marked *violation* states what
a document, comment or message of the repository says and TLC refutes it.

| Run | Module and cfg | Distinct states |
| --- | --- | --- |
| `wb` | `MC_WriteBehind`, `WriteBehind.cfg` | 487,817 |
| `wb_order` | `MC_WriteBehind`, `WriteBehind_order.cfg` | violation |
| `locks` | `MC_EntryLocks`, `EntryLocks.cfg` | 206,504 |
| `locks_server` | `MC_ServerLocks`, `ServerLocks.cfg` | 108,843 |
| `locks_owner` | `MC_EntryLocks`, `EntryLocks_owner.cfg` | violation |
| `afr` | `MC_AfrTransaction`, `AfrTransaction.cfg` | 408,383 |
| `afr_fopfail` | `MC_AfrTransaction`, `AfrTransaction_fopfail.cfg` | violation |
| `protocol` | `MC_Protocol`, `Protocol.cfg` | 465,746 |
| `cluster` | `MC_Cluster`, `Cluster.cfg` | 599,779 |
| `mount` | `MC_FuseMount`, `FuseMount.cfg` | 670,784 |
| `brick` | `MC_Brick`, `Brick.cfg` | 319,198 |
| `brick_pending` | `MC_Brick`, `Brick_pending.cfg` | violation |

- **wb.** `BatchContiguous`: a batch sent as one writev has no gap.
  `NothingLost`: no queued write is dropped or sent twice, and the release finds
  the queue empty. `AckedOnceAndTruthfully`, `ErrorRemembered`: a write is
  answered once, and a failure the application was not told of stays recorded
  until an fsync or flush reports it (nothing is claimed with flush-behind).
  `OrderKept`: for a single thread calls reach the child in order.
  `EveryWriteAcked` (liveness): when the child answers in order.
- **wb_order** (violation of `CallNeverOvertakes`). With a fuse and a poll
  thread an fsync reaches the child before a write queued ahead of it.
- **locks.** `Exclusive`, `WaitsProperly`, `HeldWhileOwned`, and the refinement
  `ImplementsPromise`. Clients unlock only what they were granted (`Disciplined`).
- **locks_server.** `TableComplete`, `EveryRequestAnswered`, `DeadHoldNothing`:
  clients that die, and that unlock what they were refused. Each client has one
  lock at a time (`OneLockPerClient`); with two the first and third fail, see
  below.
- **locks_owner** (violation of `HolderKeepsLock`). An unlock by a client that
  was refused takes the lock from its holder.
- **afr.** `DivergenceKnown`: copies that differ are never both sources.
  `FreshUntilMiscounted`: a source has every acknowledged update (`SourceFresh`).
  Both are checked with children that refuse or lose the fop itself, and end where
  a post-op vouches for a child the fop failed on (`miscounted`); the next run is
  about that step. `WritersExclude`, `NoLockLeft`, `JournalClears`,
  `NoCircularWait`. `SourceFresh` and `WritersExclude` are claimed while a client
  that lost its locks with a connection does not go on through a new one
  (`LocksKept`).
- **afr_fopfail** (violation of `SourceFresh`). A connection lost during the fop
  leaves the child that missed the update as the only source.
- **protocol.** `RightDescriptor`: client and server mean the same descriptor by
  a slot, as long as the server keeps its connection object. `NoLeak`: with no
  transport lost, a released descriptor is gone from the server. `ViewSound`,
  `AnsweredOnce`, and `EveryCallAnswered` (liveness).
- **cluster.** `AnsweredExactlyOnce`: one answer, never none and never two.
  `NoCrash`, `FoundAsAnswered`, `NeitherLostNorDoubled`. `TriedInTurn` (ha): a call
  goes to another path only after the last one was given up, to no path twice, and
  the caller hears ENOTCONN only when every usable path was tried. `RightStripe`
  (stripe), `HealMakesNamespace` (unify), `ListedOnce` (map, dht). `LayoutSound`
  (dht): ranges are complete where nothing failed, and never overlap, whichever
  children failed to store theirs. Named exceptions, each a defect read in the code:
  `WritevRace` and `CreatedAgain` (two answers), `NufaDown` (a division by zero),
  `PartlyLaid` and `HiddenRange` (ranges). `WritevRace` is the one interleaving: a
  reply compares counts that the winding loop then overtakes.
- **mount.** `KernelKeeps`, `RefsExact`, `OneName`. `RefsExact` counts the
  references a handler writes over as leaked.
- **brick.** `AtItsOffset` (files without mandatory locks), `RecordLocksHold`,
  `CountsKept` (not for a file whose handle led elsewhere: `strayed`),
  `DescriptorsExact` (descriptors a failed call left behind are in `lost`).
- **brick_pending** (violation of `PendingStored`). An answered xattrop is in the
  cache of the brick only.

Deadlock is checked for write-behind, the locks and AFR. It is not where the
system may rest with its bounded work done: `protocol`, `cluster`, `mount`,
`brick`.

Every property of a passing run has one mutant, a plausible bug that makes TLC
find it violated. A property that joins several statements (`NothingLost`,
`OrderKept`, `WaitsProperly`, `HeldWhileOwned`, `RightDescriptor`,
`AnsweredExactlyOnce`, `FoundAsAnswered`, `NeitherLostNorDoubled`) has one
mutant for the whole, so it shows that one of its parts can fail, not each.
No run checks the `TypeOK` of `EntryLocks`, `AfrTransaction` and `Protocol`;
that of `WriteBehind` is proved.

### Bounds

- *wb*: three writes of two bytes at two offsets, one other call, aggregate and
  window 3, so that a write overflows the window and a batch waits.
- *locks*: three requests, two threads, two clients, two names and "all names".
  *locks_server*: three clients and whole-directory write locks only. Three
  requests are the fewest where one waits behind a waiter.
- *afr*: ten setups of two or three children and one or two clients, two to
  five operations, at most two lost connections, one return and one crash.
- *protocol*: two descriptors, mixes of two or three calls with one fop of every
  kind, one lost transport.
- *cluster*: two or three children, one call and the lookups after it, two lost
  connections, one return, two refusals, a hash space of eight.
- *mount*: three requests, two at a time, one change by another client, two
  names, six objects.
- *brick*: one to four calls out of each of eight loads, two workers, one failing
  system call, three descriptors, a cache of two entries, three bytes to lock.
  The load with every call runs each alone; overlapping calls are those of the
  other loads.

Symmetry is used for clients, threads and names in `locks`, for clients in `afr`
and for frames in `mount`, all with safety properties only.

### Fairness

- `wb`: threads inside the translator go on, and the child answers each call. The
  application need not call again.
- `locks_server`: server threads run on, live clients unlock what they hold, and
  the event loop reports a transport that lost its last reference.
- `protocol`: the event loops of both ends run, the exported volume answers, and
  the loss of a channel with calls out is noticed, at the latest by the timers.

All of it is weak fairness of single steps: the code has a thread or event loop
that returns to each. That a client unlocks, and that a volume answers, is
assumed of the other party.

## What is proved

Eighteen theorems in seven of the eight proof modules, each for every value of the constants that
meets the named assumptions: `WBAssumption`, `ELAssumption`,
`AfrAssumption`, `ConstantsAssumption` and `EndsAgree`, which TLC evaluates on
each run. They type the constants and say that names for different things differ;
`EndsAgree` compares the two ends of every fop, and that no fop both uses and opens
a descriptor. What a theorem assumes beyond that is in its statement and below.

| Theorem | Says | Assumes |
| --- | --- | --- |
| `WriteBehindProofs!BatchesContiguous` | `[]BatchContiguous` | one thread delivers the writes |
| `WriteBehindProofs!TypeCorrect` | `[]TypeOK` | |
| `WriteBehindQueueProofs!NoWriteLost` | `[]NothingLost` | |
| `WriteBehindQueueProofs!AcksTruthful` | `[]AckedOnceAndTruthfully` | |
| `WriteBehindQueueProofs!OrderPreserved` | `[]OrderKept` | |
| `WriteBehindQueueProofs!ErrorsKept` | `[]ErrorKept`, a half of `ErrorRemembered` | |
| `EntryLocksProofs!LocksExclude` | `[]Exclusive` | |
| `EntryLocksProofs!NoRequestIsLost` | `[]WaitsProperly` | |
| `ServerLocksProofs!LockHeldWhileOwned` | `[]HeldWhileOwned` | `Disciplined` |
| `ServerLocksProofs!EntryLocksKeepPromise` | `ImplementsPromise` | `Disciplined` |
| `ServerLocksProofs!LockTableComplete` | `[]TableComplete` | `OneLockPerClient` |
| `AfrTransactionProofs!LocksGivenBack` | `[]NoLockLeft` | `UnlockAnswered` |
| `AfrTransactionProofs!LocksKeepWritersApart` | `[]WritersExclude` | `Guarded` |
| `AfrTransactionProofs!LocksNeverCircle` | `[]NoCircularWait` | `UnlockAnswered`, `OneAtATime` |
| `ProtocolProofs!CallsAnsweredOnce` | `AnsweredOnce`, an action property | |
| `ProtocolProofs!ViewIsSound` | `[]ViewSound` | |
| `ProtocolDescriptorProofs!DescriptorsAgree` | `[]RightDescriptor` | |
| `ProtocolDescriptorProofs!ReleasesReachServer` | `[]NoLeak` | |

**write-behind.** `BatchContiguous` is not inductive: a batch is cut from the
queue, so `IInv` adds that the requests not sent yet are the tail of the log, each
adjacent to the one before it, ending at the offset the file expects
(`TailAdjacent`); that a thread about to enqueue continues this tail or finds it
empty (`ThreadsConsistent`), which is what the gap between the offset test and
`wb_enqueue` endangers; and that the list a thread is sending is such a run
(`WindsAreRuns`). With two delivering threads the test and the enqueueing are two
critical sections, and nothing is claimed. The four results about the queue share
one invariant, `QInv`, a set of books kept on every request: a request marked as
wound is in the hands of exactly one thread or was sent in exactly one call, and has
its reply when that call has (`Accounts`); a request marked for acknowledgement is
acknowledged or in the hands of one thread (`Frames`); a request nobody has sent
has somebody who will send it (`Hands`); with a single thread, what it holds comes
after all that was sent (`Serial`); a background flush exists with flush-behind
only (`Errors`). They hold for any number of threads.

**Entry locks.** For `Exclusive` the strengthening (`Known`) is that every lock,
blocked or taken off a list to be retried, is of a request that has arrived: an
arriving request then changes no lock held. `WInv` adds that an unanswered request
is in one list, once (`OneList`), and that this list hangs on a lock that is held or
was just released by a thread that will retry it (`Waits`); this is where the window
between the two critical sections of an unlock is accounted for. `Owned` adds that a
lock granted is held before its client hears of it and that the release of a
client visits all its locks. The refinement maps `held` to the locks in `dir_list`;
each step is one step of `NameLocks` or a stutter, until `freed`. `Disciplined` is
needed: `__unlock_name` compares no owner, and the run `locks_owner` shows the
result. `TInv` joins `WInv` with the table of the connection; `OneLockPerClient` is
needed because an unlock of one of two names drops both from the table.

**AFR.** `Shape` types the transactions and says that a transaction in its lock phase
asks one child at a time, in the order of the children. `LocksAccounted`: a lock
a child holds belongs to a transaction that is running and will give it back; this
ties the lock lists of the children to the phase, the calls and the lost calls of the
client. `Apart`: what was granted is held, and regions granted to two clients on one
child do not overlap. The circle is excluded at its last child, the last one
where a client of it waits: whoever holds a lock there could wait only at a later one.
`UnlockAnswered`: no child answers an unlock with an I/O error; the code ignores the
answer, so a lock such a child kept would stay. `Guarded`: one client runs, or every
child is a lock server and operations lock all they change; with the default count of
one lock server, or with a truncate or a link, two clients are not kept apart (see
below). `OneAtATime`: operations that run beside others take one lock; two clients
that rename can wait for each other. Every setup of the run `afr` meets all three.

**Remote calls.** `CallsAnsweredOnce` rests on `SavedOut`: a saved frame is of a
call that is out, on the channel of its fop; a reply and the cleanup both start by
taking one. For `RightDescriptor` the invariant is `Desc`: a call is in one place at
most, the queue of requests, the walk, the run or the queue of replies of one
transport (`OnePlace`); a descriptor is opened by one call and is in the server's
table once, not before that call is done (`Openers`, `Table`); and while the server
has its first connection object, what the client's descriptors, the replies and
the releases on their way say of a slot is true, with at most one release for a slot
(`SlotsTrue`). The last part is what keeps a release from emptying a slot that was
given to another open in the meantime. For `NoLeak`, `Unbroken` adds that as long as
no transport was lost every channel is up at both ends, a live transport holds the
connection object, and a released descriptor is out of the table or its release is
queued (`Told`); `Earned`, that only an open answered with success gives a descriptor
a slot, excludes a slot filled after its descriptor was released. Both allow any
number of lost transports, descriptors and calls; `NoLeak` claims nothing after the
first loss, as the property says.

`ProtocolStepProofs` holds the lemmas, one per action of `Protocol`, that
`ProtocolDescriptorProofs` puts together.

Only model-checked:

- the liveness properties `EveryWriteAcked`, `EveryRequestAnswered`,
  `DeadHoldNothing` and `EveryCallAnswered`: fairness and ENABLED are out of the
  prover's reach;
- `SuccessVouches`, the other half of `ErrorRemembered`: that an fsync vouches for all
  the writes before it follows the order of the replies through the whole log;
- `FreshUntilMiscounted`, `DivergenceKnown` and `JournalClears`: the changelog counts are sums
  over the transactions that passed, which needs induction over data;
- the aggregating translators (`cluster`), whose state is a frame of every fop of six
  translators; the mount and the brick, whose tables and lists are defined by recursion.

## Where the code disagrees with what is said of it

The four violation runs and their findings:

- `wb_order`: `performance/write-behind/src/write-behind.c:879`, sending after
  the lock is released.
- `locks_owner`: `features/locks/src/internal.c:501`, unlocking by name and type
  only.
- `afr_fopfail`: `cluster/afr/src/afr-transaction.c:376`, the post-op overwrites
  which children failed.
- `brick_pending`: `storage/posix/src/xattr-cache.c:360`, the journal in memory.

The rest of this section was met while reading the source for the models. No run
is about these points; some are excluded by a named condition of a property,
some are outside what the models contain.

**write-behind.** The window can be overshot by a request
(`src/doc/hacker-guide/write-behind.txt:37`). The callback of open
tests O_RDONLY, which is 0, as a bit (:584), so the test always holds. Replies out of order can leave a write waiting (:794).
flush-behind drops errors (:1158), and `wb_ffr_bg_cbk` uses the file after
`fd_unref` (:1085).

**Locks.** The second reader's lock is freed while listed (`internal.c:444`). An
unlock of one of two names makes the server forget both
(`protocol/server/src/server-helpers.c:297`). A client waiting for its own lock
is never cleaned up (`server-protocol.c:7453`). Record locks: an unlock over two
locks of one owner releases only the first; two disjoint write locks under a read
lock over both unlink a node that was never linked (the model stops there);
an upgrade that waits is never granted; a downgrade wakes no reader;
`__rw_allowable` counts blocked locks; a read or write that mandatory locks allow
is neither wound nor answered.

**AFR.** Conflicting inode locks are answered with an error instead of waiting
(`internal.c:168`). With one lock server and clients that see different children,
or with locks lost in a reconnect, two clients write at once. A truncate locks
the part it keeps, not the one it cuts (`afr-inode-write.c:1229`); `link` locks the old name
(`afr-dir-write.c:851`). Two clients that rename can wait for each other.

**Remote calls.** Remote slots survive the loss of both channels
(`client-protocol.c:5952`), so `RightDescriptor` needs `OneConnection`. A release
while the bulk channel is down is dropped (:3885), and a lost reply to an open
leaks its slot. CHILD_UP is sent per channel (:5767). `call_bail` wants both
timeouts to have passed (:251).

**stripe, ha, map.** A write of several pieces may be answered twice
(`stripe.c:2809`); a failed create leaves its pieces; a rename or rmdir with one
child is not answered. ha: create over three paths answers twice,
because a reply after the first success winds create again to the paths after it
(`ha.c:1668`, `CreatedAgain`); with all
children down the call at `ha.c:1720` ("FIXME handle active -1") goes on with
child -1; a retried unlink, rename or mkdir that was
executed gives ENOENT or EEXIST. map: a rename to an unmapped name succeeds and
cannot be found.

**unify.** A storage open that fails after the namespace succeeded unlinks an
existing name (`unify.c:1360`). The directory generation is never read back, so
every lookup heals, against `unify-self-heal.c:1204`. A failed content setxattr
is answered as success. Truncating a file missing from the namespace unwinds
twice.

**dht, nufa.** A readdir batch without an entry of its subvolume ends the walk. A
directory some child of which lost its range fails its lookups for good
(`PartlyLaid`). A lookup that does not reach the child which has a range takes the
others for virgins and gives that range out again (`HiddenRange`). `dht_forget`
tests the layout before it is read and frees none. nufa divides by zero when no child is reachable (`NufaDown`).

**mount.** Handlers that write over `loc.inode` leak a reference;
`fuse_getattr` without an inode leaks its state. The table relies on one thread
running the callbacks (`src/glusterfsd/src/glusterfsd.c:1121`).

**brick.** `posix_lookup` answers a file on another device as found
(`posix.c:243`). `posix_create` and `set_file_contents` leak a descriptor on
failure; a failed fsync is answered as success. A rename onto a file with a
cached entry writes the old count to the new file, and an unlink racing an
xattrop leaves an entry without a path (`strayed`). A request whose path is gone
frees its stub without giving back all it holds. The dictionary of a stub of
`fxattrop` is leaked.

## Not modelled

`PROJECT.json` lists every component with its status; those left out or partly
modelled are:

- AFR's reads and self-heal. `AfrTransaction` has which children are sources, not
  the heal; how a heal and a transaction interfere is not examined. `setdents` of
  AFR is left out, and a client runs one operation at a time.
- `performance/io-cache` and `performance/read-ahead`. Both have state worth a
  module (pages in transit, frames waiting on them, revalidation, pruning); they
  are the natural next step. `stat-prefetch` and `symlink-cache` are left out too.
- `features/quota` and `features/trash`, which keep usage counts and turn a call
  into several; `filter` and `path-convertor`, which change a call and pass it on.
- `storage/bdb`, whose atomicity and recovery are those of Berkeley DB.
- `transport/ib-verbs`; the models assume the ordered stream of a socket. Of the
  socket transport, framing and partial writes are left out.
- Authentication (every SETVOLUME is accepted), forgets between client and server,
  management calls, and the timers as timers: in `Protocol` a timeout is a step
  that may come while calls are out.
- The policies of the schedulers: unify's scheduler returns any storage child or
  none.
- Inode locks beyond what AFR meets: the splitting and merging of their list is
  that of the record locks, but is not driven through `pl_inodelk_common`.
- The unwind stubs of `call-stub.c`, the context slots of inodes, inode number
  reuse, the contents of files, attributes and dictionaries.
- Failing allocations, and a failing setxattr while the attribute cache is
  flushed.
- `glusterfsd`, `libglusterfsclient`, `booster`, `mod_glusterfs`,
  `glusterfs-guts`, the debugging translators, `meta`, the Python bindings, the
  volume file parser and the bundled option parser.
