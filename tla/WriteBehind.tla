---------------------------- MODULE WriteBehind ----------------------------
(***************************************************************************)
(* The write-behind translator (xlators/performance/write-behind) for one  *)
(* open file.  A write is queued, acknowledged to the application before   *)
(* it reaches the child, and sent to the child in batches of adjacent      *)
(* requests.  Several threads run the translator at the same time: the     *)
(* threads that deliver the application's calls (Callers) and the thread   *)
(* that delivers the child's replies (Poller).  file->lock protects the    *)
(* queue only; acknowledging and sending happen after it is released, so   *)
(* each critical section and each unlocked piece is a step of its own.     *)
(*                                                                         *)
(* A request is named by its place in log, the order in which wb_enqueue   *)
(* put it in file->request.  New requests go to the tail, so the list      *)
(* order is the order of the names and the list is the set `queue'.        *)
(***************************************************************************)
EXTENDS Integers, Sequences, FiniteSetsExt

CONSTANTS
  Callers,        \* threads that deliver writev, fsync, flush, ...
  Poller,         \* thread that delivers replies
  OpenFlags,      \* ways to open: "O_RDWR", "O_DIRECT", "O_SYNC", "mandatory"
  Offsets,        \* offsets the application writes at
  Lengths,        \* sizes of its writes
  AggregateSize,  \* conf->aggregate_size
  WindowSize,     \* conf->window_size
  DisableTill,    \* conf->disable_till
  MaxVector,      \* MAX_VECTOR_COUNT
  Environments,   \* where the translator runs: records with the fields
                  \*   single    one thread delivers calls and replies
                  \*   in_order  the child answers the calls on a file in order
                  \*   flush_behind  conf->flush_behind
  MaxWrites,      \* bound: writes the application makes
  MaxSyncs        \* bound: other calls the application makes

ASSUME WBAssumption ==
  /\ Offsets \subseteq Nat
  /\ Lengths \subseteq Nat \ {0}
  /\ AggregateSize \in Nat /\ WindowSize \in Nat /\ DisableTill \in Nat
  /\ AggregateSize <= WindowSize
  /\ MaxVector \in Nat \ {0}
  /\ Environments \subseteq [single : BOOLEAN, in_order : BOOLEAN,
                             flush_behind : BOOLEAN]
  /\ MaxWrites \in Nat /\ MaxSyncs \in Nat

VARIABLES
  env,           \* the environment, which never changes
  status,        \* "new", "open", "released": life of the wb_file_t
  flags,         \* flags and mode the file was opened with
  disabled,      \* file->disabled
  disable_till,  \* file->disable_till
  offset,        \* file->offset
  op_ret,        \* file->op_ret: 0 or -1
  log,           \* every request enqueued so far, oldest first
  queue,         \* file->request
  stack_wound,   \* requests with the flag of that name
  write_behind,  \* requests with the flag of that name
  got_reply,     \* requests with the flag of that name
  frame_err,     \* requests whose frame's local->op_ret is -1
  acks,          \* the results each write frame was unwound with
  wire,          \* calls made to the child, in order
  told,          \* requests whose failure the application has been told
  pc,            \* what each thread does next
  winds,         \* the winds list a thread has taken out of its section
  unwinds,       \* the unwinds list a thread has taken out of its section
  arg            \* the call or reply a thread is delivering

file == <<disabled, disable_till, offset>>
reqs == <<log, queue, stack_wound, write_behind, got_reply, frame_err>>
thread == <<pc, winds, unwinds, arg>>
vars == <<env, status, flags, file, op_ret, reqs, acks, wire, told, thread>>

Threads == Callers \cup {Poller}
Ids == 1 .. Len(log)
Calls == {"fsync", "flush", "other"}

\* A call made to the child, with the requests it carries or has to follow.
Message == [op : Calls \cup {"writev", "direct", "bg_flush"}, ids : SUBSET Ids,
            off : Nat, reply : {"none", "ok", "err"}]

NoArg == [op |-> "none"]
LenOf(i) == log[i].len
Size(S) == MapThenSumSet(LenOf, S)

\* Requests whose writev the child has answered, and answered with an error.
AnsweredWith(rs) ==
  UNION {wire[n].ids : n \in {m \in DOMAIN wire :
                                wire[m].op = "writev" /\ wire[m].reply \in rs}}
Failed == AnsweredWith({"err"})
-----------------------------------------------------------------------------
(* Opening the file.                                                       *)

\* wb_open_cbk's condition.  O_RDONLY is 0, so (flags & O_RDONLY) == O_RDONLY
\* is true of every flag word.
OpenDisables(f) == TRUE

Init ==
  /\ env \in Environments
  /\ status = "new"
  /\ flags = "none"
  /\ disabled = FALSE
  /\ disable_till = DisableTill
  /\ offset = 0
  /\ op_ret = 0
  /\ log = <<>>
  /\ queue = {} /\ stack_wound = {} /\ write_behind = {}
  /\ got_reply = {} /\ frame_err = {}
  /\ acks = <<>> /\ wire = <<>> /\ told = {}
  /\ pc = [t \in Threads |-> "idle"]
  /\ winds = [t \in Threads |-> {}]
  /\ unwinds = [t \in Threads |-> {}]
  /\ arg = [t \in Threads |-> NoArg]

Open(f) ==
  /\ status = "new"
  /\ status' = "open"
  /\ flags' = f
  /\ disabled' = OpenDisables(f)
  /\ UNCHANGED <<env, disable_till, offset, op_ret, reqs, acks, wire, told, thread>>

Create(f) ==
  /\ status = "new"
  /\ status' = "open"
  /\ flags' = f
  /\ disabled' = (f = "mandatory")
  /\ UNCHANGED <<env, disable_till, offset, op_ret, reqs, acks, wire, told, thread>>
-----------------------------------------------------------------------------
(* The critical sections on file->lock.                                    *)

\* wb_sync_all passes 0 for the aggregate size: send whatever is queued.
\* Mutant: it passes the configured size and may leave requests behind.
SyncAllSize_conf == AggregateSize
SyncAllSize == 0

\* __wb_mark_winds: what it adds to winds when called with aggregate size agg
\* (a size_t sum reaches 0 whatever is queued).
MarkWinds(q, agg) ==
  LET new == q \ stack_wound
      incomplete == {i \in q : i \in stack_wound /\ i \notin got_reply}
  IN IF incomplete = {} \/ agg = 0 \/ Size(new) >= agg THEN new ELSE {}

\* Mutant: a marked request is marked again.
MarkUnwindTill_again(q, size) ==
  {i \in q : Size({j \in q : j < i}) <= size}

\* __wb_mark_unwind_till: requests not yet marked, in list order, until the
\* bytes already marked by this call exceed size.
MarkUnwindTill(q, size) ==
  LET new == q \ write_behind
  IN {i \in new : Size({j \in new : j < i}) <= size}

\* Mutant: a running total that answered requests never leave.
WindowOf_total(q) == Size(write_behind)

\* __wb_get_window_size: acknowledged and not yet answered.
WindowOf(q) == Size({i \in q : i \in write_behind /\ i \notin got_reply})

\* __wb_mark_unwinds
MarkUnwinds(q) ==
  IF WindowOf(q) <= WindowSize
  THEN MarkUnwindTill(q, WindowSize - WindowOf(q))
  ELSE {}

\* Mutant: a request is freed as soon as it is acknowledged.
CleanupQueue_early == queue \ write_behind

\* __wb_cleanup_queue
CleanupQueue == queue \ (got_reply \cap write_behind)

\* The locked part of wb_process_queue, run by thread t with size agg.
ProcessQueue(t, agg, next) ==
  LET q == CleanupQueue
      w == MarkWinds(q, agg)
      u == MarkUnwinds(q)
  IN /\ queue' = q
     /\ stack_wound' = stack_wound \cup w
     /\ write_behind' = write_behind \cup u
     /\ winds' = [winds EXCEPT ![t] = w]
     /\ unwinds' = [unwinds EXCEPT ![t] = u]
     /\ pc' = [pc EXCEPT ![t] = next]
     /\ UNCHANGED <<log, got_reply, frame_err>>

Goto(t, next) == pc' = [pc EXCEPT ![t] = next]
-----------------------------------------------------------------------------
(* wb_do_ops: unwind first, then wind, batch by batch, without the lock.    *)

\* wb_stack_unwind: every frame of the list gets its local->op_ret.
StackUnwind(t, from, next) ==
  /\ pc[t] = from
  /\ acks' = [i \in DOMAIN acks |-> IF i \in unwinds[t]
                                THEN Append(acks[i], i \notin frame_err) ELSE acks[i]]
  /\ told' = told \cup (unwinds[t] \cap frame_err)
  /\ unwinds' = [unwinds EXCEPT ![t] = {}]
  /\ Goto(t, next)
  /\ UNCHANGED <<env, status, flags, file, op_ret, reqs, wire, winds, arg>>

\* One batch of wb_sync: as many requests from the head of winds as fit in
\* MAX_VECTOR_COUNT vectors (a request carries one vector).
Batch(S) == {i \in S : Cardinality({j \in S : j <= i}) <= MaxVector}

Call(op, ids, off) == [op |-> op, ids |-> ids, off |-> off, reply |-> "none"]

\* wb_sync: wind the next batch at the offset of its first request.
Sync(t, from, next) ==
  /\ pc[t] = from
  /\ IF winds[t] = {}
     THEN /\ Goto(t, next)
          /\ UNCHANGED <<wire, winds>>
     ELSE /\ LET b == Batch(winds[t])
             IN /\ wire' = Append(wire, Call("writev", b, log[Min(b)].off))
                /\ winds' = [winds EXCEPT ![t] = @ \ b]
          /\ UNCHANGED pc
  /\ UNCHANGED <<env, status, flags, file, op_ret, reqs, acks, told, unwinds, arg>>
-----------------------------------------------------------------------------
(* wb_writev.                                                              *)

NumWrites == Len(log) + Cardinality({n \in DOMAIN wire : wire[n].op = "direct"})
Busy == {t \in Threads : pc[t] \in {"direct", "flush_all", "flush_unwind",
                                    "flush_sync", "enqueue"}}
NumCalls == Cardinality({n \in DOMAIN wire : wire[n].op \in Calls \cup {"bg_flush"}})
InCall == {t \in Threads : pc[t] \in {"sync_all", "call"}}

\* A thread comes into the translator; a single thread leaves it before it
\* brings the next call or reply.
Enters(t) == pc[t] = "idle" /\ (env.single => \A u \in Threads : pc[u] = "idle")

Deliver(t) == t \in Callers /\ Enters(t) /\ status = "open"

LeftToDisable(len) == IF len > disable_till THEN 0 ELSE disable_till - len

\* Mutant: the offset is not compared.
OffsetExpected_always(off) == TRUE
OffsetExpected(off) == off = offset

\* First critical section: is the file disabled, is the offset expected?
Writev(t, off, len) ==
  /\ Deliver(t)
  /\ NumWrites + Cardinality(Busy) < MaxWrites
  /\ IF disabled \/ disable_till > 0
     THEN /\ disable_till' = LeftToDisable(len)
          /\ Goto(t, "direct")
     ELSE /\ UNCHANGED disable_till
          /\ Goto(t, IF OffsetExpected(off) THEN "enqueue" ELSE "flush_all")
  /\ arg' = [arg EXCEPT ![t] = [op |-> "writev", off |-> off, len |-> len]]
  /\ UNCHANGED <<env, status, flags, disabled, offset, op_ret, reqs, acks, wire, told,
                 winds, unwinds>>

\* A disabled file's write goes straight to the child.
WritevDirect(t) ==
  /\ pc[t] = "direct"
  /\ wire' = Append(wire, Call("direct", {}, arg[t].off))
  /\ Goto(t, "idle")
  /\ arg' = [arg EXCEPT ![t] = NoArg]
  /\ UNCHANGED <<env, status, flags, file, op_ret, reqs, acks, told, winds, unwinds>>

\* Unexpected offset: wb_process_queue with flush_all.
WritevFlushAll(t) ==
  /\ pc[t] = "flush_all"
  /\ ProcessQueue(t, 0, "flush_unwind")
  /\ UNCHANGED <<env, status, flags, file, op_ret, acks, wire, told, arg>>

Enqueue(t) ==
  /\ pc[t] = "enqueue"
  /\ log' = Append(log, [off |-> arg[t].off, len |-> arg[t].len])
  /\ acks' = Append(acks, <<>>)
  /\ queue' = queue \cup {Len(log) + 1}
  /\ offset' = arg[t].off + arg[t].len
  /\ Goto(t, "process")
  /\ arg' = [arg EXCEPT ![t] = NoArg]
  /\ UNCHANGED <<env, status, flags, disabled, disable_till, op_ret, stack_wound,
                 write_behind, got_reply, frame_err, wire, told, winds, unwinds>>

\* wb_process_queue without flush_all, from wb_writev and from wb_sync_cbk.
Process(t) ==
  /\ pc[t] = "process"
  /\ ProcessQueue(t, AggregateSize, "unwind")
  /\ UNCHANGED <<env, status, flags, file, op_ret, acks, wire, told, arg>>
-----------------------------------------------------------------------------
(* fsync, flush and the calls that only have to follow the queued writes   *)
(* (readv, stat, fstat, truncate, ftruncate, utimens: "other").            *)

\* flush-behind answers the application before the queue is even sent.
FlushesBehind(op) == op = "flush" /\ env.flush_behind /\ ~disabled /\ disable_till = 0

\* wb_sync_all's critical section.  The acknowledgement of a flush-behind
\* reads file->op_ret just before it.
SyncAll(t, op) ==
  /\ Deliver(t)
  /\ NumCalls + Cardinality(InCall) < MaxSyncs
  /\ LET w == MarkWinds(queue, SyncAllSize)
     IN /\ stack_wound' = stack_wound \cup w
        /\ winds' = [winds EXCEPT ![t] = w]
  /\ arg' = [arg EXCEPT ![t] = [op |-> IF FlushesBehind(op) THEN "bg_flush" ELSE op,
                                 ids |-> Ids]]
  /\ told' = IF FlushesBehind(op) /\ op_ret = -1
             THEN told \cup Failed ELSE told
  /\ Goto(t, "sync_all")
  /\ UNCHANGED <<env, status, flags, file, op_ret, log, queue, write_behind, got_reply,
                 frame_err, acks, wire, unwinds>>

\* The call itself, after the batches; ids are the writes it has to follow.
WindCall(t) ==
  /\ pc[t] = "call"
  /\ wire' = Append(wire, Call(arg[t].op, arg[t].ids, 0))
  /\ Goto(t, "idle")
  /\ arg' = [arg EXCEPT ![t] = NoArg]
  /\ UNCHANGED <<env, status, flags, file, op_ret, reqs, acks, told, winds, unwinds>>
-----------------------------------------------------------------------------
(* Replies, delivered by the poll thread.                                  *)

InFlight == {n \in DOMAIN wire : wire[n].reply = "none"}
Answerable(n) == n \in InFlight /\ (env.in_order => \A m \in InFlight : n <= m)
Answer(n, r) == wire' = [wire EXCEPT ![n].reply = r]

\* wb_sync_cbk, critical section: a frame not yet unwound gets the error.
SyncCbk(n, r) ==
  /\ Enters(Poller)
  /\ Answerable(n) /\ wire[n].op = "writev"
  /\ Answer(n, r)
  /\ got_reply' = got_reply \cup wire[n].ids
  /\ frame_err' = IF r = "err" THEN frame_err \cup (wire[n].ids \ write_behind)
                  ELSE frame_err
  /\ arg' = [arg EXCEPT ![Poller] = [op |-> r]]
  /\ Goto(Poller, "sync_ret")
  /\ UNCHANGED <<env, status, flags, file, op_ret, log, queue, stack_wound, write_behind,
                 acks, told, winds, unwinds>>

RememberedRet(r) == IF r = "err" THEN -1 ELSE op_ret

\* wb_sync_cbk, after the lock: the file remembers the error.
SyncCbkRet ==
  /\ pc[Poller] = "sync_ret"
  /\ op_ret' = RememberedRet(arg[Poller].op)
  /\ arg' = [arg EXCEPT ![Poller] = NoArg]
  /\ Goto(Poller, "process")
  /\ UNCHANGED <<env, status, flags, file, reqs, acks, wire, told, winds, unwinds>>

\* wb_writev_cbk, wb_stat_cbk, wb_readv_cbk, ...: the answer is passed on.
PassCbk(n, r) ==
  /\ Enters(Poller)
  /\ Answerable(n) /\ wire[n].op \in {"direct", "other"}
  /\ Answer(n, r)
  /\ UNCHANGED <<env, status, flags, file, op_ret, reqs, acks, told, thread>>

\* Mutant: the child's answer is passed on whatever file->op_ret says.
Reported_child(r) == r
Reported(r) == IF op_ret = -1 THEN "err" ELSE r

\* wb_fsync_cbk, wb_ffr_cbk: a remembered error is reported and forgotten.
\* wb_ffr_bg_cbk forgets it as well, but nobody is waiting for its answer.
ReportCbk(n, r) ==
  /\ Enters(Poller)
  /\ Answerable(n) /\ wire[n].op \in {"fsync", "flush", "bg_flush"}
  /\ Answer(n, Reported(r))
  /\ told' = IF wire[n].op # "bg_flush" /\ op_ret = -1 /\ Reported(r) = "err"
             THEN told \cup Failed ELSE told
  /\ op_ret' = 0
  /\ UNCHANGED <<env, status, flags, file, reqs, acks, thread>>

\* wb_release: the last reference to the fd is gone, so every frame has been
\* unwound, no call is under way and no thread is in the translator.
Release ==
  /\ status = "open"
  /\ \A t \in Threads : pc[t] = "idle"
  /\ InFlight = {}
  /\ \A i \in Ids : acks[i] # <<>>
  /\ status' = "released"
  /\ UNCHANGED <<env, flags, file, op_ret, reqs, acks, wire, told, thread>>
-----------------------------------------------------------------------------
CallerCalls(t) ==
  \/ \E off \in Offsets, len \in Lengths : Writev(t, off, len)
  \/ \E op \in Calls : SyncAll(t, op)

\* The steps of a caller that is already inside the translator.
CallerInside(t) ==
  \/ WritevDirect(t)
  \/ WritevFlushAll(t)
  \/ StackUnwind(t, "flush_unwind", "flush_sync")
  \/ Sync(t, "flush_sync", "enqueue")
  \/ Enqueue(t)
  \/ Sync(t, "sync_all", "call")
  \/ WindCall(t)

QueueStep(t) ==
  \/ Process(t)
  \/ StackUnwind(t, "unwind", "sync")
  \/ Sync(t, "sync", "idle")

\* Nothing is under way, and the application need not call again.
Idle ==
  /\ status # "new"
  /\ \A t \in Threads : pc[t] = "idle"
  /\ InFlight = {}
  /\ UNCHANGED vars

ReplyStep ==
  \/ \E n \in DOMAIN wire, r \in {"ok", "err"} :
       SyncCbk(n, r) \/ PassCbk(n, r) \/ ReportCbk(n, r)
  \/ SyncCbkRet

Next ==
  \/ \E f \in OpenFlags : Open(f) \/ Create(f)
  \/ \E t \in Callers : CallerCalls(t) \/ CallerInside(t)
  \/ \E t \in Threads : QueueStep(t)
  \/ ReplyStep
  \/ Release
  \/ Idle

Spec == Init /\ [][Next]_vars

\* The application need not call again, but a thread inside the translator
\* goes on and the child answers every call it got.
Fairness ==
  /\ \A t \in Callers : WF_vars(CallerInside(t))
  /\ \A t \in Threads : WF_vars(QueueStep(t))
  /\ WF_vars(ReplyStep)

FairSpec == Spec /\ Fairness
-----------------------------------------------------------------------------
(* Properties.                                                             *)

Threadpc == {"idle", "direct", "flush_all", "flush_unwind", "flush_sync", "enqueue",
             "process", "unwind", "sync", "sync_all", "call", "sync_ret"}

\* Type invariant: the state stays within the ranges the C types and the
\* three request flags allow.
TypeOK ==
  /\ status \in {"new", "open", "released"}
  /\ flags \in OpenFlags \cup {"none"}
  /\ disabled \in BOOLEAN
  /\ disable_till \in Nat
  /\ offset \in Nat
  /\ op_ret \in {0, -1}
  /\ log \in Seq([off : Nat, len : Nat])
  /\ queue \subseteq Ids /\ stack_wound \subseteq Ids /\ write_behind \subseteq Ids
  /\ got_reply \subseteq Ids /\ frame_err \subseteq Ids /\ told \subseteq Ids
  /\ acks \in Seq(Seq(BOOLEAN)) /\ Len(acks) = Len(log)
  /\ pc \in [Threads -> Threadpc]
  /\ winds \in [Threads -> SUBSET Ids]
  /\ unwinds \in [Threads -> SUBSET Ids]
  /\ wire \in Seq(Message)

\* wb_sync writes a batch at the offset of its first request, one vector after
\* the other: the data of every request lands at its own offset only if the
\* requests of a batch follow each other without a gap.
BatchContiguous ==
  \A n \in DOMAIN wire : wire[n].op = "writev" =>
    LET b == wire[n].ids
    IN /\ b # {}
       /\ log[Min(b)].off = wire[n].off
       /\ \A i \in b : i > Min(b) =>
            /\ i - 1 \in b
            /\ log[i].off = log[i - 1].off + log[i - 1].len

\* A queued write is sent to the child once, and it leaves the queue only when
\* the child has answered it and its frame has been (or is just being) unwound
\* (__wb_cleanup_queue; doc/hacker-guide/write-behind.txt on got_reply).
SentOnceNeverDropped ==
  \A i \in Ids :
    /\ Cardinality({n \in DOMAIN wire : wire[n].op = "writev" /\ i \in wire[n].ids}) <= 1
    /\ i \notin queue => /\ i \in AnsweredWith({"ok", "err"})
                         /\ \/ acks[i] # <<>>
                            \/ \E t \in Threads : i \in unwinds[t]

\* A write frame is unwound at most once, and with an error only if the child
\* failed that very write (frame->local->op_ret in wb_sync_cbk).
AckedOnceAndTruthfully ==
  \A i \in Ids : acks[i] # <<>> =>
    /\ Len(acks[i]) = 1
    /\ ~acks[i][1] => i \in Failed

\* A failed write the application was told had succeeded is not forgotten:
\* until an fsync or a flush reports it, file->op_ret is -1, or the poll thread
\* is on its way to set it, or the error is still in the frame to be unwound.
\* (flush-behind answers a flush before the writes it covers and then drops
\* their errors in wb_ffr_bg_cbk: nothing is promised there.)
ErrorKept ==
  ~ env.flush_behind => \A i \in Failed \ told :
    \/ op_ret = -1
    \/ pc[Poller] = "sync_ret" /\ arg[Poller].op = "err"
    \/ i \in frame_err /\ acks[i] = <<>>

\* So with a single thread and a child that answers in order, an fsync or
\* flush that returns success vouches for the writes before it: each has been
\* answered, and successfully unless the application knows.
SuccessVouches ==
  env.single /\ env.in_order /\ ~ env.flush_behind =>
    \A n \in DOMAIN wire :
      wire[n].op \in {"fsync", "flush"} /\ wire[n].reply = "ok" =>
        wire[n].ids \subseteq AnsweredWith({"ok"}) \cup (Failed \cap told)

\* No error of a write is lost (wb_sync_cbk, wb_fsync_cbk, wb_ffr_cbk).
ErrorRemembered == ErrorKept /\ SuccessVouches

\* Releasing the file abandons nothing: by then every queued write has been
\* sent to the child and answered.
ReleasedClean ==
  status = "released" => Ids \subseteq AnsweredWith({"ok", "err"})

\* No queued write is lost: not while the file is open, not by the release
\* (__wb_cleanup_queue, wb_release).
NothingLost == SentOnceNeverDropped /\ ReleasedClean

\* With a single thread the child gets the queued writes in the order the
\* application made them (wb_sync sends winds from its head).
SentInOrder ==
  env.single => \A m, n \in DOMAIN wire :
    m < n /\ wire[m].op = "writev" /\ wire[n].op = "writev" =>
      \A i \in wire[m].ids, j \in wire[n].ids : i < j

\* fsync, flush, readv, stat and truncate reach the child after every write
\* queued before them (wb_sync_all before the STACK_WIND).
CallNeverOvertakes ==
  \A n \in DOMAIN wire : wire[n].op \in Calls \cup {"bg_flush"} =>
    \A i \in wire[n].ids :
      \E m \in 1 .. n - 1 : wire[m].op = "writev" /\ i \in wire[m].ids

\* With a single thread they do: wb_sync_all leaves nothing queued behind.
CallFollowsWrites == env.single => CallNeverOvertakes

\* A single thread sees its calls reach the child in the order it made them,
\* writes among themselves and the other calls after the writes (wb_sync,
\* wb_sync_all).
OrderKept == SentInOrder /\ CallFollowsWrites

\* Again and again no write waits: each is acknowledged in the end, even when
\* the window is full or its batch waits for aggregate_size bytes, if the
\* child answers in order.  (A reply acknowledges at most window_size bytes
\* and one request more: replies that overtake others can use up the wake-ups
\* of the writes that wait.)
EveryWriteAcked ==
  []<>(env.in_order => \A i \in Ids : acks[i] # <<>>)
=============================================================================
