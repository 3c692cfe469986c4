----------------------- MODULE WriteBehindQueueProofs -----------------------
(***************************************************************************)
(* Write-behind loses no write, acknowledges each one once and truthfully, *)
(* forgets no error, and keeps a single thread's order: for any number of  *)
(* threads, writes and calls, any sizes and any order of the replies.      *)
(***************************************************************************)
EXTENDS WriteBehindProofs

\* Call n to the child carries request i.
Carries(n, i) == n \in DOMAIN wire /\ wire[n].op = "writev" /\ i \in wire[n].ids

Sent(i) == \E n \in DOMAIN wire : Carries(n, i)
Taken(i) == \E t \in Threads : i \in winds[t]
Replied(i) == \E n \in DOMAIN wire : Carries(n, i) /\ wire[n].reply # "none"

\* Where a request is: a request marked as wound is in the hands of one thread
\* or was sent in one call, it has its reply when that call has, and it leaves
\* the queue with its reply and its acknowledgement.
Accounts ==
  /\ \A m, n : \A i : Carries(m, i) /\ Carries(n, i) => m = n
  /\ \A i : Taken(i) => ~ Sent(i)
  /\ \A t, u \in Threads : t # u => winds[t] \cap winds[u] = {}
  /\ \A i : i \in stack_wound <=> Taken(i) \/ Sent(i)
  /\ \A i : i \in got_reply <=> Replied(i)
  /\ Ids \ queue \subseteq got_reply \cap write_behind

\* The acknowledgements: a request marked write_behind was acknowledged once or
\* is about to be, by one thread, and an error in its frame is the child's.
Acknowledged(i) == i \in Ids /\ acks[i] # <<>>

Promised(i) == \E t \in Threads : i \in unwinds[t]

Frames ==
  /\ \A i : i \in write_behind <=> Acknowledged(i) \/ Promised(i)
  /\ \A i : Promised(i) => ~ Acknowledged(i)
  /\ \A t, u \in Threads : t # u => unwinds[t] \cap unwinds[u] = {}
  /\ frame_err \subseteq Failed
  /\ AckedOnceAndTruthfully

\* What a thread has in its hands at each point, and who will send the requests
\* that stay unsent: a thread on its way to wb_process_queue, or the reply to a
\* request that was sent before them.
Sending == {"flush_unwind", "flush_sync", "unwind", "sync", "sync_all"}

Hands ==
  /\ \A t \in Threads : pc[t] \notin Sending => winds[t] = {}
  /\ \A t \in Threads : pc[t] \notin {"flush_unwind", "unwind"} => unwinds[t] = {}
  /\ \/ Unsent = {}
     \/ \E t \in Threads : pc[t] \in {"process", "sync_ret"}
     \/ \E i \in queue : i \in stack_wound /\ i \notin got_reply
  /\ status = "released" =>
       /\ \A t \in Threads : pc[t] = "idle"
       /\ InFlight = {} /\ Unsent = {}

\* A single thread: one thread at a time is inside, what it has taken comes
\* after all that was sent, and a call in its hands follows what it has taken.
Serial ==
  /\ \A i \in stack_wound : \A j \in Ids : j <= i => j \in stack_wound
  /\ env.single =>
       /\ \A t, u \in Threads : pc[t] # "idle" /\ pc[u] # "idle" => t = u
       /\ \A t \in Threads : \A i \in winds[t] : \A j \in Ids : Sent(j) => j < i
       /\ \A t \in Threads : pc[t] \in {"sync_all", "call"} => arg[t].ids \subseteq stack_wound
  /\ OrderKept

\* Errors: a flush that nobody waits for exists with flush-behind only.
Errors ==
  /\ \A n \in DOMAIN wire : wire[n].op = "bg_flush" => env.flush_behind
  /\ \A t \in Threads :
       pc[t] \in {"sync_all", "call"} /\ arg[t].op = "bg_flush" => env.flush_behind
  /\ ErrorKept

Books == Accounts /\ Frames /\ Hands /\ Serial /\ Errors

QInv == TInv /\ Books
-----------------------------------------------------------------------------
(* What the steps do to the calls made to the child.                       *)

\* The answered requests, by the calls that carry them.
LEMMA AnsweredIs ==
  ASSUME NEW rs
  PROVE  \A i : i \in AnsweredWith(rs) <=> \E n : Carries(n, i) /\ wire[n].reply \in rs
  BY Zenon DEF AnsweredWith, Carries

\* A step that makes no call and answers none.
LEMMA SameWire ==
  ASSUME wire' = wire
  PROVE  /\ \A n, i : Carries(n, i)' <=> Carries(n, i)
         /\ \A i : (Sent(i)' <=> Sent(i)) /\ (Replied(i)' <=> Replied(i))
         /\ \A rs : AnsweredWith(rs)' = AnsweredWith(rs)
         /\ Failed' = Failed
         /\ InFlight' = InFlight
  BY ZenonT(30) DEF Carries, Sent, Replied, AnsweredWith, Failed, InFlight

\* A new call is the last one.
LEMMA AppendedWire ==
  ASSUME wire \in Seq(Message), NEW m \in Message, m.reply = "none", wire' = Append(wire, m)
  PROVE  /\ Len(wire) \in Nat /\ DOMAIN wire = 1 .. Len(wire)
         /\ DOMAIN wire' = 1 .. Len(wire) + 1 /\ Len(wire) + 1 \notin DOMAIN wire
         /\ wire'[Len(wire) + 1] = m /\ \A n \in DOMAIN wire : wire'[n] = wire[n]
         /\ \A n, i : Carries(n, i)' <=> \/ Carries(n, i)
                                         \/ n = Len(wire) + 1 /\ m.op = "writev" /\ i \in m.ids
         /\ \A i : /\ Sent(i)' <=> Sent(i) \/ (m.op = "writev" /\ i \in m.ids)
                   /\ Replied(i)' <=> Replied(i)
         /\ Failed' = Failed
<1> DEFINE k == Len(wire) + 1
<1>0. Len(wire) \in Nat /\ DOMAIN wire = 1 .. Len(wire) /\ k \notin DOMAIN wire
  OBVIOUS
<1>a. /\ DOMAIN Append(wire, m) = 1 .. Len(wire) + 1
      /\ \A n \in 1 .. Len(wire) : Append(wire, m)[n] = wire[n]
      /\ Append(wire, m)[Len(wire) + 1] = m
  BY <1>0, AppendProperties
<1>1. /\ Len(wire) \in Nat /\ DOMAIN wire = 1 .. Len(wire) /\ k \notin DOMAIN wire
      /\ DOMAIN wire' = 1 .. k
  BY <1>0, <1>a, Zenon
<1>2. wire'[k] = m /\ \A n \in DOMAIN wire : wire'[n] = wire[n]
  BY <1>0, <1>a, Zenon
<1>3. \A n : n \in DOMAIN wire' <=> n \in DOMAIN wire \/ n = k
  BY <1>1
<1> HIDE DEF k
<1>4. \A n, i : Carries(n, i)' <=> Carries(n, i) \/ (n = k /\ m.op = "writev" /\ i \in m.ids)
  BY <1>1, <1>2, <1>3, Zenon DEF Carries
<1>5. ASSUME NEW i PROVE Sent(i)' <=> Sent(i) \/ (m.op = "writev" /\ i \in m.ids)
  <2>1. k \in DOMAIN wire'
    BY <1>3, Zenon
  <2>2. Sent(i)' <=> \E n \in DOMAIN wire' : Carries(n, i)'
    BY Zenon DEF Sent
  <2>3. Sent(i) <=> \E n \in DOMAIN wire : Carries(n, i)
    BY Zenon DEF Sent
  <2>4. \A n : Carries(n, i) => n \in DOMAIN wire
    BY Zenon DEF Carries
  <2> QED
    BY <1>3, <1>4, <2>1, <2>2, <2>3, <2>4, Zenon
<1>6. \A n, i : n \in DOMAIN wire' /\ Carries(n, i)' /\ wire'[n].reply # "none" <=>
                n \in DOMAIN wire /\ Carries(n, i) /\ wire[n].reply # "none"
  BY <1>1, <1>2, <1>3, <1>4, Zenon DEF Carries
<1>7. \A i : Replied(i)' <=> Replied(i)
  BY <1>6, Zenon DEF Replied
<1>8. \A n, i : Carries(n, i)' /\ wire'[n].reply \in {"err"} <=>
                Carries(n, i) /\ wire[n].reply \in {"err"}
  BY <1>1, <1>2, <1>3, <1>4, Zenon DEF Carries
<1>9. \A i : i \in Failed <=> \E n : Carries(n, i) /\ wire[n].reply \in {"err"}
  BY AnsweredIs, Zenon DEF Failed
<1>10. \A i : i \in Failed' <=> \E n : Carries(n, i)' /\ wire'[n].reply \in {"err"}
  BY Zenon DEF Failed, AnsweredWith, Carries
<1>11. Failed' = Failed
  BY <1>8, <1>9, <1>10, Zenon
<1> QED
  BY <1>1, <1>2, <1>4, <1>5, <1>7, <1>11, Zenon DEF k

\* The child answers a call.
LEMMA AnsweredWire ==
  ASSUME wire \in Seq(Message), NEW n \in InFlight, NEW r \in {"ok", "err"}, Answer(n, r)
  PROVE  /\ DOMAIN wire' = DOMAIN wire
         /\ \A k \in DOMAIN wire : /\ wire'[k].op = wire[k].op /\ wire'[k].ids = wire[k].ids
                                   /\ wire'[k].reply = IF k = n THEN r ELSE wire[k].reply
         /\ \A k, i : Carries(k, i)' <=> Carries(k, i)
         /\ \A i : /\ Sent(i)' <=> Sent(i)
                   /\ Replied(i)' <=> Replied(i) \/ Carries(n, i)
                   /\ i \in Failed' <=> i \in Failed \/ (r = "err" /\ Carries(n, i))
<1>1. n \in DOMAIN wire /\ wire[n].reply = "none" /\ wire[n] \in Message
  BY ElementOfSeq DEF InFlight
<1>2. /\ DOMAIN wire' = DOMAIN wire
      /\ \A k \in DOMAIN wire : wire'[k] = IF k = n THEN [wire[n] EXCEPT !.reply = r] ELSE wire[k]
  BY <1>1, Zenon DEF Answer
<1>3. /\ [wire[n] EXCEPT !.reply = r].op = wire[n].op
      /\ [wire[n] EXCEPT !.reply = r].ids = wire[n].ids
      /\ [wire[n] EXCEPT !.reply = r].reply = r
  BY <1>1, Zenon DEF Message
<1>4. \A k \in DOMAIN wire : /\ wire'[k].op = wire[k].op /\ wire'[k].ids = wire[k].ids
                             /\ wire'[k].reply = IF k = n THEN r ELSE wire[k].reply
  BY <1>2, <1>3, Zenon
<1>5. \A k, i : Carries(k, i)' <=> Carries(k, i)
  BY <1>2, <1>4, Zenon DEF Carries
<1>6. \A i : Sent(i)' <=> Sent(i)
  BY <1>2, <1>5, Zenon DEF Sent
<1>7. \A i : Replied(i)' <=> Replied(i) \/ Carries(n, i)
  BY <1>1, <1>2, <1>4, <1>5, Zenon DEF Replied
<1>8. \A i : i \in Failed <=> \E k : Carries(k, i) /\ wire[k].reply \in {"err"}
  BY AnsweredIs, Zenon DEF Failed
<1>9. \A i : i \in Failed' <=> \E k : Carries(k, i)' /\ wire'[k].reply \in {"err"}
  BY Zenon DEF Failed, AnsweredWith, Carries
<1>10. ASSUME NEW i PROVE i \in Failed' <=> i \in Failed \/ (r = "err" /\ Carries(n, i))
  <2>1. \A k : Carries(k, i) => k \in DOMAIN wire
    BY Zenon DEF Carries
  <2>2. \A k : Carries(k, i)' /\ wire'[k].reply \in {"err"} <=>
               Carries(k, i) /\ (wire[k].reply \in {"err"} \/ (k = n /\ r = "err"))
    BY <1>1, <1>4, <1>5, <2>1, Zenon
  <2> QED
    BY <1>8, <1>9, <2>2, Zenon
<1> QED
  BY <1>2, <1>4, <1>5, <1>6, <1>7, <1>10, Zenon
-----------------------------------------------------------------------------
(* What a step keeps when it leaves the state a conjunct is about alone.   *)

\* The requests a thread has in its hands, when thread t's change.
LEMMA NewHands ==
  ASSUME NEW f, NEW g, NEW t \in Threads, DOMAIN f = Threads, NEW S, g = [f EXCEPT ![t] = S]
  PROVE  g[t] = S /\ \A u \in Threads : u # t => g[u] = f[u]
  OBVIOUS

\* A request is sent by a call that exists, and it was marked before.
LEMMA SentIsWound ==
  ASSUME TInv, Accounts
  PROVE  /\ \A i : Sent(i) \/ Taken(i) <=> i \in stack_wound
         /\ \A i : Replied(i) => Sent(i)
         /\ got_reply \subseteq stack_wound
         /\ Ids \subseteq stack_wound \cup Unsent
         /\ stack_wound \subseteq Ids /\ queue \subseteq Ids
<1>1. \A i : Sent(i) \/ Taken(i) <=> i \in stack_wound
  BY Zenon DEF Accounts
<1>2. \A i : Replied(i) => Sent(i)
  BY Zenon DEF Replied, Sent
<1>3. got_reply \subseteq stack_wound
  BY <1>1, <1>2, Zenon DEF Accounts
<1>4. Ids \subseteq stack_wound \cup Unsent
  BY <1>3, Zenon DEF Accounts, Unsent
<1> QED
  BY <1>1, <1>2, <1>3, <1>4, Zenon DEF TInv, TypeOK

\* Where the requests are, when no request is marked, sent, answered or freed.
LEMMA AccountsSame ==
  ASSUME Accounts, UNCHANGED <<log, queue, stack_wound, write_behind, got_reply, winds>>,
         \A n, i : Carries(n, i)' <=> Carries(n, i),
         \A i : (Sent(i)' <=> Sent(i)) /\ (Replied(i)' <=> Replied(i))
  PROVE  Accounts'
<1>1. Ids' = Ids /\ \A i : Taken(i)' <=> Taken(i)
  BY Zenon DEF Ids, Taken
<1>2. /\ \A m, n : \A i : Carries(m, i)' /\ Carries(n, i)' => m = n
      /\ \A i : Taken(i)' => ~ Sent(i)'
      /\ \A i : i \in stack_wound' <=> Taken(i)' \/ Sent(i)'
      /\ \A i : i \in got_reply' <=> Replied(i)'
  BY <1>1, Zenon DEF Accounts
<1> QED
  BY <1>1, <1>2, Zenon DEF Accounts

\* The acknowledgements, when no frame is promised one or unwound.
LEMMA FramesSame ==
  ASSUME Frames, UNCHANGED <<log, acks, write_behind, unwinds, frame_err>>, Failed \subseteq Failed'
  PROVE  Frames'
<1>1. Ids' = Ids
  BY Zenon DEF Ids
<1>2. \A i : (Acknowledged(i)' <=> Acknowledged(i)) /\ (Promised(i)' <=> Promised(i))
  BY <1>1, Zenon DEF Acknowledged, Promised
<1>3. frame_err' \subseteq Failed'
  BY Zenon DEF Frames
<1>4. AckedOnceAndTruthfully'
  <2>1. AckedOnceAndTruthfully
    BY Zenon DEF Frames
  <2> QED
    BY <1>1, <2>1, Zenon DEF AckedOnceAndTruthfully
<1> QED
  BY <1>2, <1>3, <1>4, Zenon DEF Frames

\* The order of the calls, when none is made.
LEMMA OrderSame ==
  ASSUME OrderKept, env' = env, DOMAIN wire' = DOMAIN wire,
         \A n \in DOMAIN wire : wire'[n].op = wire[n].op /\ wire'[n].ids = wire[n].ids,
         wire \in Seq(Message)
  PROVE  OrderKept'
<1>1. SentInOrder'
  BY Zenon DEF OrderKept, SentInOrder
<1>2. CallFollowsWrites'
  <2>1. SUFFICES ASSUME env.single, NEW n \in DOMAIN wire, wire[n].op \in Calls \cup {"bg_flush"},
                        NEW i \in wire[n].ids
                 PROVE  \E m \in 1 .. n - 1 : wire'[m].op = "writev" /\ i \in wire'[m].ids
    BY Zenon DEF CallFollowsWrites, CallNeverOvertakes
  <2>2. PICK m \in 1 .. n - 1 : wire[m].op = "writev" /\ i \in wire[m].ids
    BY <2>1, Zenon DEF OrderKept, CallFollowsWrites, CallNeverOvertakes
  <2>3. m \in DOMAIN wire
    OBVIOUS
  <2> QED
    BY <2>2, <2>3, Zenon
<1> QED
  BY <1>1, <1>2, Zenon DEF OrderKept

\* A call made last keeps the order if it carries later writes only, or follows
\* writes that were sent.
LEMMA OrderAppended ==
  ASSUME OrderKept, env' = env, wire \in Seq(Message), NEW m \in Message, m.reply = "none",
         wire' = Append(wire, m),
         env.single /\ m.op = "writev" => \A i : Sent(i) => \A j \in m.ids : i < j,
         env.single /\ m.op # "writev" => \A i \in m.ids : Sent(i)
  PROVE  OrderKept'
<1> DEFINE k == Len(wire) + 1
<1>1. /\ Len(wire) \in Nat /\ DOMAIN wire = 1 .. Len(wire) /\ DOMAIN wire' = 1 .. k
      /\ wire'[k] = m /\ \A n \in DOMAIN wire : wire'[n] = wire[n]
  BY AppendedWire, Zenon
<1>2. \A n \in DOMAIN wire' : n \in DOMAIN wire \/ n = k
  BY <1>1
<1>3. SentInOrder'
  <2>1. SUFFICES ASSUME env.single, NEW a \in DOMAIN wire', NEW n \in DOMAIN wire', a < n,
                        wire'[a].op = "writev", wire'[n].op = "writev",
                        NEW i \in wire'[a].ids, NEW j \in wire'[n].ids
                 PROVE  i < j
    BY Zenon DEF SentInOrder
  <2>2. a \in DOMAIN wire
    BY <1>1, <2>1
  <2>3. CASE n \in DOMAIN wire
    BY <1>1, <2>1, <2>2, <2>3, Zenon DEF OrderKept, SentInOrder
  <2>4. CASE n = k
    <3>1. Sent(i)
      BY <1>1, <2>1, <2>2, Zenon DEF Sent, Carries
    <3> QED
      BY <1>1, <2>1, <2>4, <3>1, Zenon
  <2> QED
    BY <1>2, <2>3, <2>4, Zenon
<1>4. CallFollowsWrites'
  <2>1. SUFFICES ASSUME env.single, NEW n \in DOMAIN wire', wire'[n].op \in Calls \cup {"bg_flush"},
                        NEW i \in wire'[n].ids
                 PROVE  \E a \in 1 .. n - 1 : wire'[a].op = "writev" /\ i \in wire'[a].ids
    BY Zenon DEF CallFollowsWrites, CallNeverOvertakes
  <2>2. CASE n \in DOMAIN wire
    <3>1. PICK a \in 1 .. n - 1 : wire[a].op = "writev" /\ i \in wire[a].ids
      BY <1>1, <2>1, <2>2, Zenon DEF OrderKept, CallFollowsWrites, CallNeverOvertakes
    <3>2. a \in DOMAIN wire
      BY <1>1, <2>2
    <3> QED
      BY <1>1, <3>1, <3>2, Zenon
  <2>3. CASE n = k
    <3>1. m.op # "writev" /\ i \in m.ids
      BY <1>1, <2>1, <2>3, Zenon DEF Calls
    <3>2. PICK a \in DOMAIN wire : Carries(a, i)
      BY <2>1, <3>1, Zenon DEF Sent
    <3>3. a \in 1 .. n - 1
      BY <1>1, <2>3
    <3> QED
      BY <1>1, <3>2, <3>3, Zenon DEF Carries
  <2> QED
    BY <1>2, <2>2, <2>3, Zenon
<1> QED
  BY <1>3, <1>4, Zenon DEF OrderKept

\* The order, when thread t moves on and nothing is marked, taken or sent.
LEMMA SerialMove ==
  ASSUME TInv, Serial, OrderKept', NEW t \in Threads,
         UNCHANGED <<env, log, stack_wound, winds>>, \A i : Sent(i)' => Sent(i),
         \A u \in Threads : u # t => pc'[u] = pc[u] /\ arg'[u] = arg[u],
         pc'[t] = "idle" \/ pc[t] # "idle" \/ Enters(t),
         pc'[t] \in {"sync_all", "call"} => pc[t] \in {"sync_all", "call"} /\ arg'[t] = arg[t]
  PROVE  Serial'
<1>1. Ids' = Ids
  BY Zenon DEF Ids
<1>2. \A i \in stack_wound' : \A j \in Ids' : j <= i => j \in stack_wound'
  BY <1>1, Zenon DEF Serial
<1>3. ASSUME env.single, NEW u \in Threads, NEW v \in Threads, pc'[u] # "idle", pc'[v] # "idle"
      PROVE  u = v
  <2>1. CASE Enters(t)
    BY <1>3, <2>1, Zenon DEF Enters
  <2>2. CASE ~ Enters(t)
    <3>1. pc[u] # "idle" /\ pc[v] # "idle"
      BY <1>3, <2>2, Zenon
    <3> QED
      BY <1>3, <3>1, Zenon DEF Serial
  <2> QED
    BY <2>1, <2>2, Zenon
<1>4. env.single => \A u \in Threads : \A i \in winds'[u] : \A j \in Ids' : Sent(j)' => j < i
  BY <1>1, Zenon DEF Serial
<1>5. env.single => \A u \in Threads :
        pc'[u] \in {"sync_all", "call"} => arg'[u].ids \subseteq stack_wound'
  BY Zenon DEF Serial
<1> QED
  BY <1>2, <1>3, <1>4, <1>5, Zenon DEF Serial

\* What the threads hold, when thread t moves on with the file open.
LEMMA HandsMove ==
  ASSUME Hands, NEW t \in Threads, status' # "released",
         UNCHANGED <<queue, stack_wound, got_reply>>,
         \A u \in Threads : u # t => /\ pc'[u] = pc[u]
                                     /\ winds'[u] = winds[u] /\ unwinds'[u] = unwinds[u],
         pc'[t] \notin Sending => winds'[t] = {},
         pc'[t] \notin {"flush_unwind", "unwind"} => unwinds'[t] = {},
         pc[t] \in {"process", "sync_ret"} => pc'[t] \in {"process", "sync_ret"}
  PROVE  Hands'
<1>1. /\ \A u \in Threads : pc'[u] \notin Sending => winds'[u] = {}
      /\ \A u \in Threads : pc'[u] \notin {"flush_unwind", "unwind"} => unwinds'[u] = {}
  BY Zenon DEF Hands
<1>2. Unsent' = Unsent
  BY Zenon DEF Unsent
<1>3. \/ Unsent' = {}
      \/ \E u \in Threads : pc'[u] \in {"process", "sync_ret"}
      \/ \E i \in queue' : i \in stack_wound' /\ i \notin got_reply'
  <2>1. CASE \E u \in Threads : pc[u] \in {"process", "sync_ret"}
    BY <2>1, Zenon
  <2> QED
    BY <1>2, <2>1, Zenon DEF Hands
<1> QED
  BY <1>1, <1>3, Zenon DEF Hands

\* The errors, when thread t moves on and no reply is on its way to op_ret.
LEMMA ErrorsMove ==
  ASSUME Errors, NEW t \in Threads, env' = env, op_ret' = op_ret, Failed' = Failed,
         \A n \in DOMAIN wire' : wire'[n].op = "bg_flush" => env.flush_behind,
         \A u \in Threads : u # t => pc'[u] = pc[u] /\ arg'[u] = arg[u],
         pc'[t] \in {"sync_all", "call"} /\ arg'[t].op = "bg_flush" => env.flush_behind,
         pc[t] # "sync_ret" \/ (pc' = pc /\ arg' = arg),
         told \subseteq told', Poller \in Threads,
         \A i \in Failed \ told' :
           i \in frame_err /\ acks[i] = <<>> => i \in frame_err' /\ acks'[i] = <<>>
  PROVE  Errors'
<1>1. ErrorKept'
  <2>1. SUFFICES ASSUME ~ env.flush_behind, NEW i \in Failed, i \notin told'
                 PROVE  \/ op_ret' = -1
                        \/ pc'[Poller] = "sync_ret" /\ arg'[Poller].op = "err"
                        \/ i \in frame_err' /\ acks'[i] = <<>>
    BY Zenon DEF ErrorKept
  <2>2. \/ op_ret = -1
        \/ pc[Poller] = "sync_ret" /\ arg[Poller].op = "err"
        \/ i \in frame_err /\ acks[i] = <<>>
    BY <2>1, Zenon DEF Errors, ErrorKept
  <2>3. CASE pc[Poller] = "sync_ret" /\ arg[Poller].op = "err"
    BY <2>3, Zenon
  <2> QED
    BY <2>1, <2>2, <2>3, Zenon
<1>2. \A u \in Threads :
        pc'[u] \in {"sync_all", "call"} /\ arg'[u].op = "bg_flush" => env.flush_behind
  BY Zenon DEF Errors
<1> QED
  BY <1>1, <1>2, Zenon DEF Errors
-----------------------------------------------------------------------------
(* The steps, one lemma per group of actions.                              *)

\* A critical section that takes all or none of the unsent requests keeps track
\* of every request and of their order.
LEMMA TakeAccounts ==
  ASSUME TInv, Accounts, NEW t \in Threads, winds[t] = {}, NEW w, w = {} \/ w = Unsent,
         queue \ queue' \subseteq got_reply \cap write_behind,
         stack_wound' = stack_wound \cup w, winds' = [winds EXCEPT ![t] = w],
         write_behind \subseteq write_behind', UNCHANGED <<log, wire, got_reply>>
  PROVE  Accounts'
<1>1. Ids' = Ids /\ DOMAIN winds = Threads /\ \A i \in w : i \notin stack_wound
  BY Zenon DEF Ids, TInv, TypeOK, Unsent
<1>2. winds'[t] = w /\ \A u \in Threads : u # t => winds'[u] = winds[u]
  BY <1>1, NewHands, Zenon
<1>3. \A i : Taken(i)' <=> Taken(i) \/ i \in w
  BY <1>2, Zenon DEF Taken
<1>4. /\ \A n, i : Carries(n, i)' <=> Carries(n, i)
      /\ \A i : (Sent(i)' <=> Sent(i)) /\ (Replied(i)' <=> Replied(i))
  BY SameWire, Zenon
<1>5. \A i : Sent(i) \/ Taken(i) <=> i \in stack_wound
  BY SentIsWound, Zenon
<1>6. \A i : Taken(i)' => ~ Sent(i)'
  BY <1>1, <1>3, <1>4, <1>5, Zenon DEF Accounts
<1>7. \A i : i \in stack_wound' <=> Taken(i)' \/ Sent(i)'
  BY <1>3, <1>4, <1>5, Zenon
<1>8. ASSUME NEW u \in Threads, NEW v \in Threads, u # v PROVE winds'[u] \cap winds'[v] = {}
  <2>1. \A x \in Threads : \A i \in winds[x] : i \notin w
    BY <1>1, <1>5, Zenon DEF Taken
  <2>2. winds[u] \cap winds[v] = {}
    BY <1>8, Zenon DEF Accounts
  <2> QED
    BY <1>2, <1>8, <2>1, <2>2, Zenon
<1>9. Ids' \ queue' \subseteq got_reply' \cap write_behind'
  BY <1>1, Zenon DEF Accounts
<1>10. /\ \A m, n : \A i : Carries(m, i)' /\ Carries(n, i)' => m = n
       /\ \A i : i \in got_reply' <=> Replied(i)'
  BY <1>4, Zenon DEF Accounts
<1> QED
  BY <1>6, <1>7, <1>8, <1>9, <1>10, ZenonT(30) DEF Accounts

\* It takes them from the end of what was marked before.
LEMMA TakeSerial ==
  ASSUME TInv, Accounts, Serial, NEW t \in Threads, winds[t] = {}, NEW w, w = {} \/ w = Unsent,
         stack_wound' = stack_wound \cup w, winds' = [winds EXCEPT ![t] = w],
         UNCHANGED <<env, log, wire>>,
         \A u \in Threads : u # t => pc'[u] = pc[u] /\ arg'[u] = arg[u],
         pc[t] # "idle" \/ Enters(t),
         pc'[t] \in {"sync_all", "call"} => w = Unsent /\ arg'[t].ids \subseteq Ids
  PROVE  Serial'
<1>1. Ids' = Ids /\ DOMAIN winds = Threads
  BY Zenon DEF Ids, TInv, TypeOK
<1>2. winds'[t] = w /\ \A u \in Threads : u # t => winds'[u] = winds[u]
  BY <1>1, NewHands, Zenon
<1>3. Ids \subseteq stack_wound \cup Unsent /\ \A i : Sent(i) => i \in stack_wound
  BY SentIsWound, Zenon
<1>4. \A i \in stack_wound' : \A j \in Ids' : j <= i => j \in stack_wound'
  BY <1>1, <1>3, Zenon DEF Serial
<1>5. ASSUME env.single, NEW u \in Threads, NEW v \in Threads, pc'[u] # "idle", pc'[v] # "idle"
      PROVE  u = v
  <2>1. CASE Enters(t)
    BY <1>5, <2>1, Zenon DEF Enters
  <2>2. CASE pc[t] # "idle"
    <3>1. pc[u] # "idle" /\ pc[v] # "idle"
      BY <1>5, <2>2, Zenon
    <3> QED
      BY <1>5, <3>1, Zenon DEF Serial
  <2> QED
    BY <2>1, <2>2, Zenon
<1>6. ASSUME env.single, NEW u \in Threads, NEW i \in winds'[u], NEW j \in Ids', Sent(j)'
      PROVE  j < i
  <2>1. Sent(j) /\ j \in Ids /\ j \in stack_wound
    BY <1>1, <1>3, <1>6, SameWire, Zenon
  <2>2. CASE u # t
    BY <1>2, <1>6, <2>1, <2>2, Zenon DEF Serial
  <2>3. CASE u = t
    <3>1. i \in Unsent /\ i \in Ids /\ i \notin stack_wound
      BY <1>2, <1>6, <2>3, Zenon DEF Unsent, TInv, TypeOK
    <3>2. ~ (i <= j)
      BY <2>1, <3>1, Zenon DEF Serial
    <3>3. i \in Int /\ j \in Int
      BY <2>1, <3>1 DEF Ids
    <3> QED
      BY <3>2, <3>3
  <2> QED
    BY <2>2, <2>3, Zenon
<1>7. ASSUME env.single, NEW u \in Threads, pc'[u] \in {"sync_all", "call"}
      PROVE  arg'[u].ids \subseteq stack_wound'
  <2>1. CASE u = t
    BY <1>3, <1>7, <2>1, Zenon
  <2>2. CASE u # t
    <3>1. arg[u].ids \subseteq stack_wound
      BY <1>7, <2>2, Zenon DEF Serial
    <3> QED
      BY <2>2, <3>1, Zenon
  <2> QED
    BY <2>1, <2>2, Zenon
<1>8. OrderKept'
  BY ZenonT(30) DEF Serial, OrderKept, SentInOrder, CallFollowsWrites, CallNeverOvertakes
<1> QED
  BY <1>4, <1>5, <1>6, <1>7, <1>8, Zenon DEF Serial

\* wb_process_queue, with and without flush_all.
LEMMA ProcessKeeps ==
  ASSUME QInv, NEW t \in Threads, Process(t) \/ WritevFlushAll(t)
  PROVE  Books'
<1> USE DEF QInv, Books
<1>1. PICK agg, next : /\ pc[t] \in {"flush_all", "process"} /\ next \in {"flush_unwind", "unwind"}
                       /\ agg = 0 \/ pc[t] = "process"
                       /\ ProcessQueue(t, agg, next)
                       /\ UNCHANGED <<env, status, acks, wire, told, arg, op_ret>>
  BY Zenon DEF Process, WritevFlushAll
<1> DEFINE q == CleanupQueue
           w == MarkWinds(q, agg)
           u == MarkUnwinds(q)
<1>2. /\ queue' = q /\ stack_wound' = stack_wound \cup w /\ write_behind' = write_behind \cup u
      /\ winds' = [winds EXCEPT ![t] = w] /\ unwinds' = [unwinds EXCEPT ![t] = u]
      /\ pc' = [pc EXCEPT ![t] = next] /\ UNCHANGED <<log, got_reply, frame_err>>
  BY <1>1, Zenon DEF ProcessQueue
<1>3. /\ DOMAIN winds = Threads /\ DOMAIN unwinds = Threads /\ DOMAIN pc = Threads
      /\ Poller \in Threads
  BY Zenon DEF TInv, TypeOK, Threads
<1>4. winds[t] = {} /\ unwinds[t] = {}
  BY <1>1, Zenon DEF Hands, Sending
<1>5. got_reply \subseteq stack_wound
  BY SentIsWound, Zenon
<1>6. q \subseteq queue /\ queue \ q \subseteq got_reply \cap write_behind /\ q \ stack_wound = Unsent
  BY <1>5, Zenon DEF CleanupQueue, Unsent
<1>7. \/ w = Unsent
      \/ w = {} /\ \E i \in q : i \in stack_wound /\ i \notin got_reply
  BY <1>6, Zenon DEF MarkWinds
<1>8. u \subseteq q /\ u \cap write_behind = {}
  BY Zenon DEF MarkUnwinds, MarkUnwindTill
<1> HIDE DEF q, w, u
<1>9. /\ pc'[t] = next /\ winds'[t] = w /\ unwinds'[t] = u
      /\ \A v \in Threads : v # t => /\ pc'[v] = pc[v] /\ winds'[v] = winds[v]
                                     /\ unwinds'[v] = unwinds[v] /\ arg'[v] = arg[v]
  BY <1>1, <1>2, <1>3, Zenon
<1>10. Accounts'
  <2>1. queue \ queue' \subseteq got_reply \cap write_behind /\ write_behind \subseteq write_behind'
        /\ (w = {} \/ w = Unsent)
    BY <1>2, <1>6, <1>7, Zenon
  <2> QED
    BY <1>1, <1>2, <1>4, <2>1, TakeAccounts, Zenon
<1>11. Serial'
  <2>1. (w = {} \/ w = Unsent) /\ pc[t] # "idle" /\ pc'[t] \notin {"sync_all", "call"}
    BY <1>1, <1>7, <1>9, Zenon
  <2> QED
    BY <1>1, <1>2, <1>4, <1>9, <2>1, TakeSerial, Zenon
<1>12. Frames'
  <2>1. /\ Ids' = Ids /\ \A i : Acknowledged(i)' <=> Acknowledged(i)
    BY <1>1, <1>2, Zenon DEF Ids, Acknowledged
  <2>2. \A i : Promised(i)' <=> Promised(i) \/ i \in u
    BY <1>4, <1>9, Zenon DEF Promised
  <2>3. /\ \A i : i \in write_behind' <=> Acknowledged(i)' \/ Promised(i)'
        /\ \A i : Promised(i)' => ~ Acknowledged(i)'
    BY <1>2, <1>8, <2>1, <2>2, Zenon DEF Frames
  <2>4. ASSUME NEW v \in Threads, NEW x \in Threads, v # x PROVE unwinds'[v] \cap unwinds'[x] = {}
    <3>1. \A y \in Threads : unwinds[y] \cap u = {}
      BY <1>8, Zenon DEF Frames, Promised
    <3>2. unwinds[v] \cap unwinds[x] = {}
      BY <2>4, Zenon DEF Frames
    <3> QED
      BY <1>9, <2>4, <3>1, <3>2, Zenon
  <2>5. Failed' = Failed
    BY <1>1, SameWire, Zenon
  <2>6. AckedOnceAndTruthfully'
    BY <1>1, <2>1, <2>5, Zenon DEF Frames, AckedOnceAndTruthfully
  <2> QED
    BY <1>2, <2>3, <2>4, <2>5, <2>6, Zenon DEF Frames
<1>13. Hands'
  <2>1. /\ \A v \in Threads : pc'[v] \notin Sending => winds'[v] = {}
        /\ \A v \in Threads : pc'[v] \notin {"flush_unwind", "unwind"} => unwinds'[v] = {}
    BY <1>1, <1>9, Zenon DEF Hands, Sending
  <2>2. Unsent' = {} \/ \E i \in queue' : i \in stack_wound' /\ i \notin got_reply'
    <3>1. CASE w = Unsent
      BY <1>2, <1>6, <3>1, Zenon DEF Unsent
    <3>2. CASE \E i \in q : i \in stack_wound /\ i \notin got_reply
      BY <1>2, <3>2, Zenon
    <3> QED
      BY <1>7, <3>1, <3>2, Zenon
  <2>3. status' # "released"
    BY <1>1, Zenon DEF Hands
  <2> QED
    BY <2>1, <2>2, <2>3, Zenon DEF Hands
<1>14. Errors'
  <2>1. Failed' = Failed
    BY <1>1, SameWire, Zenon
  <2>2. pc[t] # "sync_ret" /\ pc'[t] \notin {"sync_all", "call"}
    BY <1>1, <1>9, Zenon
  <2>3. \A n \in DOMAIN wire' : wire'[n].op = "bg_flush" => env.flush_behind
    BY <1>1, Zenon DEF Errors
  <2> QED
    BY <1>1, <1>2, <1>3, <1>9, <2>1, <2>2, <2>3, ErrorsMove, Zenon
<1> QED
  BY <1>10, <1>11, <1>12, <1>13, <1>14, Zenon

\* wb_sync_all takes every unsent request.
LEMMA SyncAllKeeps ==
  ASSUME QInv, NEW t \in Callers, NEW op \in Calls, SyncAll(t, op)
  PROVE  Books'
<1> USE DEF QInv, Books
<1> DEFINE w == MarkWinds(queue, SyncAllSize)
           a == [op |-> IF FlushesBehind(op) THEN "bg_flush" ELSE op, ids |-> Ids]
<1>1. /\ stack_wound' = stack_wound \cup w /\ winds' = [winds EXCEPT ![t] = w]
      /\ arg' = [arg EXCEPT ![t] = a] /\ pc' = [pc EXCEPT ![t] = "sync_all"]
      /\ told \subseteq told' /\ Enters(t) /\ status = "open"
      /\ UNCHANGED <<env, status, op_ret, log, queue, write_behind, got_reply, frame_err, acks,
                     wire, unwinds>>
  BY Zenon DEF SyncAll, Goto, Deliver
<1>2. w = Unsent
  BY Zenon DEF MarkWinds, SyncAllSize, Unsent
<1>3. a.ids = Ids /\ (a.op = "bg_flush" => env.flush_behind)
  BY Zenon DEF FlushesBehind, Calls
<1> HIDE DEF w, a
<1>4. /\ t \in Threads /\ Poller \in Threads
      /\ DOMAIN winds = Threads /\ DOMAIN arg = Threads /\ DOMAIN pc = Threads
  BY Zenon DEF TInv, TypeOK, ArgsTyped, Threads
<1>5. /\ pc'[t] = "sync_all" /\ winds'[t] = w /\ arg'[t] = a /\ unwinds'[t] = unwinds[t]
      /\ \A v \in Threads : v # t => /\ pc'[v] = pc[v] /\ winds'[v] = winds[v]
                                     /\ unwinds'[v] = unwinds[v] /\ arg'[v] = arg[v]
  BY <1>1, <1>4, Zenon
<1>6. pc[t] = "idle" /\ winds[t] = {} /\ unwinds[t] = {}
  BY <1>1, <1>4, Zenon DEF Enters, Hands, Sending
<1>7. Accounts'
  <2>1. queue \ queue' \subseteq got_reply \cap write_behind /\ write_behind \subseteq write_behind'
    BY <1>1, Zenon
  <2> QED
    BY <1>1, <1>2, <1>4, <1>6, <2>1, TakeAccounts, Zenon
<1>8. Serial'
  BY <1>1, <1>2, <1>3, <1>4, <1>5, <1>6, TakeSerial, Zenon
<1>9. Frames' /\ Failed' = Failed
  <2>1. Failed' = Failed
    BY <1>1, SameWire, Zenon
  <2> QED
    BY <1>1, <2>1, FramesSame, Zenon
<1>10. Hands'
  <2>1. /\ \A v \in Threads : pc'[v] \notin Sending => winds'[v] = {}
        /\ \A v \in Threads : pc'[v] \notin {"flush_unwind", "unwind"} => unwinds'[v] = {}
    BY <1>5, <1>6, Zenon DEF Hands, Sending
  <2>2. Unsent' = {}
    BY <1>1, <1>2, Zenon DEF Unsent
  <2> QED
    BY <1>1, <2>1, <2>2, Zenon DEF Hands
<1>11. Errors'
  <2>1. \A n \in DOMAIN wire' : wire'[n].op = "bg_flush" => env.flush_behind
    BY <1>1, Zenon DEF Errors
  <2>2. pc[t] # "sync_ret"
    BY <1>6, Zenon
  <2> QED
    BY <1>1, <1>3, <1>4, <1>5, <1>9, <2>1, <2>2, ErrorsMove, Zenon
<1> QED
  BY <1>7, <1>8, <1>9, <1>10, <1>11, Zenon

\* wb_sync sends the next batch of what its thread has taken.
LEMMA BatchKeeps ==
  ASSUME QInv, NEW t \in Threads, NEW from \in {"flush_sync", "sync_all", "sync"}, NEW next,
         Sync(t, from, next), winds[t] # {}
  PROVE  Books'
<1> USE DEF QInv, Books
<1> DEFINE b == Batch(winds[t])
           m == Call("writev", b, log[Min(b)].off)
<1>1. /\ pc[t] = from /\ wire' = Append(wire, m) /\ winds' = [winds EXCEPT ![t] = winds[t] \ b]
      /\ UNCHANGED <<env, status, op_ret, log, queue, stack_wound, write_behind, got_reply,
                     frame_err, acks, told, unwinds, arg, pc>>
  BY Zenon DEF Sync, reqs
<1>2. /\ Len(log) \in Nat /\ winds[t] \in SUBSET (1 .. Len(log))
      /\ log \in Seq([off : Nat, len : Nat]) /\ wire \in Seq(Message)
      /\ DOMAIN winds = Threads /\ DOMAIN pc = Threads /\ Poller \in Threads
  BY DEF TInv, TypeOK, Ids, Threads
<1>3. /\ b \subseteq winds[t] /\ b # {} /\ b \subseteq 1 .. Len(log)
      /\ \A i \in winds[t], j \in b : i <= j => i \in b
  BY <1>2, BatchIsPrefix, Zenon
<1>4. m \in Message /\ m.op = "writev" /\ m.ids = b /\ m.reply = "none"
  <2> HIDE DEF b
  <2>1. \A n \in Nat : 1 .. n \subseteq Nat
    OBVIOUS
  <2>2. b \in SUBSET Nat
    BY <1>2, <1>3, <2>1, Zenon
  <2>3. Min(b) \in 1 .. Len(log)
    BY <1>3, <2>2, MinIsLeast, Zenon
  <2> HIDE DEF Min
  <2>4. log[Min(b)] \in [off : Nat, len : Nat]
    BY <1>2, <2>3, ElementOfSeq, Zenon
  <2> QED
    BY <1>3, <2>4, Zenon DEF Call, Message, Ids
<1> HIDE DEF b, m
<1>5. /\ \A n, i : Carries(n, i)' <=> Carries(n, i) \/ (n = Len(wire) + 1 /\ i \in b)
      /\ \A i : (Sent(i)' <=> Sent(i) \/ i \in b) /\ (Replied(i)' <=> Replied(i))
      /\ Failed' = Failed /\ Len(wire) + 1 \notin DOMAIN wire
      /\ DOMAIN wire' = 1 .. Len(wire) + 1 /\ DOMAIN wire = 1 .. Len(wire) /\ Len(wire) \in Nat
      /\ wire'[Len(wire) + 1] = m /\ \A n \in DOMAIN wire : wire'[n] = wire[n]
  BY <1>1, <1>2, <1>4, AppendedWire, Zenon
<1>6. winds'[t] = winds[t] \ b /\ \A u \in Threads : u # t => winds'[u] = winds[u]
  BY <1>1, <1>2, Zenon
<1>7. /\ Ids' = Ids
      /\ \A i \in b : Taken(i) /\ ~ Sent(i)
      /\ \A u \in Threads : u # t => winds[u] \cap b = {}
  <2>1. \A i \in b : Taken(i) /\ ~ Sent(i)
    BY <1>3, Zenon DEF Taken, Accounts
  <2>2. \A u \in Threads : u # t => winds[u] \cap winds[t] = {}
    BY Zenon DEF Accounts
  <2> QED
    BY <1>1, <1>3, <2>1, <2>2, Zenon DEF Ids
<1>8. \A i : Taken(i)' <=> Taken(i) /\ i \notin b
  BY <1>6, <1>7, Zenon DEF Taken
<1>9. Accounts'
  <2>1. ASSUME NEW x, NEW y, NEW i, Carries(x, i)', Carries(y, i)' PROVE x = y
    <3>1. \A n : Carries(n, i) => Sent(i)
      BY Zenon DEF Sent, Carries
    <3>2. Carries(x, i) /\ Carries(y, i) => x = y
      BY Zenon DEF Accounts
    <3>3. (Carries(x, i) \/ (x = Len(wire) + 1 /\ i \in b)) /\ (Carries(y, i) \/ (y = Len(wire) + 1 /\ i \in b))
      BY <1>5, <2>1, Zenon
    <3>4. i \in b => ~ Sent(i)
      BY <1>7, Zenon
    <3> QED
      BY <3>1, <3>2, <3>3, <3>4, Zenon
  <2>2. /\ \A i : Taken(i)' => ~ Sent(i)'
        /\ \A i : i \in stack_wound' <=> Taken(i)' \/ Sent(i)'
        /\ \A i : i \in got_reply' <=> Replied(i)'
    BY <1>1, <1>5, <1>7, <1>8, Zenon DEF Accounts
  <2>3. ASSUME NEW u \in Threads, NEW v \in Threads, u # v PROVE winds'[u] \cap winds'[v] = {}
    <3>1. winds[u] \cap winds[v] = {}
      BY <2>3, Zenon DEF Accounts
    <3> QED
      BY <1>6, <3>1, Zenon
  <2>4. Ids' \ queue' \subseteq got_reply' \cap write_behind'
    BY <1>1, <1>7, Zenon DEF Accounts
  <2> QED
    BY <2>1, <2>2, <2>3, <2>4, Zenon DEF Accounts
<1>10. Frames'
  BY <1>1, <1>5, FramesSame, Zenon
<1>11. Hands'
  <2>1. /\ pc[t] \in Sending /\ status' # "released"
        /\ pc[t] \notin {"flush_unwind", "unwind"} /\ unwinds[t] = {}
    BY <1>1, Zenon DEF Hands, Sending
  <2> QED
    BY <1>1, <1>6, <2>1, HandsMove, ZenonT(30)
<1>12. Serial'
  <2>1. ASSUME env.single, NEW i, Sent(i), NEW j \in winds[t] PROVE i < j
    <3>1. i \in Ids
      BY <2>1, SentIsWound, Zenon
    <3> QED
      BY <2>1, <3>1, Zenon DEF Serial
  <2>2. OrderKept'
    <3>1. OrderKept
      BY Zenon DEF Serial
    <3>2. env.single => \A i : Sent(i) => \A j \in m.ids : i < j
      BY <1>3, <1>4, <2>1, Zenon
    <3> QED
      BY <1>1, <1>2, <1>4, <3>1, <3>2, OrderAppended, Zenon
  <2>3. ASSUME env.single, NEW u \in Threads, NEW i \in winds'[u], NEW j \in Ids', Sent(j)'
        PROVE  j < i
    <3>1. u = t /\ i \in winds[t] /\ i \notin b
      <4>1. pc[t] # "idle" /\ (pc[u] = "idle" => winds[u] = {})
        BY <1>1, Zenon DEF Hands, Sending
      <4> QED
        BY <1>6, <2>3, <4>1, Zenon DEF Serial
    <3>2. CASE Sent(j)
      BY <2>1, <2>3, <3>1, <3>2, Zenon
    <3>3. CASE j \in b
      <4>1. ~ (i <= j)
        BY <1>3, <3>1, <3>3, Zenon
      <4>2. i \in 1 .. Len(log) /\ j \in 1 .. Len(log)
        BY <1>2, <1>3, <3>1, <3>3, Zenon
      <4> QED
        BY <1>2, <4>1, <4>2, SMTT(30)
    <3> QED
      BY <1>5, <2>3, <3>2, <3>3, Zenon
  <2> QED
    <3>1. \A i \in stack_wound' : \A j \in Ids' : j <= i => j \in stack_wound'
      BY <1>1, <1>7, Zenon DEF Serial
    <3>2. env.single =>
            /\ \A u, v \in Threads : pc'[u] # "idle" /\ pc'[v] # "idle" => u = v
            /\ \A u \in Threads : pc'[u] \in {"sync_all", "call"} => arg'[u].ids \subseteq stack_wound'
      BY <1>1, Zenon DEF Serial
    <3> QED
      BY <1>1, <2>2, <2>3, <3>1, <3>2, Zenon DEF Serial
<1>13. Errors'
  <2>1. \A n \in DOMAIN wire' : wire'[n].op = "bg_flush" => env.flush_behind
    <3>1. \A n \in DOMAIN wire' : n \in DOMAIN wire \/ n = Len(wire) + 1
      BY <1>5
    <3>2. m.op # "bg_flush"
      BY <1>4, Zenon
    <3> QED
      BY <1>5, <3>1, <3>2, Zenon DEF Errors
  <2>2. pc[t] # "sync_ret" /\ (pc[t] \in {"sync_all", "call"} /\ arg[t].op = "bg_flush" => env.flush_behind)
    BY <1>1, Zenon DEF Errors
  <2> QED
    BY <1>1, <1>2, <1>5, <2>1, <2>2, ErrorsMove, Zenon
<1> QED
  BY <1>9, <1>10, <1>11, <1>12, <1>13, ZenonT(30)

\* wb_stack_unwind answers the frames its thread promised to answer, once.
LEMMA UnwindKeeps ==
  ASSUME QInv, NEW t \in Threads,
         StackUnwind(t, "flush_unwind", "flush_sync") \/ StackUnwind(t, "unwind", "sync")
  PROVE  Books'
<1> USE DEF QInv, Books
<1> DEFINE U == unwinds[t]
<1>1. PICK next : /\ next \in {"flush_sync", "sync"} /\ pc[t] \in {"flush_unwind", "unwind"}
                  /\ pc' = [pc EXCEPT ![t] = next]
                  /\ acks' = [i \in DOMAIN acks |-> IF i \in U
                                THEN Append(acks[i], i \notin frame_err) ELSE acks[i]]
                  /\ told' = told \cup (U \cap frame_err)
                  /\ unwinds' = [unwinds EXCEPT ![t] = {}]
                  /\ UNCHANGED <<env, status, op_ret, log, queue, stack_wound, write_behind,
                                 got_reply, frame_err, wire, winds, arg>>
  BY Zenon DEF StackUnwind, Goto, reqs
<1>2. /\ DOMAIN acks = Ids /\ DOMAIN unwinds = Threads /\ DOMAIN pc = Threads /\ Poller \in Threads
      /\ U \subseteq Ids /\ frame_err \subseteq Ids /\ wire \in Seq(Message) /\ Ids' = Ids
  <2>1. acks \in Seq(Seq(BOOLEAN)) /\ Len(acks) = Len(log)
    BY Zenon DEF TInv, TypeOK
  <2>2. DOMAIN acks = Ids
    BY <2>1 DEF Ids
  <2> QED
    BY <1>1, <2>2, Zenon DEF TInv, TypeOK, Ids, Threads
<1>3. /\ pc'[t] = next /\ unwinds'[t] = {}
      /\ \A u \in Threads : u # t => pc'[u] = pc[u] /\ unwinds'[u] = unwinds[u]
  BY <1>1, <1>2, Zenon
<1>4. \A i \in Ids : (i \in U => acks[i] = <<>>) /\ (i \notin U => acks'[i] = acks[i])
  <2>1. \A i \in U : i \in Ids /\ ~ Acknowledged(i)
    BY <1>2, Zenon DEF Frames, Promised
  <2> QED
    BY <1>1, <1>2, <2>1, Zenon DEF Acknowledged
<1>5. ASSUME NEW i \in U
      PROVE  acks'[i] # <<>> /\ Len(acks'[i]) = 1 /\ (~ acks'[i][1] => i \in frame_err)
  <2>1. acks'[i] = Append(<<>>, i \notin frame_err)
    BY <1>1, <1>2, <1>4, Zenon
  <2>2. \A x \in BOOLEAN : /\ Append(<<>>, x) = <<x>> /\ <<x>> # <<>> /\ Len(<<x>>) = 1
                           /\ <<x>>[1] = x
    OBVIOUS
  <2>3. (i \notin frame_err) \in BOOLEAN
    BY Zenon
  <2>4. /\ Append(<<>>, i \notin frame_err) = <<i \notin frame_err>>
        /\ <<i \notin frame_err>> # <<>> /\ Len(<<i \notin frame_err>>) = 1
        /\ <<i \notin frame_err>>[1] = (i \notin frame_err)
    BY <2>2, <2>3, Zenon
  <2> QED
    BY <2>1, <2>4, Zenon
<1>6. Failed' = Failed /\ \A n, i : Carries(n, i)' <=> Carries(n, i)
  BY <1>1, SameWire, Zenon
<1>7. Accounts'
  BY <1>1, SameWire, AccountsSame, Zenon
<1>8. Frames'
  <2>1. \A i : Acknowledged(i)' <=> Acknowledged(i) \/ i \in U
    BY <1>2, <1>4, <1>5, Zenon DEF Acknowledged
  <2>2. \A i : Promised(i)' <=> Promised(i) /\ i \notin U
    BY <1>3, Zenon DEF Promised, Frames
  <2>3. /\ \A i : i \in write_behind' <=> Acknowledged(i)' \/ Promised(i)'
        /\ \A i : Promised(i)' => ~ Acknowledged(i)'
    <3>1. \A i \in U : Promised(i)
      BY Zenon DEF Promised
    <3> QED
      BY <1>1, <2>1, <2>2, <3>1, Zenon DEF Frames
  <2>4. ASSUME NEW u \in Threads, NEW v \in Threads, u # v PROVE unwinds'[u] \cap unwinds'[v] = {}
    <3>1. unwinds[u] \cap unwinds[v] = {}
      BY <2>4, Zenon DEF Frames
    <3> QED
      BY <1>3, <3>1, Zenon
  <2>5. AckedOnceAndTruthfully'
    <3>1. SUFFICES ASSUME NEW i \in Ids, acks'[i] # <<>>
                   PROVE  Len(acks'[i]) = 1 /\ (~ acks'[i][1] => i \in Failed)
      BY <1>2, <1>6, Zenon DEF AckedOnceAndTruthfully
    <3>2. CASE i \in U
      BY <1>5, <3>2, Zenon DEF Frames
    <3>3. CASE i \notin U
      BY <1>4, <3>1, <3>3, Zenon DEF Frames, AckedOnceAndTruthfully
    <3> QED
      BY <3>2, <3>3, Zenon
  <2> QED
    BY <1>1, <1>6, <2>3, <2>4, <2>5, Zenon DEF Frames
<1>9. Hands'
  <2>1. pc'[t] \in Sending /\ status' # "released" /\ pc[t] \notin {"process", "sync_ret"}
    BY <1>1, <1>3, Zenon DEF Sending, Hands
  <2> QED
    BY <1>1, <1>3, <2>1, HandsMove, Zenon
<1>10. Serial'
  <2>1. OrderKept'
    BY <1>1, Zenon DEF Serial, OrderKept, SentInOrder, CallFollowsWrites, CallNeverOvertakes
  <2>2. pc[t] # "idle" /\ pc'[t] \notin {"sync_all", "call"}
    BY <1>1, <1>3, Zenon
  <2> QED
    BY <1>1, <1>3, <2>1, <2>2, SameWire, SerialMove, Zenon
<1>11. Errors'
  <2>1. \A n \in DOMAIN wire' : wire'[n].op = "bg_flush" => env.flush_behind
    BY <1>1, Zenon DEF Errors
  <2>2. pc[t] # "sync_ret" /\ pc'[t] \notin {"sync_all", "call"}
    BY <1>1, <1>3, Zenon
  <2>3. \A i \in Failed \ told' :
          i \in frame_err /\ acks[i] = <<>> => i \in frame_err' /\ acks'[i] = <<>>
    BY <1>1, <1>2, <1>4, Zenon
  <2> QED
    BY <1>1, <1>2, <1>3, <1>6, <2>1, <2>2, <2>3, ErrorsMove, Zenon
<1> QED
  BY <1>7, <1>8, <1>9, <1>10, <1>11, Zenon

\* wb_enqueue adds a request that nobody has marked.
LEMMA EnqueueKeeps ==
  ASSUME QInv, NEW t \in Threads, Enqueue(t)
  PROVE  Books'
<1> USE DEF QInv, Books
<1> DEFINE k == Len(log) + 1
           r == [off |-> arg[t].off, len |-> arg[t].len]
<1>1. /\ pc[t] = "enqueue" /\ log' = Append(log, r) /\ acks' = Append(acks, <<>>)
      /\ queue' = queue \cup {k} /\ pc' = [pc EXCEPT ![t] = "process"]
      /\ arg' = [arg EXCEPT ![t] = NoArg]
      /\ UNCHANGED <<env, status, op_ret, stack_wound, write_behind, got_reply, frame_err, wire,
                     told, winds, unwinds>>
  BY Zenon DEF Enqueue, Goto
<1>2. /\ Len(log) \in Nat /\ log \in Seq([off : Nat, len : Nat])
      /\ acks \in Seq(Seq(BOOLEAN)) /\ Len(acks) = Len(log) /\ wire \in Seq(Message)
      /\ DOMAIN arg = Threads /\ DOMAIN pc = Threads /\ Poller \in Threads
      /\ stack_wound \subseteq Ids
  BY SMTT(30) DEF TInv, TypeOK, ArgsTyped, Threads
<1>3. r \in [off : Nat, len : Nat]
  <2>1. arg[t] \in WriteArg
    BY <1>1, Zenon DEF TInv, ArgsTyped
  <2> QED
    BY <2>1, Zenon DEF WriteArg
<1> HIDE DEF r
<1>4. Ids' = Ids \cup {k} /\ k \notin Ids /\ \A i \in Ids : i \in Int /\ i < k
  <2>1. Len(log') = k
    <3>1. Len(Append(log, r)) = Len(log) + 1
      BY <1>2, <1>3, AppendProperties
    <3> QED
      BY <1>1, <3>1, Zenon
  <2>2. \A n \in Nat : 1 .. n + 1 = 1 .. n \cup {n + 1} /\ n + 1 \notin 1 .. n
                       /\ \A i \in 1 .. n : i \in Int /\ i < n + 1
    OBVIOUS
  <2> QED
    BY <1>2, <2>1, <2>2, Zenon DEF Ids
<1>5. acks'[k] = <<>> /\ \A i \in Ids : acks'[i] = acks[i]
  <2>1. <<>> \in Seq(BOOLEAN)
    OBVIOUS
  <2>2. Append(acks, <<>>)[Len(acks) + 1] = <<>>
        /\ \A i \in 1 .. Len(acks) : Append(acks, <<>>)[i] = acks[i]
    BY <1>2, <2>1, AppendProperties
  <2> QED
    BY <1>1, <1>2, <2>2, Zenon DEF Ids
<1> HIDE DEF k
<1>6. /\ pc'[t] = "process" /\ arg'[t] = NoArg
      /\ \A u \in Threads : u # t => pc'[u] = pc[u] /\ arg'[u] = arg[u]
  BY <1>1, <1>2, Zenon
<1>7. /\ Failed' = Failed /\ \A n, i : Carries(n, i)' <=> Carries(n, i)
      /\ \A i : (Sent(i)' <=> Sent(i)) /\ (Replied(i)' <=> Replied(i))
  BY <1>1, SameWire, Zenon
<1>8. Accounts'
  <2>1. \A i : Taken(i)' <=> Taken(i)
    BY <1>1, Zenon DEF Taken
  <2>2. Ids' \ queue' \subseteq got_reply' \cap write_behind'
    BY <1>1, <1>4, Zenon DEF Accounts
  <2>3. /\ \A m, n : \A i : Carries(m, i)' /\ Carries(n, i)' => m = n
        /\ \A i : Taken(i)' => ~ Sent(i)'
        /\ \A i : i \in stack_wound' <=> Taken(i)' \/ Sent(i)'
        /\ \A i : i \in got_reply' <=> Replied(i)'
    BY <1>1, <1>7, <2>1, Zenon DEF Accounts
  <2> QED
    BY <1>1, <2>2, <2>3, Zenon DEF Accounts
<1>9. Frames'
  <2>1. \A i : (Acknowledged(i)' <=> Acknowledged(i)) /\ (Promised(i)' <=> Promised(i))
    BY <1>1, <1>4, <1>5, Zenon DEF Acknowledged, Promised
  <2>2. AckedOnceAndTruthfully'
    BY <1>4, <1>5, <1>7, Zenon DEF Frames, AckedOnceAndTruthfully
  <2> QED
    BY <1>1, <1>7, <2>1, <2>2, Zenon DEF Frames
<1>10. Hands'
  <2>1. /\ \A u \in Threads : pc'[u] \notin Sending => winds'[u] = {}
        /\ \A u \in Threads : pc'[u] \notin {"flush_unwind", "unwind"} => unwinds'[u] = {}
    BY <1>1, <1>6, Zenon DEF Hands, Sending
  <2>2. status' # "released"
    BY <1>1, Zenon DEF Hands
  <2> QED
    BY <1>6, <2>1, <2>2, Zenon DEF Hands
<1>11. Serial'
  <2>1. OrderKept'
    BY <1>1, Zenon DEF Serial, OrderKept, SentInOrder, CallFollowsWrites, CallNeverOvertakes
  <2>2. ASSUME NEW i \in stack_wound', NEW j \in Ids', j <= i PROVE j \in stack_wound'
    <3>1. i \in Ids /\ i \in stack_wound
      BY <1>1, <1>2, Zenon
    <3>2. j \in Ids
      <4>1. j # k
        BY <1>4, <2>2, <3>1 DEF Ids, k
      <4> QED
        BY <1>4, <4>1, Zenon
    <3> QED
      BY <1>1, <2>2, <3>1, <3>2, Zenon DEF Serial
  <2>3. ASSUME env.single, NEW u \in Threads, NEW i \in winds'[u], NEW j \in Ids', Sent(j)'
        PROVE  j < i
    <3>1. Sent(j) /\ j \in Ids
      BY <1>7, <2>3, SentIsWound, Zenon
    <3> QED
      BY <1>1, <2>3, <3>1, Zenon DEF Serial
  <2>4. env.single =>
          /\ \A u, v \in Threads : pc'[u] # "idle" /\ pc'[v] # "idle" => u = v
          /\ \A u \in Threads : pc'[u] \in {"sync_all", "call"} => arg'[u].ids \subseteq stack_wound'
    <3>1. \A u \in Threads : pc'[u] # "idle" => pc[u] # "idle"
      <4>1. pc[t] # "idle"
        BY <1>1, Zenon
      <4> QED
        BY <1>6, <4>1, Zenon
    <3>2. \A u \in Threads : pc'[u] \in {"sync_all", "call"} => u # t
      BY <1>6, Zenon
    <3> QED
      BY <1>1, <1>6, <3>1, <3>2, ZenonT(30) DEF Serial
  <2> QED
    BY <1>1, <2>1, <2>2, <2>3, <2>4, Zenon DEF Serial
<1>12. Errors'
  <2>1. \A n \in DOMAIN wire' : wire'[n].op = "bg_flush" => env.flush_behind
    BY <1>1, Zenon DEF Errors
  <2>2. pc[t] # "sync_ret" /\ pc'[t] \notin {"sync_all", "call"}
    BY <1>1, <1>6, Zenon
  <2>3. \A i \in Failed \ told' :
          i \in frame_err /\ acks[i] = <<>> => i \in frame_err' /\ acks'[i] = <<>>
    <3>1. frame_err \subseteq Ids
      BY Zenon DEF TInv, TypeOK
    <3> QED
      BY <1>1, <1>5, <3>1, Zenon
  <2> QED
    BY <1>1, <1>2, <1>6, <1>7, <2>1, <2>2, <2>3, ErrorsMove, Zenon
<1> QED
  BY <1>8, <1>9, <1>10, <1>11, <1>12, ZenonT(30)

\* wb_sync_cbk, under the lock: the reply marks the requests of its call.
LEMMA SyncCbkKeeps ==
  ASSUME QInv, NEW n \in DOMAIN wire, NEW r \in {"ok", "err"}, SyncCbk(n, r)
  PROVE  Books'
<1> USE DEF QInv, Books
<1>1. /\ Enters(Poller) /\ n \in InFlight /\ wire[n].op = "writev" /\ Answer(n, r)
      /\ got_reply' = got_reply \cup wire[n].ids
      /\ frame_err' = IF r = "err" THEN frame_err \cup (wire[n].ids \ write_behind) ELSE frame_err
      /\ arg' = [arg EXCEPT ![Poller] = [op |-> r]] /\ pc' = [pc EXCEPT ![Poller] = "sync_ret"]
      /\ UNCHANGED <<env, status, op_ret, log, queue, stack_wound, write_behind, acks, told, winds,
                     unwinds>>
  BY Zenon DEF SyncCbk, Answerable, Goto
<1>2. /\ DOMAIN arg = Threads /\ DOMAIN pc = Threads /\ Poller \in Threads
      /\ wire \in Seq(Message)
  BY Zenon DEF TInv, TypeOK, ArgsTyped, Threads
<1>3. /\ DOMAIN wire' = DOMAIN wire
      /\ \A k \in DOMAIN wire : wire'[k].op = wire[k].op /\ wire'[k].ids = wire[k].ids
      /\ \A k, i : Carries(k, i)' <=> Carries(k, i)
      /\ \A i : /\ Sent(i)' <=> Sent(i)
                /\ Replied(i)' <=> Replied(i) \/ Carries(n, i)
                /\ i \in Failed' <=> i \in Failed \/ (r = "err" /\ Carries(n, i))
  BY <1>1, <1>2, AnsweredWire, Zenon
<1>4. \A i : Carries(n, i) <=> i \in wire[n].ids
  BY <1>1, Zenon DEF Carries
<1>5. /\ pc[Poller] = "idle" /\ pc'[Poller] = "sync_ret" /\ arg'[Poller] = [op |-> r]
      /\ \A u \in Threads : u # Poller => pc'[u] = pc[u] /\ arg'[u] = arg[u]
  BY <1>1, <1>2, Zenon DEF Enters
<1>6. Ids' = Ids /\ \A i : Taken(i)' <=> Taken(i)
  BY <1>1, Zenon DEF Ids, Taken
<1>7. Accounts'
  <2>1. /\ \A m, k : \A i : Carries(m, i)' /\ Carries(k, i)' => m = k
        /\ \A i : Taken(i)' => ~ Sent(i)'
        /\ \A i : i \in stack_wound' <=> Taken(i)' \/ Sent(i)'
    BY <1>1, <1>3, <1>6, Zenon DEF Accounts
  <2>2. \A i : i \in got_reply' <=> Replied(i)'
    BY <1>1, <1>3, <1>4, Zenon DEF Accounts
  <2>3. Ids' \ queue' \subseteq got_reply' \cap write_behind'
    BY <1>1, <1>6, Zenon DEF Accounts
  <2> QED
    BY <1>1, <2>1, <2>2, <2>3, Zenon DEF Accounts
<1>8. Frames'
  <2>1. \A i : (Acknowledged(i)' <=> Acknowledged(i)) /\ (Promised(i)' <=> Promised(i))
    BY <1>1, <1>6, Zenon DEF Acknowledged, Promised
  <2>2. frame_err' \subseteq Failed'
    BY <1>1, <1>3, <1>4, Zenon DEF Frames
  <2>3. AckedOnceAndTruthfully'
    BY <1>1, <1>3, <1>6, Zenon DEF Frames, AckedOnceAndTruthfully
  <2> QED
    BY <1>1, <2>1, <2>2, <2>3, Zenon DEF Frames
<1>9. Hands'
  <2>1. status' # "released"
    BY <1>1, Zenon DEF Hands
  <2>2. winds[Poller] = {} /\ unwinds[Poller] = {}
    BY <1>2, <1>5, Zenon DEF Hands, Sending
  <2>3. /\ \A u \in Threads : pc'[u] \notin Sending => winds'[u] = {}
        /\ \A u \in Threads : pc'[u] \notin {"flush_unwind", "unwind"} => unwinds'[u] = {}
    BY <1>1, <1>5, <2>2, Zenon DEF Hands
  <2> QED
    BY <1>2, <1>5, <2>1, <2>3, ZenonT(30) DEF Hands
<1>10. Serial'
  <2>1. OrderKept'
    BY <1>1, <1>2, <1>3, OrderSame, ZenonT(30) DEF Serial
  <2>2. pc'[Poller] \notin {"sync_all", "call"}
    BY <1>5, Zenon
  <2> QED
    BY <1>1, <1>2, <1>3, <1>5, <2>1, <2>2, SerialMove, Zenon
<1>11. Errors'
  <2>1. \A k \in DOMAIN wire' : wire'[k].op = "bg_flush" => env'.flush_behind
    BY <1>1, <1>3, Zenon DEF Errors
  <2>2. \A u \in Threads :
          pc'[u] \in {"sync_all", "call"} /\ arg'[u].op = "bg_flush" => env'.flush_behind
    <3>1. pc'[Poller] \notin {"sync_all", "call"}
      BY <1>5, Zenon
    <3> QED
      BY <1>1, <1>5, <3>1, Zenon DEF Errors
  <2>3. ErrorKept'
    <3>1. SUFFICES ASSUME ~ env.flush_behind, NEW i \in Failed', i \notin told
                   PROVE  \/ op_ret = -1
                          \/ pc'[Poller] = "sync_ret" /\ arg'[Poller].op = "err"
                          \/ i \in frame_err' /\ acks[i] = <<>>
      BY <1>1, ZenonT(30) DEF ErrorKept
    <3>2. CASE r = "err"
      BY <1>5, <3>2
    <3>3. CASE i \in Failed
      <4>1. pc[Poller] # "sync_ret"
        BY <1>5, Zenon
      <4>2. op_ret = -1 \/ (i \in frame_err /\ acks[i] = <<>>)
        BY <3>1, <3>3, <4>1, Zenon DEF Errors, ErrorKept
      <4> QED
        BY <1>1, <4>2, ZenonT(30)
    <3> QED
      BY <1>3, <3>2, <3>3, Zenon
  <2> QED
    BY <2>1, <2>2, <2>3, Zenon DEF Errors
<1> QED
  BY <1>7, <1>8, <1>9, <1>10, <1>11, Zenon

\* wb_sync_cbk, after the lock: the error reaches file->op_ret.
LEMMA SyncCbkRetKeeps ==
  ASSUME QInv, SyncCbkRet
  PROVE  Books'
<1> USE DEF QInv, Books
<1>1. /\ pc[Poller] = "sync_ret" /\ op_ret' = RememberedRet(arg[Poller].op)
      /\ arg' = [arg EXCEPT ![Poller] = NoArg] /\ pc' = [pc EXCEPT ![Poller] = "process"]
      /\ UNCHANGED <<env, status, log, queue, stack_wound, write_behind, got_reply, frame_err,
                     acks, wire, told, winds, unwinds>>
  BY Zenon DEF SyncCbkRet, Goto, reqs
<1>2. /\ DOMAIN arg = Threads /\ DOMAIN pc = Threads /\ Poller \in Threads
      /\ wire \in Seq(Message)
  BY Zenon DEF TInv, TypeOK, ArgsTyped, Threads
<1>3. /\ pc'[Poller] = "process"
      /\ \A u \in Threads : u # Poller => pc'[u] = pc[u] /\ arg'[u] = arg[u]
  BY <1>1, <1>2, Zenon
<1>4. Failed' = Failed
  BY <1>1, SameWire, Zenon
<1>5. Accounts' /\ Frames'
  BY <1>1, <1>4, SameWire, AccountsSame, FramesSame, Zenon
<1>6. Hands'
  <2>1. status' # "released" /\ winds[Poller] = {} /\ unwinds[Poller] = {}
    BY <1>1, <1>2, Zenon DEF Hands, Sending
  <2> QED
    BY <1>1, <1>2, <1>3, <2>1, HandsMove, Zenon
<1>7. Serial'
  <2>1. OrderKept'
    BY <1>1, Zenon DEF Serial, OrderKept, SentInOrder, CallFollowsWrites, CallNeverOvertakes
  <2>2. pc'[Poller] \notin {"sync_all", "call"} /\ pc[Poller] # "idle"
    BY <1>1, <1>3, Zenon
  <2> QED
    BY <1>1, <1>2, <1>3, <2>1, <2>2, SameWire, SerialMove, Zenon
<1>8. Errors'
  <2>1. \A u \in Threads :
          pc'[u] \in {"sync_all", "call"} /\ arg'[u].op = "bg_flush" => env'.flush_behind
    <3>1. pc'[Poller] \notin {"sync_all", "call"}
      BY <1>3, Zenon
    <3> QED
      BY <1>1, <1>3, <3>1, Zenon DEF Errors
  <2>2. ErrorKept'
    <3>1. (op_ret = -1 => op_ret' = -1) /\ (arg[Poller].op = "err" => op_ret' = -1)
      BY <1>1, Zenon DEF RememberedRet
    <3> QED
      BY <1>1, <1>4, <3>1, Zenon DEF Errors, ErrorKept
  <2> QED
    BY <1>1, <2>1, <2>2, Zenon DEF Errors
<1> QED
  BY <1>5, <1>6, <1>7, <1>8, Zenon

\* The other replies: the answer is passed on, or reports what op_ret remembers.
LEMMA AnswerKeeps ==
  ASSUME QInv, NEW n \in DOMAIN wire, NEW r \in {"ok", "err"}, PassCbk(n, r) \/ ReportCbk(n, r)
  PROVE  Books'
<1> USE DEF QInv, Books
<1>1. PICK s \in {"ok", "err"} :
        /\ Enters(Poller) /\ n \in InFlight /\ wire[n].op # "writev" /\ Answer(n, s)
        /\ UNCHANGED <<env, status, log, queue, stack_wound, write_behind, got_reply, frame_err,
                       acks, pc, winds, unwinds, arg>>
  BY Zenon DEF PassCbk, ReportCbk, Answerable, Reported, reqs, thread
<1>2. /\ DOMAIN pc = Threads /\ Poller \in Threads /\ wire \in Seq(Message)
  BY Zenon DEF TInv, TypeOK, Threads
<1>3. /\ DOMAIN wire' = DOMAIN wire
      /\ \A k \in DOMAIN wire : wire'[k].op = wire[k].op /\ wire'[k].ids = wire[k].ids
      /\ \A k, i : Carries(k, i)' <=> Carries(k, i)
      /\ \A i : /\ Sent(i)' <=> Sent(i)
                /\ Replied(i)' <=> Replied(i) \/ Carries(n, i)
                /\ i \in Failed' <=> i \in Failed \/ (s = "err" /\ Carries(n, i))
  BY <1>1, <1>2, AnsweredWire, Zenon
<1>4. \A i : ~ Carries(n, i)
  BY <1>1, Zenon DEF Carries
<1>5. Failed' = Failed /\ \A i : Replied(i)' <=> Replied(i)
  BY <1>3, <1>4, Zenon
<1>6. Accounts' /\ Frames'
  BY <1>1, <1>3, <1>5, AccountsSame, FramesSame, Zenon
<1>7. Hands'
  <2>1. status' # "released"
    BY <1>1, Zenon DEF Hands
  <2> QED
    BY <1>1, <1>2, <2>1, HandsMove, ZenonT(30) DEF Hands
<1>8. Serial'
  <2>1. OrderKept'
    BY <1>1, <1>2, <1>3, OrderSame, Zenon DEF Serial
  <2> QED
    BY <1>1, <1>2, <1>3, <2>1, SerialMove, Zenon
<1>9. Errors'
  <2>1. /\ \A k \in DOMAIN wire' : wire'[k].op = "bg_flush" => env'.flush_behind
        /\ \A u \in Threads :
             pc'[u] \in {"sync_all", "call"} /\ arg'[u].op = "bg_flush" => env'.flush_behind
    BY <1>1, <1>3, Zenon DEF Errors
  <2>2. ErrorKept'
    <3>1. SUFFICES ASSUME ~ env.flush_behind, NEW i \in Failed, i \notin told'
                   PROVE  op_ret' = -1 \/ (i \in frame_err /\ acks[i] = <<>>)
      BY <1>1, <1>5, ZenonT(30) DEF ErrorKept
    <3>2. pc[Poller] # "sync_ret" /\ wire[n].op # "bg_flush"
      BY <1>1, <3>1, Zenon DEF Enters, Errors
    <3>3. i \notin told => op_ret = -1 \/ (i \in frame_err /\ acks[i] = <<>>)
      BY <3>1, <3>2, Zenon DEF Errors, ErrorKept
    <3>4. CASE PassCbk(n, r)
      BY <3>1, <3>3, <3>4, Zenon DEF PassCbk
    <3>5. CASE ReportCbk(n, r)
      <4>1. op_ret = -1 => told' = told \cup Failed
        BY <3>2, <3>5, Zenon DEF ReportCbk, Reported
      <4>2. told \subseteq told'
        BY <3>5, Zenon DEF ReportCbk
      <4> QED
        BY <3>1, <3>3, <4>1, <4>2, Zenon
    <3> QED
      BY <3>4, <3>5, Zenon
  <2> QED
    BY <2>1, <2>2, Zenon DEF Errors
<1> QED
  BY <1>6, <1>7, <1>8, <1>9, ZenonT(30)

\* Steps that touch no request: a thread comes in with a write, finishes its
\* winds list, or the file is opened.
LEMMA MoveKeeps ==
  ASSUME QInv, NEW t \in Threads, NEW off, NEW len, NEW f,
         \/ Writev(t, off, len) \/ Open(f) \/ Create(f)
         \/ Sync(t, "flush_sync", "enqueue") /\ winds[t] = {}
         \/ Sync(t, "sync_all", "call") /\ winds[t] = {}
         \/ Sync(t, "sync", "idle") /\ winds[t] = {}
  PROVE  Books'
<1> USE DEF QInv, Books
<1>1. UNCHANGED <<env, op_ret, log, queue, stack_wound, write_behind, got_reply, frame_err, acks,
                  wire, told, winds, unwinds>>
  BY ZenonT(30) DEF Writev, Open, Create, Sync, reqs, thread
<1>2. /\ DOMAIN arg = Threads /\ DOMAIN pc = Threads /\ Poller \in Threads
      /\ wire \in Seq(Message)
  BY Zenon DEF TInv, TypeOK, ArgsTyped, Threads
<1>3. \A u \in Threads : u # t => pc'[u] = pc[u] /\ arg'[u] = arg[u]
  BY <1>2, Zenon DEF Writev, Open, Create, Sync, Goto, reqs, thread
<1>4. \/ UNCHANGED <<pc, arg>> /\ status' = "open"
      \/ /\ Enters(t) /\ pc'[t] \in {"direct", "enqueue", "flush_all"} /\ status' = status
         /\ status = "open"
      \/ /\ winds[t] = {} /\ UNCHANGED <<arg, status>>
         /\ <<pc[t], pc'[t]>> \in {<<"flush_sync", "enqueue">>, <<"sync_all", "call">>, <<"sync", "idle">>}
  BY <1>2, Zenon DEF Writev, Deliver, Open, Create, Sync, Goto, reqs, thread
<1>5. Failed' = Failed
  BY <1>1, SameWire, Zenon
<1>6. Accounts' /\ Frames'
  BY <1>1, <1>5, SameWire, AccountsSame, FramesSame, Zenon
<1>7. Hands'
  <2>1. status' # "released"
    BY <1>4, Zenon DEF Hands
  <2>2. /\ pc'[t] \notin Sending => winds'[t] = {}
        /\ pc'[t] \notin {"flush_unwind", "unwind"} => unwinds'[t] = {}
        /\ pc[t] \in {"process", "sync_ret"} => pc'[t] \in {"process", "sync_ret"}
    BY <1>1, <1>4, Zenon DEF Hands, Sending, Enters
  <2> QED
    BY <1>1, <1>3, <2>1, <2>2, HandsMove, Zenon
<1>8. Serial'
  <2>1. OrderKept'
    BY <1>1, ZenonT(30) DEF Serial, OrderKept, SentInOrder, CallFollowsWrites, CallNeverOvertakes
  <2>2. /\ pc'[t] = "idle" \/ pc[t] # "idle" \/ Enters(t)
        /\ pc'[t] \in {"sync_all", "call"} => pc[t] \in {"sync_all", "call"} /\ arg'[t] = arg[t]
    BY <1>4, Zenon
  <2> QED
    BY <1>1, <1>3, <2>1, <2>2, SameWire, SerialMove, Zenon
<1>9. Errors'
  <2>1. /\ \A n \in DOMAIN wire' : wire'[n].op = "bg_flush" => env.flush_behind
        /\ pc[t] \in {"sync_all", "call"} /\ arg[t].op = "bg_flush" => env.flush_behind
    BY <1>1, Zenon DEF Errors
  <2>2. /\ pc'[t] \in {"sync_all", "call"} /\ arg'[t].op = "bg_flush" => env.flush_behind
        /\ pc[t] # "sync_ret" \/ (pc' = pc /\ arg' = arg)
    BY <1>4, <2>1, Zenon DEF Enters
  <2> QED
    BY <1>1, <1>2, <1>3, <1>5, <2>1, <2>2, ErrorsMove, Zenon
<1> QED
  BY <1>6, <1>7, <1>8, <1>9, Zenon

\* A call that carries no queued write: a write of a disabled file, or the call
\* that follows wb_sync_all's batches.
LEMMA CallKeeps ==
  ASSUME QInv, NEW t \in Threads, WritevDirect(t) \/ WindCall(t)
  PROVE  Books'
<1> USE DEF QInv, Books
<1>1. PICK m : /\ \/ pc[t] = "direct" /\ m = Call("direct", {}, arg[t].off)
                  \/ pc[t] = "call" /\ m = Call(arg[t].op, arg[t].ids, 0)
               /\ wire' = Append(wire, m)
               /\ pc' = [pc EXCEPT ![t] = "idle"] /\ arg' = [arg EXCEPT ![t] = NoArg]
               /\ UNCHANGED <<env, status, op_ret, log, queue, stack_wound, write_behind, got_reply,
                              frame_err, acks, told, winds, unwinds>>
  BY Zenon DEF WritevDirect, WindCall, Goto, reqs
<1>2. /\ DOMAIN arg = Threads /\ DOMAIN pc = Threads /\ Poller \in Threads
      /\ wire \in Seq(Message)
  BY Zenon DEF TInv, TypeOK, ArgsTyped, Threads
<1>3. /\ m \in Message /\ m.op # "writev" /\ m.reply = "none"
      /\ \/ m.ids = {} /\ m.op = "direct"
         \/ m.ids = arg[t].ids /\ m.op = arg[t].op /\ pc[t] = "call"
  <2>1. CASE pc[t] = "direct"
    <3>1. arg[t] \in WriteArg /\ m = Call("direct", {}, arg[t].off)
      BY <1>1, <2>1, Zenon DEF TInv, ArgsTyped
    <3> QED
      BY <3>1, Zenon DEF WriteArg, Call, Message
  <2>2. CASE pc[t] = "call"
    <3>1. arg[t] \in CallArg /\ m = Call(arg[t].op, arg[t].ids, 0)
      BY <1>1, <2>2, Zenon DEF TInv, ArgsTyped
    <3> QED
      BY <2>2, <3>1, ZenonT(30) DEF CallArg, Call, Message, Calls
  <2> QED
    BY <1>1, <2>1, <2>2, Zenon
<1>4. /\ DOMAIN wire' = 1 .. Len(wire) + 1 /\ DOMAIN wire = 1 .. Len(wire) /\ Len(wire) \in Nat
      /\ wire'[Len(wire) + 1] = m /\ \A n \in DOMAIN wire : wire'[n] = wire[n]
      /\ Failed' = Failed
      /\ \A n, i : Carries(n, i)' <=> Carries(n, i)
      /\ \A i : (Sent(i)' <=> Sent(i)) /\ (Replied(i)' <=> Replied(i))
  BY <1>1, <1>2, <1>3, AppendedWire, Zenon
<1>5. /\ pc'[t] = "idle"
      /\ \A u \in Threads : u # t => pc'[u] = pc[u] /\ arg'[u] = arg[u]
  BY <1>1, <1>2, Zenon
<1>6. Accounts' /\ Frames'
  BY <1>1, <1>4, AccountsSame, FramesSame, ZenonT(30)
<1>7. winds[t] = {} /\ unwinds[t] = {} /\ pc[t] \in {"direct", "call"}
  BY <1>1, Zenon DEF Hands, Sending
<1>8. Hands'
  <2>1. status' # "released" /\ pc[t] \notin {"process", "sync_ret"}
    BY <1>1, <1>7, Zenon DEF Hands
  <2> QED
    BY <1>1, <1>5, <1>7, <2>1, HandsMove, Zenon
<1>9. Serial'
  <2>1. ASSUME env.single, NEW i \in m.ids PROVE Sent(i)
    <3>1. pc[t] = "call" /\ i \in stack_wound
      BY <1>3, <2>1, Zenon DEF Serial
    <3>2. \A u \in Threads : winds[u] = {}
      <4>1. \A u \in Threads : u # t => pc[u] = "idle"
        BY <2>1, <3>1, Zenon DEF Serial
      <4> QED
        BY <1>7, <4>1, Zenon DEF Hands, Sending
    <3> QED
      BY <3>1, <3>2, SentIsWound, ZenonT(30) DEF Taken
  <2>2. OrderKept'
    BY <1>1, <1>2, <1>3, <2>1, OrderAppended, Zenon DEF Serial
  <2>3. pc'[t] \notin {"sync_all", "call"}
    BY <1>5, Zenon
  <2> QED
    BY <1>1, <1>4, <1>5, <2>2, <2>3, SerialMove, Zenon
<1>10. Errors'
  <2>1. m.op = "bg_flush" => env.flush_behind
    BY <1>3, Zenon DEF Errors
  <2>2. \A n \in DOMAIN wire' : n \in DOMAIN wire \/ n = Len(wire) + 1
    BY <1>4
  <2>3. \A n \in DOMAIN wire' : wire'[n].op = "bg_flush" => env.flush_behind
    BY <1>4, <2>1, <2>2, ZenonT(30) DEF Errors
  <2>4. pc'[t] \notin {"sync_all", "call"} /\ pc[t] # "sync_ret"
    BY <1>5, <1>7, Zenon
  <2> QED
    BY <1>1, <1>2, <1>4, <1>5, <2>3, <2>4, ErrorsMove, Zenon
<1> QED
  BY <1>6, <1>8, <1>9, <1>10, Zenon

\* The file is released only when nothing is left to send.
LEMMA ReleaseKeeps ==
  ASSUME QInv, Release
  PROVE  Books'
<1> USE DEF QInv, Books
<1>1. /\ \A t \in Threads : pc[t] = "idle"
      /\ InFlight = {} /\ status' = "released"
      /\ UNCHANGED <<env, op_ret, log, queue, stack_wound, write_behind, got_reply, frame_err,
                     acks, wire, told, pc, winds, unwinds, arg>>
  BY Zenon DEF Release, reqs, thread
<1>2. Poller \in Threads /\ wire \in Seq(Message)
  BY Zenon DEF TInv, TypeOK, Threads
<1>3. \A i \in stack_wound : i \in got_reply
  <2>1. SUFFICES ASSUME NEW i \in stack_wound PROVE Replied(i)
    BY Zenon DEF Accounts
  <2>2. ~ Taken(i)
    <3>1. \A t \in Threads : winds[t] = {}
      BY <1>1, Zenon DEF Hands, Sending
    <3> QED
      BY <3>1, ZenonT(30) DEF Taken
  <2>3. PICK n \in DOMAIN wire : Carries(n, i)
    BY <2>2, SentIsWound, ZenonT(30) DEF Sent
  <2>4. wire[n].reply # "none"
    BY <1>1, Zenon DEF InFlight
  <2> QED
    BY <2>3, <2>4, Zenon DEF Replied
<1>4. Unsent = {}
  <2>1. \A t \in Threads : pc[t] \notin {"process", "sync_ret"}
    BY <1>1, Zenon
  <2> QED
    BY <1>3, <2>1, Zenon DEF Hands
<1>5. Failed' = Failed /\ Unsent' = Unsent /\ InFlight' = InFlight
  BY <1>1, SameWire, Zenon DEF Unsent
<1>6. Accounts' /\ Frames'
  BY <1>1, <1>5, SameWire, AccountsSame, FramesSame, Zenon
<1>7. Hands'
  BY <1>1, <1>4, <1>5, Zenon DEF Hands
<1>8. Serial'
  <2>1. OrderKept'
    BY <1>1, Zenon DEF Serial, OrderKept, SentInOrder, CallFollowsWrites, CallNeverOvertakes
  <2> QED
    BY <1>1, <1>2, <2>1, SameWire, SerialMove, Zenon
<1>9. Errors'
  <2>1. \A n \in DOMAIN wire' : wire'[n].op = "bg_flush" => env.flush_behind
    BY <1>1, Zenon DEF Errors
  <2>2. pc[Poller] \notin {"sync_all", "call"} /\ pc[Poller] # "sync_ret"
    BY <1>1, <1>2, Zenon
  <2> QED
    BY <1>1, <1>2, <1>5, <2>1, <2>2, ErrorsMove, Zenon
<1> QED
  BY <1>6, <1>7, <1>8, <1>9, Zenon
-----------------------------------------------------------------------------
(* The invariant is inductive, and what it says.                           *)

\* A file nobody has written to satisfies the invariant.
LEMMA InitQInv == Init => QInv
<1> SUFFICES ASSUME Init PROVE QInv
  OBVIOUS
<1>1. TInv
  BY InitTInv, Zenon
<1>2. /\ Ids = {} /\ DOMAIN wire = {} /\ status = "new" /\ queue = {} /\ stack_wound = {}
      /\ write_behind = {} /\ got_reply = {} /\ frame_err = {}
      /\ \A t \in Threads : pc[t] = "idle" /\ winds[t] = {} /\ unwinds[t] = {}
  BY DEF Init, Ids
<1>3. /\ \A i : ~ Sent(i) /\ ~ Taken(i) /\ ~ Replied(i) /\ ~ Acknowledged(i) /\ ~ Promised(i)
      /\ \A n, i : ~ Carries(n, i)
      /\ Failed = {}
  BY <1>2, Zenon DEF Sent, Taken, Replied, Acknowledged, Promised, Carries, Failed, AnsweredWith
<1>4. Accounts
  BY <1>2, <1>3, Zenon DEF Accounts
<1>5. Frames
  <2>1. AckedOnceAndTruthfully
    BY <1>2, Zenon DEF AckedOnceAndTruthfully
  <2> QED
    BY <1>2, <1>3, <2>1, Zenon DEF Frames
<1>6. Hands
  BY <1>2, Zenon DEF Hands, Unsent
<1>7. Serial
  <2>1. OrderKept
    BY <1>2, Zenon DEF OrderKept, SentInOrder, CallFollowsWrites, CallNeverOvertakes
  <2>2. \A t \in Threads : pc[t] \notin {"sync_all", "call"}
    BY <1>2, Zenon
  <2> QED
    BY <1>2, <2>1, <2>2, Zenon DEF Serial
<1>8. Errors
  <2>1. ErrorKept
    BY <1>3, Zenon DEF ErrorKept
  <2>2. \A t \in Threads : pc[t] \notin {"sync_all", "call"}
    BY <1>2, Zenon
  <2> QED
    BY <1>2, <2>1, <2>2, Zenon DEF Errors
<1> QED
  BY <1>1, <1>4, <1>5, <1>6, <1>7, <1>8, Zenon DEF QInv, Books

\* Every step keeps it.
LEMMA NextQInv == QInv /\ [Next]_vars => QInv'
<1> SUFFICES ASSUME QInv, [Next]_vars PROVE QInv'
  OBVIOUS
<1>0. Callers \subseteq Threads /\ Poller \in Threads
  BY Zenon DEF Threads
<1>t. TInv'
  BY NextTInv, Zenon DEF QInv
<1>s. ASSUME NEW t \in Threads,
             Sync(t, "flush_sync", "enqueue") \/ Sync(t, "sync_all", "call") \/ Sync(t, "sync", "idle")
      PROVE  Books'
  <2>1. CASE winds[t] = {}
    BY <1>s, <2>1, MoveKeeps, ZenonT(30)
  <2>2. CASE winds[t] # {}
    BY <1>s, <2>2, BatchKeeps, Zenon
  <2> QED
    BY <2>1, <2>2, Zenon
<1>1. ASSUME NEW f \in OpenFlags, Open(f) \/ Create(f) PROVE Books'
  BY <1>0, <1>1, MoveKeeps, Zenon
<1>2. ASSUME NEW t \in Callers, CallerCalls(t) PROVE Books'
  BY <1>0, <1>2, MoveKeeps, SyncAllKeeps, Zenon DEF CallerCalls
<1>3. ASSUME NEW t \in Callers, CallerInside(t) PROVE Books'
  BY <1>0, <1>3, <1>s, ProcessKeeps, UnwindKeeps, EnqueueKeeps, CallKeeps, Zenon DEF CallerInside
<1>4. ASSUME NEW t \in Threads, QueueStep(t) PROVE Books'
  BY <1>4, <1>s, ProcessKeeps, UnwindKeeps, Zenon DEF QueueStep
<1>5. ASSUME ReplyStep PROVE Books'
  BY <1>5, SyncCbkKeeps, SyncCbkRetKeeps, AnswerKeeps, Zenon DEF ReplyStep
<1>6. ASSUME UNCHANGED vars PROVE Books'
  <2> USE DEF QInv, Books
  <2>1. UNCHANGED <<env, status, op_ret, log, queue, stack_wound, write_behind, got_reply,
                    frame_err, acks, wire, told, pc, winds, unwinds, arg>>
    BY <1>6, Zenon DEF vars, reqs, thread
  <2>2. Failed' = Failed /\ Unsent' = Unsent /\ InFlight' = InFlight /\ wire \in Seq(Message)
    BY <2>1, SameWire, Zenon DEF Unsent, TInv, TypeOK
  <2>3. Accounts' /\ Frames'
    BY <2>1, <2>2, SameWire, AccountsSame, FramesSame, Zenon
  <2>4. Hands'
    BY <2>1, <2>2, Zenon DEF Hands
  <2>5. Serial'
    <3>1. OrderKept'
      BY <2>1, ZenonT(30) DEF Serial, OrderKept, SentInOrder, CallFollowsWrites, CallNeverOvertakes
    <3>2. pc'[Poller] = "idle" \/ pc[Poller] # "idle"
      BY <2>1, Zenon
    <3> QED
      BY <1>0, <2>1, <3>1, <3>2, SameWire, SerialMove, Zenon
  <2>6. Errors'
    BY <2>1, <2>2, Zenon DEF Errors, ErrorKept
  <2> QED
    BY <2>3, <2>4, <2>5, <2>6, Zenon
<1>7. ASSUME Release PROVE Books'
  BY <1>7, ReleaseKeeps, Zenon
<1> QED
  BY <1>t, <1>1, <1>2, <1>3, <1>4, <1>5, <1>6, <1>7, Zenon DEF Next, Idle, QInv

\* A request that left the queue has its answer, and its frame its result.
LEMMA NothingLostByQInv == QInv => NothingLost
<1> SUFFICES ASSUME QInv PROVE NothingLost
  OBVIOUS
<1> USE DEF QInv, Books
<1>1. ASSUME NEW i, i \in got_reply PROVE i \in AnsweredWith({"ok", "err"})
  <2>1. PICK n \in DOMAIN wire : Carries(n, i) /\ wire[n].reply # "none"
    BY <1>1, Zenon DEF Accounts, Replied
  <2>2. wire[n] \in Message
    BY ElementOfSeq, SMTT(30) DEF TInv, TypeOK
  <2>3. wire[n].reply \in {"ok", "err"}
    BY <2>1, <2>2, Zenon DEF Message
  <2> QED
    BY <2>1, <2>3, AnsweredIs, Zenon
<1>2. ASSUME NEW i \in Ids
      PROVE  Cardinality({n \in DOMAIN wire : wire[n].op = "writev" /\ i \in wire[n].ids}) <= 1
  <2> DEFINE S == {n \in DOMAIN wire : wire[n].op = "writev" /\ i \in wire[n].ids}
  <2>1. \A m, n \in S : m = n
    <3>1. \A n \in S : Carries(n, i)
      BY Zenon DEF Carries
    <3> QED
      BY <3>1, Zenon DEF Accounts
  <2> HIDE DEF S
  <2>2. ASSUME S = {} PROVE Cardinality(S) <= 1
    <3>1. Cardinality(S) = 0
      BY <2>2, FS_EmptySet, Zenon
    <3> QED
      BY <3>1
  <2>3. ASSUME NEW n \in S PROVE Cardinality(S) <= 1
    <3>1. S = {n}
      BY <2>1, Zenon
    <3>2. Cardinality({n}) = 1
      BY FS_Singleton, Zenon
    <3> QED
      BY <3>1, <3>2
  <2>4. Cardinality(S) <= 1
    BY <2>2, <2>3, Zenon
  <2> QED
    BY <2>4, Zenon DEF S
<1>3. ASSUME NEW i \in Ids, i \notin queue
      PROVE  /\ i \in AnsweredWith({"ok", "err"})
             /\ acks[i] # <<>> \/ \E t \in Threads : i \in unwinds[t]
  <2>1. i \in got_reply /\ i \in write_behind
    BY <1>3, Zenon DEF Accounts
  <2> QED
    BY <1>1, <2>1, ZenonT(30) DEF Frames, Acknowledged, Promised
<1>4. ASSUME status = "released", NEW i \in Ids PROVE i \in AnsweredWith({"ok", "err"})
  <2>1. /\ \A t \in Threads : winds[t] = {}
        /\ InFlight = {} /\ Unsent = {}
    BY <1>4, Zenon DEF Hands, Sending
  <2>2. i \in stack_wound
    BY <2>1, SentIsWound, Zenon
  <2>3. PICK n \in DOMAIN wire : Carries(n, i)
    BY <2>1, <2>2, SentIsWound, Zenon DEF Sent, Taken
  <2>4. i \in got_reply
    BY <2>1, <2>3, Zenon DEF Accounts, Replied, InFlight
  <2> QED
    BY <1>1, <2>4, ZenonT(30)
<1>5. SentOnceNeverDropped
  BY <1>2, <1>3, Zenon DEF SentOnceNeverDropped
<1>6. ReleasedClean
  BY <1>4, Zenon DEF ReleasedClean
<1> QED
  BY <1>5, <1>6, Zenon DEF NothingLost

\* Write-behind loses no write: however many threads call, whatever their sizes
\* and whenever the replies come, each queued write is sent to the child at most
\* once, leaves the queue only answered and acknowledged, and none is left when
\* the file is released (__wb_mark_winds, __wb_cleanup_queue, wb_release).
THEOREM NoWriteLost == Spec => []NothingLost
<1>1. QInv => NothingLost
  BY NothingLostByQInv, Zenon
<1> QED
  BY <1>1, InitQInv, NextQInv, PTL DEF Spec

\* The application hears of each write once, and of a failure only if the child
\* failed that write (__wb_mark_unwinds, wb_stack_unwind, wb_sync_cbk).
THEOREM AcksTruthful == Spec => []AckedOnceAndTruthfully
<1>1. QInv => AckedOnceAndTruthfully
  BY Zenon DEF QInv, Books, Frames
<1> QED
  BY <1>1, InitQInv, NextQInv, PTL DEF Spec

\* Where one thread delivers calls and replies, the child gets the writes in the
\* order they were made and every other call after the writes before it
\* (wb_sync, wb_sync_all).
THEOREM OrderPreserved == Spec => []OrderKept
<1>1. QInv => OrderKept
  BY Zenon DEF QInv, Books, Serial
<1> QED
  BY <1>1, InitQInv, NextQInv, PTL DEF Spec

\* Without flush-behind, the error of a write that was acknowledged as done stays
\* known until an fsync or a flush reports it: it is in file->op_ret, on its way
\* there, or in a frame still to be unwound (wb_sync_cbk, wb_fsync_cbk,
\* wb_ffr_cbk).
THEOREM ErrorsKept == Spec => []ErrorKept
<1>1. QInv => ErrorKept
  BY Zenon DEF QInv, Books, Errors
<1> QED
  BY <1>1, InitQInv, NextQInv, PTL DEF Spec
=============================================================================
