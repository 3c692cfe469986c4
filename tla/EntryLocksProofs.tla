-------------------------- MODULE EntryLocksProofs --------------------------
(***************************************************************************)
(* Two locks on the names of a directory never conflict, and no request    *)
(* for such a lock is lost, for any set of threads, requests, clients and  *)
(* names.                                                                  *)
(***************************************************************************)
EXTENDS EntryLocks, TLAPS

\* Prepending keeps a sequence one and shifts its elements.
LEMMA ConsProperties ==
  ASSUME NEW S, NEW s \in Seq(S), NEW x \in S
  PROVE  /\ <<x>> \o s \in Seq(S)
         /\ Len(<<x>> \o s) = Len(s) + 1
         /\ \A k \in 1 .. Len(s) + 1 :
              (<<x>> \o s)[k] = IF k = 1 THEN x ELSE s[k - 1]
  OBVIOUS

\* Concatenation, element by element.
LEMMA ConcatenationProperties ==
  ASSUME NEW S, NEW a \in Seq(S), NEW b \in Seq(S)
  PROVE  /\ a \o b \in Seq(S)
         /\ Len(a \o b) = Len(a) + Len(b)
         /\ \A k \in 1 .. Len(a) + Len(b) :
              (a \o b)[k] = IF k \leq Len(a) THEN a[k] ELSE b[k - Len(a)]
  OBVIOUS

\* Removing a place keeps the others in order.
LEMMA ListDelProperties ==
  ASSUME NEW S, NEW s \in Seq(S), NEW i \in 1 .. Len(s)
  PROVE  /\ list_del(s, i) \in Seq(S)
         /\ Len(list_del(s, i)) = Len(s) - 1
         /\ \A k \in 1 .. Len(s) - 1 :
              list_del(s, i)[k] = IF k < i THEN s[k] ELSE s[k + 1]
<1> DEFINE a == SubSeq(s, 1, i - 1)
           b == SubSeq(s, i + 1, Len(s))
<1>1. /\ a \in Seq(S) /\ Len(a) = i - 1
      /\ \A k \in 1 .. i - 1 : a[k] = s[k]
  OBVIOUS
<1>2. /\ b \in Seq(S) /\ Len(b) = Len(s) - i
      /\ \A k \in 1 .. Len(s) - i : b[k] = s[i + k]
  OBVIOUS
<1>3. list_del(s, i) = a \o b
  BY Zenon DEF list_del
<1> HIDE DEF a, b
<1>4. /\ a \o b \in Seq(S)
      /\ Len(a \o b) = Len(s) - 1
  <2>1. a \o b \in Seq(S) /\ Len(a \o b) = Len(a) + Len(b)
    BY <1>1, <1>2, ConcatenationProperties, Zenon
  <2>2. Len(s) \in Nat
    OBVIOUS
  <2> QED
    BY <2>1, <2>2, <1>1, <1>2
<1>5. ASSUME NEW k \in 1 .. Len(s) - 1
      PROVE  (a \o b)[k] = IF k < i THEN s[k] ELSE s[k + 1]
  <2>1. CASE k < i
    BY <2>1, <1>1, <1>2
  <2>2. CASE ~ (k < i)
    <3>1. (a \o b)[k] = b[k - (i - 1)]
      BY <2>2, <1>1, <1>2
    <3>2. b[k - (i - 1)] = s[i + (k - (i - 1))]
      BY <2>2, <1>2, SMTT(30)
    <3> QED
      BY <2>2, <3>1, <3>2
  <2> QED
    BY <2>1, <2>2, Zenon
<1> QED
  BY <1>3, <1>4, <1>5, Zenon
-----------------------------------------------------------------------------
\* The lists hold requests that have arrived, so that an arriving request
\* changes the record of no lock that is held.
Known ==
  /\ \A i \in DOMAIN dir_list : req[dir_list[i]] # NoReq
  /\ \A h \in Frames : \A i \in DOMAIN blocked_locks[h] : req[blocked_locks[h][i]] # NoReq
  /\ \A t \in Threads : \A i \in DOMAIN todo[t] : req[todo[t][i]] # NoReq

\* The part of TypeOK the argument needs.
Typed ==
  /\ req \in [Frames -> Request \cup {NoReq}]
  /\ dir_list \in Seq(Frames)
  /\ blocked_locks \in [Frames -> Seq(Frames)]
  /\ unlocked \in [Threads -> Frames \cup {NoFrame}]
  /\ pc \in [Threads -> {"idle", "grant", "section", "unwind"}]
  /\ todo \in [Threads -> Seq(Frames)]
  /\ \A t \in Threads : pc[t] = "grant" => unlocked[t] \in Frames

IInv == Typed /\ Known /\ Exclusive

\* A request record is never the mark of a frame without one.
LEMMA RequestIsReq == \A r \in Request : r # NoReq
<1> SUFFICES ASSUME NEW r \in Request PROVE r # NoReq
  OBVIOUS
<1>1. DOMAIN r = {"trans", "name", "type"}
  BY Zenon DEF Request
<1>2. DOMAIN NoReq = {"name"}
  BY Zenon DEF NoReq
<1> QED
  BY <1>1, <1>2

\* Conflicts do not depend on the order of the two requests.
LEMMA ConflictSymmetric == \A r, s : Conflict(r, s) <=> Conflict(s, r)
  BY Zenon DEF Conflict, names_conflict, types_conflict

\* The initial state satisfies the invariant: no lists.
LEMMA InitIInv == Init => IInv
  BY DEF Init, IInv, Typed, Known, Exclusive

\* A grantable request put in front of the list conflicts with no lock of it.
LEMMA InsertExclusive ==
  ASSUME IInv, NEW f \in Frames, NEW r, Grantable(r),
         req'[f] = r, r # NoReq,
         \A i \in DOMAIN dir_list : req'[dir_list[i]] = req[dir_list[i]],
         dir_list' = <<f>> \o dir_list
  PROVE  /\ dir_list' \in Seq(Frames)
         /\ Exclusive'
         /\ \A i \in DOMAIN dir_list' : req'[dir_list'[i]] # NoReq
<1>1. dir_list \in Seq(Frames)
  BY Zenon DEF IInv, Typed
<1>2. /\ dir_list' \in Seq(Frames)
      /\ Len(dir_list') = Len(dir_list) + 1
      /\ \A k \in 1 .. Len(dir_list) + 1 :
           dir_list'[k] = IF k = 1 THEN f ELSE dir_list[k - 1]
  BY <1>1, ConsProperties
<1>3. DOMAIN dir_list = 1 .. Len(dir_list) /\ DOMAIN dir_list' = 1 .. Len(dir_list) + 1
      /\ Len(dir_list) \in Nat
  BY <1>1, <1>2
<1>4. ASSUME NEW k \in DOMAIN dir_list', k # 1
      PROVE  k - 1 \in DOMAIN dir_list /\ req'[dir_list'[k]] = req[dir_list[k - 1]]
  BY <1>2, <1>3, <1>4
<1>5. dir_list'[1] = f /\ 1 \in DOMAIN dir_list'
  BY <1>2, <1>3
<1>6. Exclusive'
  <2> SUFFICES ASSUME NEW i \in DOMAIN dir_list', NEW j \in DOMAIN dir_list', i # j
               PROVE  ~ Conflict(req'[dir_list'[i]], req'[dir_list'[j]])
    BY Zenon DEF Exclusive, Conflict, names_conflict, types_conflict
  <2>1. CASE i = 1
    BY <2>1, <1>4, <1>5, ConflictSymmetric, Zenon DEF Grantable
  <2>2. CASE j = 1
    BY <2>2, <1>4, <1>5, Zenon DEF Grantable
  <2>3. CASE i # 1 /\ j # 1
    <3>1. i - 1 # j - 1
      BY <1>3
    <3> QED
      BY <2>3, <3>1, <1>4, Zenon DEF IInv, Exclusive
  <2> QED
    BY <2>1, <2>2, <2>3, Zenon
<1>7. \A i \in DOMAIN dir_list' : req'[dir_list'[i]] # NoReq
  BY <1>4, <1>5 DEF IInv, Known
<1> QED
  BY <1>2, <1>6, <1>7, Zenon

\* Taking a lock out of the list leaves the others compatible.
LEMMA RemoveExclusive ==
  ASSUME IInv, NEW i \in DOMAIN dir_list, req' = req, dir_list' = list_del(dir_list, i)
  PROVE  /\ dir_list' \in Seq(Frames)
         /\ Exclusive'
         /\ \A k \in DOMAIN dir_list' : req'[dir_list'[k]] # NoReq
<1>1. dir_list \in Seq(Frames) /\ i \in 1 .. Len(dir_list) /\ Len(dir_list) \in Nat
  BY DEF IInv, Typed
<1>2. /\ dir_list' \in Seq(Frames)
      /\ Len(dir_list') = Len(dir_list) - 1
      /\ \A k \in 1 .. Len(dir_list) - 1 :
           dir_list'[k] = IF k < i THEN dir_list[k] ELSE dir_list[k + 1]
  BY <1>1, ListDelProperties, Zenon
<1> DEFINE old(k) == IF k < i THEN k ELSE k + 1
<1>3. DOMAIN dir_list = 1 .. Len(dir_list) /\ DOMAIN dir_list' = 1 .. Len(dir_list) - 1
  BY <1>1, <1>2
<1>4. \A k \in DOMAIN dir_list' : old(k) \in DOMAIN dir_list /\ dir_list'[k] = dir_list[old(k)]
  BY <1>1, <1>2, <1>3
<1>5. \A k, l \in DOMAIN dir_list' : k # l => old(k) # old(l)
  BY <1>1, <1>3
<1> HIDE DEF old
<1>6. Exclusive'
  <2> SUFFICES ASSUME NEW k \in DOMAIN dir_list', NEW l \in DOMAIN dir_list', k # l
               PROVE  ~ Conflict(req[dir_list[old(k)]], req[dir_list[old(l)]])
    BY <1>4 DEF Exclusive, Conflict, names_conflict, types_conflict
  <2> QED
    BY <1>4, <1>5, Zenon DEF IInv, Exclusive
<1>7. \A k \in DOMAIN dir_list' : req'[dir_list'[k]] # NoReq
  BY <1>4, Zenon DEF IInv, Known
<1> QED
  BY <1>2, <1>6, <1>7, Zenon

\* Hanging a request on the lock in its way leaves the other lists alone.
LEMMA BlockTyped ==
  ASSUME IInv, NEW f \in Frames, NEW r, Block(f, r), req' \in [Frames -> Request \cup {NoReq}],
         req'[f] # NoReq, \A g \in Frames : req[g] # NoReq => req'[g] = req[g]
  PROVE  /\ blocked_locks' \in [Frames -> Seq(Frames)]
         /\ \A h \in Frames : \A i \in DOMAIN blocked_locks'[h] :
              req'[blocked_locks'[h][i]] # NoReq
<1>1. PICK i \in DOMAIN dir_list :
        blocked_locks' = [blocked_locks EXCEPT ![dir_list[i]] = <<f>> \o @]
  BY Zenon DEF Block
<1>2. dir_list[i] \in Frames /\ blocked_locks[dir_list[i]] \in Seq(Frames)
  BY DEF IInv, Typed
<1> DEFINE s == blocked_locks[dir_list[i]]
<1>3. /\ <<f>> \o s \in Seq(Frames)
      /\ Len(<<f>> \o s) = Len(s) + 1
      /\ \A k \in 1 .. Len(s) + 1 : (<<f>> \o s)[k] = IF k = 1 THEN f ELSE s[k - 1]
  BY <1>2, ConsProperties
<1>4. blocked_locks' \in [Frames -> Seq(Frames)]
  BY <1>1, <1>2, <1>3, Zenon DEF IInv, Typed
<1>5. ASSUME NEW h \in Frames, NEW k \in DOMAIN blocked_locks'[h]
      PROVE  req'[blocked_locks'[h][k]] # NoReq
  <2>1. CASE h # dir_list[i]
    BY <2>1, <1>1 DEF IInv, Typed, Known
  <2>2. CASE h = dir_list[i]
    <3>1. blocked_locks'[h] = <<f>> \o s
      BY <2>2, <1>1, <1>2, Zenon DEF IInv, Typed
    <3>2. CASE k = 1
      BY <3>1, <3>2, <1>3
    <3>3. CASE k # 1
      <4>1. k - 1 \in DOMAIN s /\ blocked_locks'[h][k] = s[k - 1]
        BY <3>1, <3>3, <1>2, <1>3
      <4> QED
        BY <4>1, <1>2 DEF IInv, Typed, Known
    <3> QED
      BY <3>2, <3>3, Zenon
  <2> QED
    BY <2>1, <2>2, Zenon
<1> QED
  BY <1>4, <1>5, Zenon

\* A lock request keeps the invariant, whatever __lock_name does with it.
LEMMA LockKeeps ==
  ASSUME IInv, NEW t \in Threads, NEW f \in Frames, NEW r \in Request, Lock(t, f, r)
  PROVE  IInv'
<1>1. Arrives(t, f, r)
  BY Zenon DEF Lock, LockGranted, LockBlocked, LockRefused
<1>2. /\ req' \in [Frames -> Request \cup {NoReq}]
      /\ req'[f] = r /\ r # NoReq
      /\ \A g \in Frames : req[g] # NoReq => req'[g] = req[g]
  BY <1>1, RequestIsReq, Zenon DEF Arrives, IInv, Typed
<1>3. \A i \in DOMAIN dir_list : dir_list[i] \in Frames /\ req'[dir_list[i]] = req[dir_list[i]]
  BY <1>2 DEF IInv, Typed, Known
<1>4. /\ unlocked' = unlocked /\ todo' = todo /\ pc' = pc
  BY <1>1, Zenon DEF Arrives, threads
<1>5. \A u \in Threads : \A i \in DOMAIN todo'[u] : req'[todo'[u][i]] # NoReq
  BY <1>2, <1>4 DEF IInv, Typed, Known
<1>6. CASE dir_list' = dir_list
  <2>1. Exclusive' /\ \A i \in DOMAIN dir_list' : req'[dir_list'[i]] # NoReq
    BY <1>3, <1>6 DEF IInv, Known, Exclusive, Conflict, names_conflict, types_conflict
  <2>2. blocked_locks' = blocked_locks \/ Block(f, r)
    BY Zenon DEF Lock, LockGranted, LockBlocked, LockRefused, Insert, CountReader, locks
  <2>3. /\ blocked_locks' \in [Frames -> Seq(Frames)]
        /\ \A h \in Frames : \A i \in DOMAIN blocked_locks'[h] :
             req'[blocked_locks'[h][i]] # NoReq
    <3>1. CASE blocked_locks' = blocked_locks
      BY <3>1, <1>2 DEF IInv, Typed, Known
    <3>2. CASE Block(f, r)
      BY <3>2, <1>2, BlockTyped, Zenon
    <3> QED
      BY <2>2, <3>1, <3>2, Zenon
  <2> QED
    BY <2>1, <2>3, <1>2, <1>4, <1>5, <1>6, Zenon DEF IInv, Typed, Known
<1>7. CASE Insert(f, r)
  <2>1. /\ dir_list' \in Seq(Frames) /\ Exclusive'
        /\ \A i \in DOMAIN dir_list' : req'[dir_list'[i]] # NoReq
    <3>1. Grantable(r) /\ dir_list' = <<f>> \o dir_list
      BY <1>7, Zenon DEF Insert
    <3> QED
      BY <3>1, <1>2, <1>3, InsertExclusive, Zenon
  <2>2. blocked_locks' = blocked_locks
    BY <1>7, Zenon DEF Insert
  <2>3. \A h \in Frames : \A i \in DOMAIN blocked_locks'[h] : req'[blocked_locks'[h][i]] # NoReq
    BY <2>2, <1>2 DEF IInv, Typed, Known
  <2> QED
    BY <2>1, <2>2, <2>3, <1>2, <1>4, <1>5, Zenon DEF IInv, Typed, Known
<1> QED
  BY <1>6, <1>7, Zenon DEF Lock, LockGranted, LockBlocked, LockRefused, CountReader, Block, locks

\* Taking the requests blocked on a lock moves them to the thread's list.
LEMMA TakeKeeps ==
  ASSUME IInv, NEW t \in Threads, NEW h \in Frames, TakeBlocked(t, h), req' = req
  PROVE  /\ blocked_locks' \in [Frames -> Seq(Frames)]
         /\ todo' \in [Threads -> Seq(Frames)]
         /\ \A g \in Frames : \A i \in DOMAIN blocked_locks'[g] :
              req'[blocked_locks'[g][i]] # NoReq
         /\ \A u \in Threads : \A i \in DOMAIN todo'[u] : req'[todo'[u][i]] # NoReq
<1>1. blocked_locks' \in [Frames -> Seq(Frames)] /\ todo' \in [Threads -> Seq(Frames)]
  BY DEF TakeBlocked, IInv, Typed
<1>2. \A g \in Frames : blocked_locks'[g] = IF g = h THEN <<>> ELSE blocked_locks[g]
  BY Zenon DEF TakeBlocked, IInv, Typed
<1>3. \A u \in Threads : todo'[u] = IF u = t THEN blocked_locks[h] ELSE todo[u]
  BY Zenon DEF TakeBlocked, IInv, Typed
<1>4. \A g \in Frames : \A i \in DOMAIN blocked_locks'[g] : req'[blocked_locks'[g][i]] # NoReq
  BY <1>2 DEF IInv, Known
<1>5. \A u \in Threads : \A i \in DOMAIN todo'[u] : req'[todo'[u][i]] # NoReq
  BY <1>3 DEF IInv, Known
<1> QED
  BY <1>1, <1>4, <1>5, Zenon

\* Retrying a blocked request keeps the invariant: it is inserted only if it
\* is grantable now, and is hung on another lock otherwise.
LEMMA RetryKeeps ==
  ASSUME IInv, NEW t \in Threads, Retry(t)
  PROVE  IInv'
<1> DEFINE f == Head(todo[t])
<1>1. /\ todo[t] \in Seq(Frames) /\ todo[t] # <<>>
      /\ todo' = [todo EXCEPT ![t] = Tail(@)]
      /\ req' = req /\ pc' = pc /\ unlocked' = unlocked
  BY Zenon DEF Retry, IInv, Typed
<1>2. f \in Frames /\ req[f] # NoReq
  <2>1. 1 \in DOMAIN todo[t] /\ f = todo[t][1] /\ f \in Frames
    BY <1>1
  <2> QED
    BY <2>1, Zenon DEF IInv, Known
<1>3. todo' \in [Threads -> Seq(Frames)]
  BY <1>1 DEF IInv, Typed
<1>4. \A u \in Threads : \A i \in DOMAIN todo'[u] : req'[todo'[u][i]] # NoReq
  <2> SUFFICES ASSUME NEW u \in Threads, NEW i \in DOMAIN todo'[u]
               PROVE  req[todo'[u][i]] # NoReq
    BY <1>1, Zenon
  <2>1. CASE u # t
    BY <2>1, <1>1, Zenon DEF IInv, Typed, Known
  <2>2. CASE u = t
    <3>1. todo'[u] = Tail(todo[t])
      BY <2>2, <1>1, Zenon DEF IInv, Typed
    <3>2. i + 1 \in DOMAIN todo[t] /\ todo'[u][i] = todo[t][i + 1]
      BY <3>1, <1>1
    <3> QED
      BY <3>2, Zenon DEF IInv, Known
  <2> QED
    BY <2>1, <2>2, Zenon
<1>5. Insert(f, req[f]) \/ CountReader(f, req[f]) \/ Block(f, req[f])
  BY Zenon DEF Retry
<1> HIDE DEF f
<1>6. CASE Insert(f, req[f])
  <2>1. /\ dir_list' \in Seq(Frames) /\ Exclusive'
        /\ \A i \in DOMAIN dir_list' : req'[dir_list'[i]] # NoReq
    <3>1. Grantable(req[f]) /\ dir_list' = <<f>> \o dir_list
      BY <1>6, Zenon DEF Insert
    <3> QED
      BY <3>1, <1>1, <1>2, InsertExclusive, Zenon
  <2>2. blocked_locks' = blocked_locks
    BY <1>6, Zenon DEF Insert
  <2> QED
    BY <2>1, <2>2, <1>1, <1>3, <1>4, Zenon DEF IInv, Typed, Known
<1>7. CASE CountReader(f, req[f])
  BY <1>7, <1>1, <1>3, <1>4 DEF CountReader, IInv, Typed, Known, Exclusive, Conflict,
       names_conflict, types_conflict
<1>8. CASE Block(f, req[f])
  <2>1. /\ blocked_locks' \in [Frames -> Seq(Frames)]
        /\ \A h \in Frames : \A i \in DOMAIN blocked_locks'[h] :
             req'[blocked_locks'[h][i]] # NoReq
    <3>1. req' \in [Frames -> Request \cup {NoReq}]
      BY <1>1, Zenon DEF IInv, Typed
    <3> QED
      BY <3>1, <1>1, <1>2, <1>8, BlockTyped, Zenon
  <2>2. dir_list' = dir_list
    BY <1>8, Zenon DEF Block
  <2> QED
    BY <2>1, <2>2, <1>1, <1>3, <1>4, Zenon DEF IInv, Typed, Known, Exclusive, Conflict,
         names_conflict, types_conflict
<1> QED
  BY <1>5, <1>6, <1>7, <1>8, Zenon

\* Every step keeps the invariant.
LEMMA NextKeeps == IInv /\ [Next]_vars => IInv'
<1> SUFFICES ASSUME IInv, [Next]_vars PROVE IInv'
  OBVIOUS
<1> USE DEF locks, threads
<1>1. CASE UNCHANGED vars
  BY <1>1, Zenon DEF vars, IInv, Typed, Known, Exclusive, Conflict, names_conflict, types_conflict
<1>2. ASSUME NEW t \in Threads, NEW f \in Frames, NEW r \in Request, Lock(t, f, r)
      PROVE  IInv'
  BY <1>2, LockKeeps, Zenon
<1>3. ASSUME NEW t \in Threads, NEW f \in Frames, Unlock(t, f) PROVE IInv'
  <2>1. req' = req /\ blocked_locks' = blocked_locks /\ todo' = todo
    BY <1>3, Zenon DEF Unlock
  <2>2. CASE dir_list' = dir_list /\ pc' = pc /\ unlocked' = unlocked
    BY <2>1, <2>2 DEF IInv, Typed, Known, Exclusive, Conflict, names_conflict, types_conflict
  <2>3. ASSUME NEW i \in DOMAIN dir_list,
               unlocked' = [unlocked EXCEPT ![t] = dir_list[i]],
               pc' = [pc EXCEPT ![t] = "grant"], dir_list' = list_del(dir_list, i)
        PROVE  IInv'
    <3>1. /\ dir_list' \in Seq(Frames) /\ Exclusive'
          /\ \A k \in DOMAIN dir_list' : req'[dir_list'[k]] # NoReq
      BY <2>1, <2>3, RemoveExclusive, Zenon
    <3>2. dir_list[i] \in Frames
      BY DEF IInv, Typed
    <3>3. Typed'
      BY <3>1, <3>2, <2>1, <2>3, Zenon DEF IInv, Typed
    <3> QED
      BY <3>1, <3>3, <2>1, Zenon DEF IInv, Known
  <2> QED
    BY <1>3, <2>2, <2>3, Zenon DEF Unlock
<1>4. ASSUME NEW t \in Threads, GrantBlocked(t) PROVE IInv'
  <2>1. unlocked[t] \in Frames
    BY <1>4, Zenon DEF GrantBlocked, IInv, Typed
  <2>2. req' = req /\ dir_list' = dir_list /\ TakeBlocked(t, unlocked[t])
    BY <1>4, Zenon DEF GrantBlocked
  <2>3. /\ pc' = [pc EXCEPT ![t] = "section"]
        /\ unlocked' = [unlocked EXCEPT ![t] = NoFrame]
    BY <1>4, Zenon DEF GrantBlocked
  <2>4. /\ blocked_locks' \in [Frames -> Seq(Frames)]
        /\ todo' \in [Threads -> Seq(Frames)]
        /\ \A g \in Frames : \A i \in DOMAIN blocked_locks'[g] :
             req'[blocked_locks'[g][i]] # NoReq
        /\ \A u \in Threads : \A i \in DOMAIN todo'[u] : req'[todo'[u][i]] # NoReq
    BY <2>1, <2>2, TakeKeeps, Zenon
  <2>5. Exclusive'
    BY <2>2, Zenon DEF IInv, Exclusive, Conflict, names_conflict, types_conflict
  <2> QED
    BY <2>2, <2>3, <2>4, <2>5, Zenon DEF IInv, Typed, Known
<1>5. ASSUME NEW t \in Threads, Retry(t) PROVE IInv'
  BY <1>5, RetryKeeps, Zenon
<1>6. ASSUME NEW t \in Threads, NEW c \in Transports, Release(t, c) PROVE IInv'
  <2>1. /\ req' = req /\ dir_list' = dir_list /\ blocked_locks' = blocked_locks
        /\ unlocked' = unlocked /\ todo' = todo
        /\ pc' = [pc EXCEPT ![t] = "section"] /\ pc[t] = "idle"
    BY <1>6, Zenon DEF Release
  <2> QED
    BY <2>1 DEF IInv, Typed, Known, Exclusive, Conflict, names_conflict, types_conflict
<1>7. ASSUME NEW t \in Threads, ReleaseOne(t) PROVE IInv'
  <2>1. PICK i \in DOMAIN dir_list :
          dir_list' = list_del(dir_list, i) /\ TakeBlocked(t, dir_list[i])
    BY <1>7, Zenon DEF ReleaseOne
  <2>2. req' = req /\ pc' = pc /\ unlocked' = unlocked
    BY <1>7, Zenon DEF ReleaseOne
  <2>3. dir_list[i] \in Frames
    BY DEF IInv, Typed
  <2>4. /\ blocked_locks' \in [Frames -> Seq(Frames)]
        /\ todo' \in [Threads -> Seq(Frames)]
        /\ \A g \in Frames : \A k \in DOMAIN blocked_locks'[g] :
             req'[blocked_locks'[g][k]] # NoReq
        /\ \A u \in Threads : \A k \in DOMAIN todo'[u] : req'[todo'[u][k]] # NoReq
    BY <2>1, <2>2, <2>3, TakeKeeps, Zenon
  <2>5. /\ dir_list' \in Seq(Frames) /\ Exclusive'
        /\ \A k \in DOMAIN dir_list' : req'[dir_list'[k]] # NoReq
    BY <2>1, <2>2, RemoveExclusive, Zenon
  <2> QED
    BY <2>2, <2>4, <2>5, Zenon DEF IInv, Typed, Known
<1>8. ASSUME NEW t \in Threads, LeaveSection(t) \/ UnwindGranted(t) PROVE IInv'
  <2>1. /\ req' = req /\ dir_list' = dir_list /\ blocked_locks' = blocked_locks
        /\ unlocked' = unlocked /\ todo' = todo
    BY <1>8, Zenon DEF LeaveSection, UnwindGranted
  <2>2. pc' = pc \/ pc' = [pc EXCEPT ![t] = "unwind"] \/ pc' = [pc EXCEPT ![t] = "idle"]
    BY <1>8, Zenon DEF LeaveSection, UnwindGranted
  <2>3. Typed'
    BY <2>1, <2>2, Zenon DEF IInv, Typed
  <2> QED
    BY <2>1, <2>3, Zenon DEF IInv, Known, Exclusive, Conflict, names_conflict, types_conflict
<1> QED
  BY <1>1, <1>2, <1>3, <1>4, <1>5, <1>6, <1>7, <1>8, Zenon DEF Next, Working, Rest

\* Locks held on a directory never conflict (pl_entrylk), for every number of
\* threads, clients, names and requests.
THEOREM LocksExclude == Spec => []Exclusive
<1>1. IInv => Exclusive
  BY Zenon DEF IInv
<1> QED
  BY <1>1, InitIInv, NextKeeps, PTL DEF Spec
-----------------------------------------------------------------------------
(* Who waits, and where.                                                  *)

Blocked(h) == Range(blocked_locks[h])
Todo(t) == Range(todo[t])
Granted(t) == Range(granted[t])

Unanswered(f) == req[f] # NoReq /\ reply[f] = "none"

Listed(f) ==
  \/ \E h \in Frames : f \in Blocked(h)
  \/ \E t \in Threads : f \in Todo(t) \/ f \in Granted(t)

\* A lock that is held, or was taken out of the list by an unlock that has yet
\* to retry the requests blocked on it.
Released(h) == \E t \in Threads : unlocked[t] = h

\* The types Typed leaves out, and what a thread outside its critical section
\* has left in its hands.
Kept ==
  /\ reply \in [Frames -> {"none", "granted", "EAGAIN", "unlocked"}]
  /\ granted \in [Threads -> Seq(Frames)]
  /\ scan \in [Threads -> SUBSET Frames]
  /\ \A t \in Threads : pc[t] # "section" => todo[t] = <<>> /\ scan[t] = {}
  /\ \A t \in Threads : pc[t] # "grant" => unlocked[t] = NoFrame
  /\ \A t \in Threads : unlocked[t] # NoFrame => req[unlocked[t]] # NoReq
  /\ \A f \in Frames : req[f] = NoReq => reply[f] = "none"

\* A name is locked once: the second read lock on it is only counted.
UniqueNames ==
  \A i, j \in DOMAIN dir_list :
    req[dir_list[i]].name = req[dir_list[j]].name => i = j

\* A request is in one list, once.
OneList ==
  /\ \A h \in Frames : IsInjective(blocked_locks[h])
  /\ \A t \in Threads : IsInjective(todo[t]) /\ IsInjective(granted[t])
  /\ \A t \in Threads : Todo(t) \cap Granted(t) = {}
  /\ \A g, h \in Frames : g # h => Blocked(g) \cap Blocked(h) = {}
  /\ \A h \in Frames : \A t \in Threads : Blocked(h) \cap (Todo(t) \cup Granted(t)) = {}
  /\ \A t, u \in Threads :
       t # u => (Todo(t) \cup Granted(t)) \cap (Todo(u) \cup Granted(u)) = {}

\* The requests in the lists are the ones without an answer.  They hang on a
\* lock that is held or just released, and none that waits is such a lock.
Waits ==
  /\ \A f \in Frames : Unanswered(f) <=> Listed(f)
  /\ \A h \in Frames : Blocked(h) # {} => h \in Held \/ Released(h)
  /\ \A f \in Frames : f \in Held \/ Released(f) =>
       /\ \A h \in Frames : f \notin Blocked(h)
       /\ \A t \in Threads : f \notin Todo(t)
  /\ BlockedForCause

WInv == IInv /\ Kept /\ UniqueNames /\ OneList /\ Waits

-----------------------------------------------------------------------------
(* Sequences as sets.                                                      *)

\* Prepending adds one element.
LEMMA ConsRange ==
  ASSUME NEW S, NEW s \in Seq(S), NEW x \in S
  PROVE  /\ Range(<<x>> \o s) = {x} \cup Range(s)
         /\ IsInjective(s) /\ x \notin Range(s) => IsInjective(<<x>> \o s)
<1> DEFINE z == <<x>> \o s
<1>1. /\ z \in Seq(S) /\ Len(z) = Len(s) + 1 /\ Len(s) \in Nat
      /\ \A k \in 1 .. Len(s) + 1 : z[k] = IF k = 1 THEN x ELSE s[k - 1]
  BY ConsProperties
<1>2. DOMAIN z = 1 .. Len(s) + 1 /\ DOMAIN s = 1 .. Len(s)
  BY <1>1
<1> HIDE DEF z
<1>3. z[1] = x /\ 1 \in DOMAIN z
  BY <1>1, <1>2
<1>4. \A k \in DOMAIN s : k + 1 \in DOMAIN z /\ z[k + 1] = s[k]
  BY <1>1, <1>2
<1>5. \A k \in DOMAIN z : k # 1 => k - 1 \in DOMAIN s /\ z[k] = s[k - 1]
  BY <1>1, <1>2
<1>6. Range(z) = {x} \cup Range(s)
  BY <1>3, <1>4, <1>5 DEF Range
<1>7. ASSUME IsInjective(s), x \notin Range(s) PROVE IsInjective(z)
  <2> SUFFICES ASSUME NEW i \in DOMAIN z, NEW j \in DOMAIN z, z[i] = z[j] PROVE i = j
    BY Zenon DEF IsInjective
  <2>1. CASE i = 1 \/ j = 1
    BY <2>1, <1>3, <1>5, <1>7, Zenon DEF Range
  <2>2. CASE i # 1 /\ j # 1
    <3>1. i - 1 \in DOMAIN s /\ j - 1 \in DOMAIN s /\ s[i - 1] = s[j - 1]
      BY <2>2, <1>5, Zenon
    <3>2. i - 1 = j - 1
      BY <3>1, <1>7, Zenon DEF IsInjective
    <3> QED
      BY <3>2, <1>2
  <2> QED
    BY <2>1, <2>2, Zenon
<1> QED
  BY <1>6, <1>7, Zenon DEF z

\* Taking the head removes one element.
LEMMA TailRange ==
  ASSUME NEW S, NEW s \in Seq(S), s # <<>>
  PROVE  /\ Head(s) \in Range(s) /\ Head(s) \in S
         /\ IsInjective(s) => /\ IsInjective(Tail(s))
                             /\ Range(Tail(s)) = Range(s) \ {Head(s)}
<1>1. /\ Len(s) \in Nat \ {0} /\ DOMAIN s = 1 .. Len(s) /\ Head(s) = s[1] /\ Head(s) \in S
      /\ DOMAIN Tail(s) = 1 .. Len(s) - 1
      /\ \A k \in 1 .. Len(s) - 1 : Tail(s)[k] = s[k + 1]
  OBVIOUS
<1>2. 1 \in DOMAIN s /\ \A k \in DOMAIN Tail(s) : k + 1 \in DOMAIN s /\ Tail(s)[k] = s[k + 1]
  BY <1>1
<1>3. \A k \in DOMAIN s : k # 1 => k - 1 \in DOMAIN Tail(s) /\ s[k] = Tail(s)[k - 1]
  BY <1>1
<1>4. Head(s) \in Range(s)
  BY <1>1, <1>2, Zenon DEF Range
<1>5. ASSUME IsInjective(s) PROVE IsInjective(Tail(s))
  <2> SUFFICES ASSUME NEW i \in DOMAIN Tail(s), NEW j \in DOMAIN Tail(s), Tail(s)[i] = Tail(s)[j]
               PROVE  i = j
    BY Zenon DEF IsInjective
  <2>1. i + 1 = j + 1
    BY <1>2, <1>5 DEF IsInjective
  <2> QED
    BY <2>1, <1>1
<1>6. ASSUME IsInjective(s) PROVE Range(Tail(s)) = Range(s) \ {Head(s)}
  <2>1. \A k \in DOMAIN Tail(s) : Tail(s)[k] # Head(s) /\ Tail(s)[k] \in Range(s)
    <3> SUFFICES ASSUME NEW k \in DOMAIN Tail(s) PROVE Tail(s)[k] # Head(s) /\ Tail(s)[k] \in Range(s)
      OBVIOUS
    <3>1. k + 1 # 1
      BY <1>1
    <3> QED
      BY <3>1, <1>1, <1>2, <1>6, Zenon DEF IsInjective, Range
  <2>2. ASSUME NEW y \in Range(s), y # Head(s) PROVE y \in Range(Tail(s))
    <3>1. PICK k \in DOMAIN s : y = s[k]
      BY Zenon DEF Range
    <3>2. k - 1 \in DOMAIN Tail(s) /\ y = Tail(s)[k - 1]
      BY <3>1, <2>2, <1>1, <1>3, Zenon
    <3> QED
      BY <3>2, Zenon DEF Range
  <2>3. \A y \in Range(Tail(s)) : y # Head(s) /\ y \in Range(s)
    BY <2>1, Zenon DEF Range
  <2> QED
    BY <2>2, <2>3, Zenon
<1> QED
  BY <1>1, <1>4, <1>5, <1>6, Zenon

\* Removing a place of a sequence without repetitions removes its element.
LEMMA RemoveRange ==
  ASSUME NEW S, NEW s \in Seq(S), NEW i \in DOMAIN s, IsInjective(s)
  PROVE  Range(list_del(s, i)) = Range(s) \ {s[i]}
<1> DEFINE z == list_del(s, i)
<1>1. i \in 1 .. Len(s) /\ Len(s) \in Nat /\ DOMAIN s = 1 .. Len(s)
  OBVIOUS
<1>2. /\ z \in Seq(S) /\ Len(z) = Len(s) - 1
      /\ \A k \in 1 .. Len(s) - 1 : z[k] = IF k < i THEN s[k] ELSE s[k + 1]
  BY <1>1, ListDelProperties, Zenon
<1> HIDE DEF z
<1>3. DOMAIN z = 1 .. Len(s) - 1
  BY <1>1, <1>2
<1>4. ASSUME NEW k \in DOMAIN z PROVE z[k] \in Range(s) \ {s[i]}
  <2>1. CASE k < i
    BY <2>1, <1>1, <1>2, <1>3 DEF Range, IsInjective
  <2>2. CASE ~ (k < i)
    <3>1. k + 1 \in DOMAIN s /\ k + 1 # i /\ z[k] = s[k + 1]
      BY <2>2, <1>1, <1>2, <1>3
    <3> QED
      BY <3>1, Zenon DEF Range, IsInjective
  <2> QED
    BY <2>1, <2>2, Zenon
<1>5. ASSUME NEW k \in DOMAIN s, k # i PROVE s[k] \in Range(z)
  <2>1. CASE k < i
    <3>1. k \in DOMAIN z /\ z[k] = s[k]
      BY <2>1, <1>1, <1>2, <1>3
    <3> QED
      BY <3>1, Zenon DEF Range
  <2>2. CASE ~ (k < i)
    <3>1. k - 1 \in DOMAIN z /\ z[k - 1] = s[k]
      BY <2>2, <1>1, <1>2, <1>3, <1>5
    <3> QED
      BY <3>1, Zenon DEF Range
  <2> QED
    BY <2>1, <2>2, Zenon
<1> QED
  BY <1>4, <1>5, Zenon DEF Range, z
-----------------------------------------------------------------------------
(* What the pieces of the actions do to the lists, as sets.                *)

\* The list of locks has no repetitions and names frames with a request.
LEMMA HeldFacts ==
  ASSUME WInv
  PROVE  /\ dir_list \in Seq(Frames) /\ IsInjective(dir_list)
         /\ Held \subseteq Frames
         /\ \A h \in Held : req[h] # NoReq
<1>1. dir_list \in Seq(Frames) /\ \A i \in DOMAIN dir_list : req[dir_list[i]] # NoReq
  BY Zenon DEF WInv, IInv, Typed, Known
<1>2. IsInjective(dir_list)
  BY Zenon DEF WInv, UniqueNames, IsInjective
<1>3. \A i \in DOMAIN dir_list : dir_list[i] \in Frames
  BY <1>1
<1> QED
  BY <1>1, <1>2, <1>3, Zenon DEF Held, Range

\* The lists are typed.
LEMMA ListsTyped ==
  ASSUME WInv
  PROVE  /\ \A h \in Frames : blocked_locks[h] \in Seq(Frames) /\ Blocked(h) \subseteq Frames
         /\ \A t \in Threads : /\ todo[t] \in Seq(Frames) /\ Todo(t) \subseteq Frames
                               /\ granted[t] \in Seq(Frames) /\ Granted(t) \subseteq Frames
<1>1. \A s \in Seq(Frames) : Range(s) \subseteq Frames
  BY DEF Range
<1>2. /\ \A h \in Frames : blocked_locks[h] \in Seq(Frames)
      /\ \A t \in Threads : todo[t] \in Seq(Frames) /\ granted[t] \in Seq(Frames)
  BY Zenon DEF WInv, IInv, Typed, Kept
<1> QED
  BY <1>1, <1>2, Zenon DEF Blocked, Todo, Granted

\* __lock_name inserts a lock in front, on a name that has none.
LEMMA InsertEffect ==
  ASSUME WInv, NEW f \in Frames, NEW r, Insert(f, r), req'[f] = r,
         \A i \in DOMAIN dir_list : req'[dir_list[i]] = req[dir_list[i]]
  PROVE  Held' = Held \cup {f} /\ UniqueNames'
<1>1. dir_list \in Seq(Frames) /\ dir_list' = <<f>> \o dir_list
  BY HeldFacts, Zenon DEF Insert
<1>2. Held' = Held \cup {f}
  BY <1>1, ConsRange DEF Held
<1>3. \A i \in DOMAIN dir_list : req[dir_list[i]].name # r.name
  BY Zenon DEF Insert, Grantable, NameHeld, Conflict, names_conflict, types_conflict
<1>4. /\ Len(dir_list') = Len(dir_list) + 1 /\ dir_list' \in Seq(Frames)
      /\ \A k \in 1 .. Len(dir_list) + 1 :
           dir_list'[k] = IF k = 1 THEN f ELSE dir_list[k - 1]
  BY <1>1, ConsProperties
<1>5. /\ DOMAIN dir_list = 1 .. Len(dir_list) /\ DOMAIN dir_list' = 1 .. Len(dir_list) + 1
      /\ Len(dir_list) \in Nat
  BY <1>1, <1>4
<1>6. \A k \in DOMAIN dir_list' :
        k # 1 => k - 1 \in DOMAIN dir_list /\ req'[dir_list'[k]] = req[dir_list[k - 1]]
  BY <1>4, <1>5
<1>7. 1 \in DOMAIN dir_list' /\ req'[dir_list'[1]] = r
  BY <1>4, <1>5
<1>8. UniqueNames'
  <2> SUFFICES ASSUME NEW i \in DOMAIN dir_list', NEW j \in DOMAIN dir_list',
                      req'[dir_list'[i]].name = req'[dir_list'[j]].name
               PROVE  i = j
    BY Zenon DEF UniqueNames
  <2>1. CASE i = 1 \/ j = 1
    BY <2>1, <1>3, <1>6, <1>7
  <2>2. CASE i # 1 /\ j # 1
    <3>1. i - 1 = j - 1
      BY <2>2, <1>6 DEF WInv, UniqueNames
    <3> QED
      BY <3>1, <1>5
  <2> QED
    BY <2>1, <2>2, Zenon
<1> QED
  BY <1>2, <1>8, Zenon

\* Taking a lock out of the list.
LEMMA RemoveEffect ==
  ASSUME WInv, NEW i \in DOMAIN dir_list, dir_list' = list_del(dir_list, i), req' = req
  PROVE  Held' = Held \ {dir_list[i]} /\ UniqueNames' /\ dir_list[i] \in Held
<1>1. dir_list \in Seq(Frames) /\ IsInjective(dir_list)
  BY HeldFacts, Zenon
<1>2. i \in 1 .. Len(dir_list) /\ Len(dir_list) \in Nat /\ DOMAIN dir_list = 1 .. Len(dir_list)
  BY <1>1
<1>3. Held' = Held \ {dir_list[i]} /\ dir_list[i] \in Held
  <2>1. Range(list_del(dir_list, i)) = Range(dir_list) \ {dir_list[i]}
    BY <1>1, RemoveRange, Zenon
  <2> QED
    BY <2>1, Zenon DEF Held, Range
<1>4. /\ dir_list' \in Seq(Frames)
      /\ Len(dir_list') = Len(dir_list) - 1
      /\ \A k \in 1 .. Len(dir_list) - 1 :
           dir_list'[k] = IF k < i THEN dir_list[k] ELSE dir_list[k + 1]
  BY <1>1, <1>2, ListDelProperties, Zenon
<1> DEFINE old(k) == IF k < i THEN k ELSE k + 1
<1>5. DOMAIN dir_list' = 1 .. Len(dir_list) - 1
  BY <1>2, <1>4
<1>6. \A k \in DOMAIN dir_list' : old(k) \in DOMAIN dir_list /\ dir_list'[k] = dir_list[old(k)]
  BY <1>2, <1>4, <1>5
<1>7. \A k, l \in DOMAIN dir_list' : old(k) = old(l) => k = l
  BY <1>2, <1>5
<1> HIDE DEF old
<1>8. UniqueNames'
  BY <1>6, <1>7 DEF WInv, UniqueNames
<1> QED
  BY <1>3, <1>8, Zenon

\* __lock_name hangs a request on a held lock in its way.
LEMMA BlockEffect ==
  ASSUME WInv, NEW f \in Frames, NEW r, Block(f, r), \A h \in Frames : f \notin Blocked(h)
  PROVE  \E h \in Held :
           /\ Conflict(req[h], r)
           /\ \A g \in Frames : /\ Blocked(g)' = IF g = h THEN Blocked(g) \cup {f} ELSE Blocked(g)
                                /\ IsInjective(blocked_locks[g])'
<1>1. PICK i \in DOMAIN dir_list :
        /\ Conflict(req[dir_list[i]], r)
        /\ blocked_locks' = [blocked_locks EXCEPT ![dir_list[i]] = <<f>> \o @]
  BY Zenon DEF Block, FirstConflict
<1> DEFINE h == dir_list[i]
<1>2. h \in Held /\ h \in Frames
  BY HeldFacts, Zenon DEF Held, Range
<1>3. /\ \A g \in Frames : blocked_locks'[g] = IF g = h THEN <<f>> \o blocked_locks[h] ELSE blocked_locks[g]
      /\ blocked_locks[h] \in Seq(Frames)
  BY <1>1, <1>2, ListsTyped, Zenon DEF WInv, IInv, Typed
<1>4. /\ Range(<<f>> \o blocked_locks[h]) = {f} \cup Range(blocked_locks[h])
      /\ IsInjective(<<f>> \o blocked_locks[h])
  BY <1>2, <1>3, ConsRange, Zenon DEF WInv, OneList, Blocked
<1>5. ASSUME NEW g \in Frames
      PROVE  /\ Blocked(g)' = IF g = h THEN Blocked(g) \cup {f} ELSE Blocked(g)
             /\ IsInjective(blocked_locks[g])'
  <2>1. CASE g = h
    BY <2>1, <1>3, <1>4, Zenon DEF Blocked
  <2>2. CASE g # h
    BY <2>2, <1>3, Zenon DEF Blocked, WInv, OneList
  <2> QED
    BY <2>1, <2>2, Zenon
<1> QED
  BY <1>1, <1>2, <1>5, Zenon

\* The requests blocked on a lock move to the thread that will retry them.
LEMMA TakeEffect ==
  ASSUME WInv, NEW t \in Threads, NEW h \in Frames, TakeBlocked(t, h), todo[t] = <<>>
  PROVE  /\ \A g \in Frames : /\ Blocked(g)' = IF g = h THEN {} ELSE Blocked(g)
                              /\ IsInjective(blocked_locks[g])'
         /\ \A u \in Threads : /\ Todo(u)' = IF u = t THEN Blocked(h) ELSE Todo(u)
                               /\ IsInjective(todo[u])'
         /\ Todo(t) = {}
<1>1. /\ \A g \in Frames : blocked_locks'[g] = IF g = h THEN <<>> ELSE blocked_locks[g]
      /\ \A u \in Threads : todo'[u] = IF u = t THEN blocked_locks[h] ELSE todo[u]
  BY Zenon DEF TakeBlocked, WInv, IInv, Typed
<1>2. Range(<<>>) = {} /\ IsInjective(<<>>)
  BY DEF Range, IsInjective
<1> QED
  BY <1>1, <1>2, Zenon DEF Blocked, Todo, WInv, OneList
-----------------------------------------------------------------------------
(* The steps.                                                              *)

\* What WInv adds to IInv, which every step is known to keep.
Proper == Kept /\ UniqueNames /\ OneList /\ Waits

\* A request that has just arrived is in no list, and nothing waits for it.
LEMMA NewIsNowhere ==
  ASSUME WInv, NEW f \in Frames, req[f] = NoReq
  PROVE  /\ ~ Listed(f) /\ f \notin Held /\ ~ Released(f)
         /\ Blocked(f) = {}
<1>1. ~ Listed(f)
  BY Zenon DEF WInv, Waits, Unanswered
<1>2. f \notin Held
  BY HeldFacts, Zenon
<1>3. ~ Released(f)
  BY ELAssumption, Zenon DEF Released, WInv, Kept, NoFrame
<1> QED
  BY <1>1, <1>2, <1>3, Zenon DEF WInv, Waits

\* pl_entrylk_common with a lock request: it is answered, or it is hung on one
\* lock that is held.
LEMMA LockWaits ==
  ASSUME WInv, NEW t \in Threads, NEW f \in Frames, NEW r \in Request, Lock(t, f, r)
  PROVE  Proper'
<1>1. /\ req[f] = NoReq /\ req' = [req EXCEPT ![f] = r] /\ r # NoReq
      /\ pc' = pc /\ unlocked' = unlocked /\ scan' = scan /\ todo' = todo /\ granted' = granted
  BY RequestIsReq, Zenon DEF Lock, LockGranted, LockBlocked, LockRefused, Arrives, threads
<1>2. /\ ~ Listed(f) /\ f \notin Held /\ ~ Released(f) /\ Blocked(f) = {}
  BY <1>1, NewIsNowhere, Zenon
<1>3. req'[f] = r /\ \A g \in Frames : g # f => req'[g] = req[g]
  BY <1>1, Zenon DEF WInv, IInv, Typed
<1>4. \A h \in Held : h \in Frames /\ req'[h] = req[h]
  BY <1>2, <1>3, HeldFacts, Zenon
<1>5. \A i \in DOMAIN dir_list : req'[dir_list[i]] = req[dir_list[i]]
  BY <1>4, Zenon DEF Held, Range
<1>6. \A u \in Threads : Todo(u)' = Todo(u) /\ Granted(u)' = Granted(u)
  BY <1>1, Zenon DEF Todo, Granted
<1>7. \A h : Released(h)' <=> Released(h)
  BY <1>1, Zenon DEF Released
<1>8. ASSUME NEW a \in {"none", "granted", "EAGAIN", "unlocked"}, reply' = [reply EXCEPT ![f] = a]
      PROVE  Kept'
  <2>1. \A g \in Frames : reply'[g] = IF g = f THEN a ELSE reply[g]
    BY <1>8, Zenon DEF WInv, Kept
  <2>2. \A u \in Threads : unlocked[u] # NoFrame => unlocked[u] \in Frames /\ unlocked[u] # f
    BY <1>2, Zenon DEF WInv, IInv, Typed, Released
  <2> QED
    BY <2>1, <2>2, <1>1, <1>3, <1>8, SMTT(30) DEF WInv, Kept
<1>9. CASE LockBlocked(t, f, r)
  <2>1. Block(f, r) /\ reply' = reply /\ dir_list' = dir_list
    BY <1>9, Zenon DEF LockBlocked, Block
  <2>2. reply[f] = "none"
    BY <1>1, Zenon DEF WInv, Kept
  <2>3. Kept'
    BY <1>8, <2>1, <2>2 DEF WInv, Kept
  <2>4. Held' = Held /\ UniqueNames'
    BY <1>5, <2>1, SMTT(30) DEF Held, WInv, UniqueNames
  <2>5. PICK h \in Held :
          /\ Conflict(req[h], r)
          /\ \A g \in Frames : /\ Blocked(g)' = IF g = h THEN Blocked(g) \cup {f} ELSE Blocked(g)
                               /\ IsInjective(blocked_locks[g])'
    BY <1>2, <2>1, BlockEffect, Zenon DEF Listed
  <2>6. OneList'
    BY <2>5, <1>1, <1>2, <1>6 DEF WInv, OneList, Listed
  <2>7. \A g \in Frames : Unanswered(g)' <=> Listed(g)'
    <3> SUFFICES ASSUME NEW g \in Frames PROVE Unanswered(g)' <=> Listed(g)'
      OBVIOUS
    <3>1. CASE g = f
      <4>1. Unanswered(g)'
        BY <3>1, <1>1, <1>3, <2>1, <2>2, Zenon DEF Unanswered
      <4>2. Listed(g)'
        BY <3>1, <1>4, <2>5, Zenon DEF Listed
      <4> QED
        BY <4>1, <4>2, Zenon
    <3>2. CASE g # f
      <4>1. Unanswered(g)' <=> Unanswered(g)
        BY <3>2, <1>3, <2>1, Zenon DEF Unanswered
      <4>2. Listed(g)' <=> Listed(g)
        BY <3>2, <1>6, <2>5, Zenon DEF Listed
      <4> QED
        BY <4>1, <4>2, Zenon DEF WInv, Waits
    <3> QED
      BY <3>1, <3>2, Zenon
  <2>8. BlockedForCause'
    <3> SUFFICES ASSUME NEW k \in Held, NEW g \in Blocked(k)' PROVE Conflict(req'[k], req'[g])
      BY <2>4, Zenon DEF BlockedForCause, Blocked, Conflict, names_conflict, types_conflict
    <3>1. CASE g = f
      BY <3>1, <1>2, <1>3, <1>4, <2>5, Zenon DEF Listed
    <3>2. CASE g # f
      <4>1. g \in Blocked(k) /\ g \in Frames
        BY <3>2, <1>4, <2>5, ListsTyped, Zenon
      <4> QED
        BY <4>1, <3>2, <1>3, <1>4, Zenon DEF WInv, Waits, BlockedForCause, Blocked
    <3> QED
      BY <3>1, <3>2, Zenon
  <2>9. \A g \in Frames : Blocked(g)' # {} => g \in Held' \/ Released(g)'
    BY <2>4, <2>5, <1>7, Zenon DEF WInv, Waits
  <2>10. \A g \in Frames : g \in Held' \/ Released(g)' =>
            /\ \A k \in Frames : g \notin Blocked(k)'
            /\ \A u \in Threads : g \notin Todo(u)'
    BY <2>4, <2>5, <1>2, <1>6, <1>7, SMTT(30) DEF WInv, Waits
  <2>11. Waits'
    BY <2>7, <2>8, <2>9, <2>10, Zenon DEF Waits
  <2> QED
    BY <2>3, <2>4, <2>6, <2>11, Zenon DEF Proper
<1>10. CASE LockGranted(t, f, r) \/ LockRefused(t, f, r)
  <2>1. PICK a \in {"granted", "EAGAIN"} : reply' = [reply EXCEPT ![f] = a]
    BY <1>10, Zenon DEF LockGranted, LockRefused
  <2>2. Kept' /\ \A g \in Frames : reply'[g] = IF g = f THEN a ELSE reply[g]
    BY <2>1, <1>8, Zenon DEF WInv, Kept
  <2>3. /\ blocked_locks' = blocked_locks
        /\ dir_list' = dir_list \/ Insert(f, r)
    BY <1>10, Zenon DEF LockGranted, LockRefused, Insert, CountReader, locks
  <2>4. UniqueNames' /\ (Held' = Held \/ Held' = Held \cup {f})
    <3>1. CASE dir_list' = dir_list
      BY <3>1, <1>5 DEF Held, WInv, UniqueNames
    <3>2. CASE Insert(f, r)
      BY <3>2, <1>3, <1>5, InsertEffect, Zenon
    <3> QED
      BY <3>1, <3>2, <2>3, Zenon
  <2>5. \A g : Blocked(g)' = Blocked(g)
    BY <2>3, Zenon DEF Blocked
  <2>6. OneList'
    BY <2>3, <2>5, <1>1, <1>6, Zenon DEF WInv, OneList
  <2>7. \A g : Listed(g)' <=> Listed(g)
    BY <2>5, <1>6, Zenon DEF Listed
  <2>8. \A g \in Frames : Unanswered(g)' <=> Listed(g)'
    BY <2>2, <2>7, <1>2, <1>3, Zenon DEF WInv, Waits, Unanswered
  <2>9. BlockedForCause'
    <3> SUFFICES ASSUME NEW k \in Held', NEW g \in Blocked(k) PROVE Conflict(req'[k], req'[g])
      BY <2>5, Zenon DEF BlockedForCause, Blocked, Conflict, names_conflict, types_conflict
    <3>1. k \in Held /\ k \in Frames
      BY <2>4, <1>2, <1>4, Zenon
    <3>2. g \in Frames /\ g # f
      BY <3>1, <1>2, ListsTyped, Zenon DEF Listed
    <3> QED
      BY <3>1, <3>2, <1>3, <1>4, Zenon DEF WInv, Waits, BlockedForCause, Blocked
  <2>10. Waits'
    BY <2>4, <2>5, <2>8, <2>9, <1>2, <1>6, <1>7, SMTT(30) DEF WInv, Waits, Listed
  <2> QED
    BY <2>2, <2>4, <2>6, <2>10, Zenon DEF Proper
<1> QED
  BY <1>9, <1>10, Zenon DEF Lock

\* The first critical section of an unlock: what hangs on the lock stays there
\* while the thread holds on to it.
LEMMA UnlockWaits ==
  ASSUME WInv, NEW t \in Threads, NEW f \in Frames, Unlock(t, f)
  PROVE  Proper'
<1>1. /\ req' = req /\ blocked_locks' = blocked_locks /\ todo' = todo
      /\ granted' = granted /\ scan' = scan
      /\ pc[t] = "idle" /\ reply[f] # "none" /\ reply' = [reply EXCEPT ![f] = "unlocked"]
  BY Zenon DEF Unlock
<1>2. \A g \in Frames : reply'[g] = IF g = f THEN "unlocked" ELSE reply[g]
  BY <1>1, Zenon DEF WInv, Kept
<1>3. /\ \A g : Blocked(g)' = Blocked(g)
      /\ \A u : Todo(u)' = Todo(u) /\ Granted(u)' = Granted(u)
      /\ \A g : Listed(g)' <=> Listed(g)
  BY <1>1, Zenon DEF Blocked, Todo, Granted, Listed
<1>4. OneList'
  BY <1>1, <1>3, Zenon DEF WInv, OneList
<1>5. \A g \in Frames : Unanswered(g)' <=> Listed(g)'
  BY <1>1, <1>2, <1>3 DEF WInv, Waits, Unanswered
<1>6. unlocked[t] = NoFrame
  BY <1>1, Zenon DEF WInv, Kept
<1>7. \A g \in Frames : req[g] = NoReq => g # f
  BY <1>1, Zenon DEF WInv, Kept
<1>8. CASE dir_list' = dir_list /\ pc' = pc /\ unlocked' = unlocked
  <2>1. Held' = Held /\ UniqueNames' /\ \A g : Released(g)' <=> Released(g)
    BY <1>1, <1>8, Zenon DEF Held, Released, WInv, UniqueNames
  <2>2. Kept'
    BY <1>1, <1>2, <1>7, <1>8, Zenon DEF WInv, Kept
  <2>3. BlockedForCause'
    BY <1>1, <1>3, <2>1, Zenon DEF WInv, Waits, BlockedForCause, Blocked, Conflict, names_conflict, types_conflict
  <2>4. Waits'
    BY <1>3, <1>5, <2>1, <2>3, Zenon DEF WInv, Waits
  <2> QED
    BY <1>4, <2>1, <2>2, <2>4, Zenon DEF Proper
<1>9. ASSUME NEW i \in DOMAIN dir_list, unlocked' = [unlocked EXCEPT ![t] = dir_list[i]],
             pc' = [pc EXCEPT ![t] = "grant"], dir_list' = list_del(dir_list, i)
      PROVE  Proper'
  <2>1. Held' = Held \ {dir_list[i]} /\ UniqueNames' /\ dir_list[i] \in Held
    BY <1>1, <1>9, RemoveEffect, Zenon
  <2>2. dir_list[i] \in Frames /\ req[dir_list[i]] # NoReq
    BY <2>1, HeldFacts, Zenon
  <2>3. \A u \in Threads : /\ unlocked'[u] = IF u = t THEN dir_list[i] ELSE unlocked[u]
                           /\ pc'[u] = IF u = t THEN "grant" ELSE pc[u]
    BY <1>9, Zenon DEF WInv, IInv, Typed
  <2>4. \A g \in Frames : Released(g)' <=> Released(g) \/ g = dir_list[i]
    BY <2>2, <2>3, <1>6, ELAssumption, Zenon DEF Released, NoFrame
  <2>5. Kept'
    <3>1. \A u \in Threads : pc'[u] # "section" => todo'[u] = <<>> /\ scan'[u] = {}
      BY <1>1, <2>3, Zenon DEF WInv, Kept
    <3>2. \A u \in Threads : /\ pc'[u] # "grant" => unlocked'[u] = NoFrame
                             /\ unlocked'[u] # NoFrame => req'[unlocked'[u]] # NoReq
      BY <1>1, <2>2, <2>3, Zenon DEF WInv, Kept
    <3> QED
      BY <1>1, <1>2, <1>7, <3>1, <3>2, Zenon DEF WInv, Kept
  <2>6. BlockedForCause'
    BY <1>1, <2>1, Zenon DEF WInv, Waits, BlockedForCause, Conflict, names_conflict, types_conflict
  <2>7. Waits'
    BY <1>3, <1>5, <2>1, <2>2, <2>4, <2>6, Zenon DEF WInv, Waits
  <2> QED
    BY <1>4, <2>1, <2>5, <2>7, Zenon DEF Proper
<1> QED
  BY <1>8, <1>9, Zenon DEF Unlock

\* What taking the requests blocked on the lock h does to the lists, when the
\* thread t has none left to retry (list_splice_init of h's blocked_locks).
Taken(t, h) ==
  /\ \A g \in Frames : /\ Blocked(g)' = IF g = h THEN {} ELSE Blocked(g)
                       /\ IsInjective(blocked_locks[g])'
  /\ \A u \in Threads : /\ Todo(u)' = IF u = t THEN Blocked(h) ELSE Todo(u)
                        /\ IsInjective(todo[u])'
  /\ \A u \in Threads : Granted(u)' = Granted(u) /\ IsInjective(granted[u])'

\* Every request is on one list still, after the blocked requests of a lock
\* have moved to the thread that retries them.
LEMMA TakenOneList ==
  ASSUME OneList, NEW t \in Threads, NEW h \in Frames, Taken(t, h)
  PROVE  OneList'
<1>1. \A u \in Threads : Todo(u)' \cap Granted(u)' = {}
  BY SMTT(30) DEF OneList, Taken
<1>2. \A g, k \in Frames : g # k => Blocked(g)' \cap Blocked(k)' = {}
  BY Zenon DEF OneList, Taken
<1>3. \A g \in Frames : \A u \in Threads : Blocked(g)' \cap (Todo(u)' \cup Granted(u)') = {}
  <2> TAKE g \in Frames
  <2> TAKE u \in Threads
  <2>1. CASE g = h
    BY <2>1, Zenon DEF Taken
  <2>2. CASE g # h
    BY <2>2 DEF OneList, Taken
  <2> QED
    BY <2>1, <2>2, Zenon
<1>4. ASSUME NEW u \in Threads, NEW v \in Threads, u # v
      PROVE  (Todo(u)' \cup Granted(u)') \cap (Todo(v)' \cup Granted(v)') = {}
  <2>1. CASE u = t
    BY <1>4, <2>1, SMTT(30) DEF OneList, Taken
  <2>2. CASE v = t
    BY <1>4, <2>2, SMTT(30) DEF OneList, Taken
  <2>3. CASE u # t /\ v # t
    BY <1>4, <2>3, Zenon DEF OneList, Taken
  <2> QED
    BY <2>1, <2>2, <2>3, Zenon
<1> QED
  BY <1>1, <1>2, <1>3, <1>4, Zenon DEF OneList, Taken

\* The second critical section begins: the requests blocked on the released
\* lock move to the thread.
LEMMA GrantWaits ==
  ASSUME WInv, NEW t \in Threads, GrantBlocked(t)
  PROVE  Proper'
<1> DEFINE h == unlocked[t]
<1>1. /\ pc[t] = "grant" /\ pc' = [pc EXCEPT ![t] = "section"]
      /\ TakeBlocked(t, h) /\ unlocked' = [unlocked EXCEPT ![t] = NoFrame]
      /\ req' = req /\ reply' = reply /\ dir_list' = dir_list /\ scan' = scan /\ granted' = granted
  BY Zenon DEF GrantBlocked
<1>2. h \in Frames /\ todo[t] = <<>> /\ scan[t] = {}
  BY <1>1, Zenon DEF WInv, IInv, Typed, Kept
<1>3. \A u \in Threads : /\ unlocked'[u] = IF u = t THEN NoFrame ELSE unlocked[u]
                         /\ pc'[u] = IF u = t THEN "section" ELSE pc[u]
                         /\ u # t => todo'[u] = todo[u]
  BY <1>1, Zenon DEF WInv, IInv, Typed, TakeBlocked
<1> HIDE DEF h
<1>4. /\ \A g \in Frames : /\ Blocked(g)' = IF g = h THEN {} ELSE Blocked(g)
                           /\ IsInjective(blocked_locks[g])'
      /\ \A u \in Threads : /\ Todo(u)' = IF u = t THEN Blocked(h) ELSE Todo(u)
                            /\ IsInjective(todo[u])'
      /\ Todo(t) = {}
  BY <1>1, <1>2, TakeEffect, Zenon
<1>5. Held' = Held /\ UniqueNames' /\ \A u : Granted(u)' = Granted(u)
  BY <1>1, Zenon DEF Held, Granted, WInv, UniqueNames
<1>6. \A g \in Frames : /\ Released(g)' => Released(g)
                        /\ Released(g) => Released(g)' \/ g = h
  BY <1>3, ELAssumption, Zenon DEF Released, NoFrame, h
<1>7. Kept'
  <2>1. \A u \in Threads : pc'[u] # "section" => todo'[u] = <<>> /\ scan'[u] = {}
    BY <1>1, <1>3, ZenonT(30) DEF WInv, Kept
  <2>2. \A u \in Threads : /\ pc'[u] # "grant" => unlocked'[u] = NoFrame
                           /\ unlocked'[u] # NoFrame => req'[unlocked'[u]] # NoReq
    BY <1>1, <1>3, SMTT(30) DEF WInv, Kept
  <2> QED
    BY <1>1, <2>1, <2>2, Zenon DEF WInv, Kept
<1>8. OneList'
  <2>1. OneList /\ h \in Frames
    BY <1>2, Zenon DEF WInv
  <2>2. \A u \in Threads : Granted(u)' = Granted(u) /\ IsInjective(granted[u])'
    BY <1>1, <1>5, <2>1, Zenon DEF OneList
  <2>3. Taken(t, h)
    BY <1>4, <2>2, Zenon DEF Taken
  <2> QED
    BY <2>1, <2>3, TakenOneList, Zenon
<1>9. \A g \in Frames : Listed(g)' <=> Listed(g)
  BY <1>2, <1>4, <1>5, Zenon DEF Listed
<1>10. \A g \in Frames : Unanswered(g)' <=> Listed(g)'
  BY <1>1, <1>9, Zenon DEF WInv, Waits, Unanswered
<1>11. BlockedForCause'
  <2> SUFFICES ASSUME NEW k \in Held, NEW g \in Blocked(k)' PROVE Conflict(req[k], req[g])
    BY <1>1, <1>5, Zenon DEF BlockedForCause, Blocked, Conflict, names_conflict, types_conflict
  <2>1. g \in Blocked(k)
    BY <1>4, HeldFacts, Zenon
  <2> QED
    BY <2>1, Zenon DEF WInv, Waits, BlockedForCause, Blocked
<1>12. \A g \in Frames : g \in Held' \/ Released(g)' =>
          /\ \A k \in Frames : g \notin Blocked(k)'
          /\ \A u \in Threads : g \notin Todo(u)'
  BY <1>2, <1>4, <1>5, <1>6, Zenon DEF WInv, Waits
<1>13. Waits'
  BY <1>4, <1>5, <1>6, <1>10, <1>11, <1>12, Zenon DEF WInv, Waits
<1> QED
  BY <1>5, <1>7, <1>8, <1>13, Zenon DEF Proper

\* The release loop takes a lock out of the list and its blocked requests with
\* it.
LEMMA ReleaseOneWaits ==
  ASSUME WInv, NEW t \in Threads, ReleaseOne(t)
  PROVE  Proper'
<1>1. PICK i \in DOMAIN dir_list :
        /\ dir_list[i] \in scan[t]
        /\ scan' = [scan EXCEPT ![t] = @ \ {dir_list[i]}]
        /\ dir_list' = list_del(dir_list, i)
        /\ TakeBlocked(t, dir_list[i])
  BY ZenonT(30) DEF ReleaseOne
<1> DEFINE h == dir_list[i]
<1>2. /\ todo[t] = <<>> /\ pc[t] = "section"
      /\ req' = req /\ reply' = reply /\ pc' = pc /\ unlocked' = unlocked /\ granted' = granted
  BY Zenon DEF ReleaseOne
<1>3. Held' = Held \ {h} /\ UniqueNames' /\ h \in Held /\ h \in Frames
  BY <1>1, <1>2, RemoveEffect, HeldFacts, Zenon
<1>4. \A u \in Threads : u # t => todo'[u] = todo[u] /\ scan'[u] = scan[u]
  BY <1>1, Zenon DEF TakeBlocked, WInv, IInv, Typed, Kept
<1>5. scan' \in [Threads -> SUBSET Frames]
  BY <1>1, Zenon DEF WInv, Kept
<1> HIDE DEF h
<1>6. /\ \A g \in Frames : /\ Blocked(g)' = IF g = h THEN {} ELSE Blocked(g)
                           /\ IsInjective(blocked_locks[g])'
      /\ \A u \in Threads : /\ Todo(u)' = IF u = t THEN Blocked(h) ELSE Todo(u)
                            /\ IsInjective(todo[u])'
      /\ Todo(t) = {}
  BY <1>1, <1>2, <1>3, TakeEffect, Zenon DEF h
<1>7. /\ \A u : Granted(u)' = Granted(u)
      /\ \A g : Released(g)' <=> Released(g)
  BY <1>2, Zenon DEF Granted, Released
<1>8. Kept'
  BY <1>2, <1>4, <1>5, Zenon DEF WInv, Kept
<1>9. OneList'
  <2>1. OneList /\ h \in Frames
    BY <1>3, Zenon DEF WInv
  <2>2. \A u \in Threads : Granted(u)' = Granted(u) /\ IsInjective(granted[u])'
    BY <1>2, <1>7, <2>1, Zenon DEF OneList
  <2>3. Taken(t, h)
    BY <1>6, <2>2, Zenon DEF Taken
  <2> QED
    BY <2>1, <2>3, TakenOneList, Zenon
<1>10. \A g \in Frames : Listed(g)' <=> Listed(g)
  BY <1>3, <1>6, <1>7, ZenonT(30) DEF Listed
<1>11. \A g \in Frames : Unanswered(g)' <=> Listed(g)'
  BY <1>2, <1>10, Zenon DEF WInv, Waits, Unanswered
<1>12. BlockedForCause'
  <2> SUFFICES ASSUME NEW k \in Held, NEW g \in Blocked(k)' PROVE Conflict(req[k], req[g])
    BY <1>2, <1>3, Zenon DEF BlockedForCause, Blocked, Conflict, names_conflict, types_conflict
  <2>1. g \in Blocked(k)
    BY <1>6, HeldFacts, Zenon
  <2> QED
    BY <2>1, Zenon DEF WInv, Waits, BlockedForCause, Blocked
<1>13. \A g \in Frames : g \in Held' \/ Released(g)' =>
          /\ \A k \in Frames : g \notin Blocked(k)'
          /\ \A u \in Threads : g \notin Todo(u)'
  BY <1>3, <1>6, <1>7, Zenon DEF WInv, Waits
<1>14. Waits'
  BY <1>3, <1>6, <1>7, <1>11, <1>12, <1>13, Zenon DEF WInv, Waits
<1> QED
  BY <1>3, <1>8, <1>9, <1>14, Zenon DEF Proper

\* What a turn of __grant_blocked_entry_locks takes: a request that waits and
\* is no lock.
LEMMA RetryTakes ==
  ASSUME WInv, NEW t \in Threads, Retry(t)
  PROVE  LET f == Head(todo[t]) IN
         /\ f \in Frames /\ f \in Todo(t) /\ Unanswered(f)
         /\ f \notin Held /\ ~ Released(f) /\ Blocked(f) = {}
         /\ \A h \in Frames : f \notin Blocked(h)
         /\ \A u \in Threads : f \notin Granted(u) /\ (u # t => f \notin Todo(u))
         /\ \A u \in Threads : /\ Todo(u)' = IF u = t THEN Todo(u) \ {f} ELSE Todo(u)
                               /\ IsInjective(todo[u])'
<1> DEFINE f == Head(todo[t])
<1>1. todo[t] \in Seq(Frames) /\ todo[t] # <<>> /\ IsInjective(todo[t])
  BY ListsTyped, Zenon DEF Retry, WInv, OneList
<1>2. /\ f \in Range(todo[t]) /\ f \in Frames
      /\ IsInjective(Tail(todo[t])) /\ Range(Tail(todo[t])) = Range(todo[t]) \ {f}
  BY <1>1, TailRange, Zenon
<1>3. \A u \in Threads : todo'[u] = IF u = t THEN Tail(todo[t]) ELSE todo[u]
  BY Zenon DEF Retry, WInv, IInv, Typed
<1> HIDE DEF f
<1>4. ASSUME NEW u \in Threads
      PROVE  /\ Todo(u)' = IF u = t THEN Todo(u) \ {f} ELSE Todo(u)
             /\ IsInjective(todo[u])'
  <2>1. CASE u = t
    BY <2>1, <1>2, <1>3, Zenon DEF Todo
  <2>2. CASE u # t
    BY <2>2, <1>3, Zenon DEF Todo, WInv, OneList
  <2> QED
    BY <2>1, <2>2, Zenon
<1>5. f \in Todo(t)
  BY <1>2, Zenon DEF Todo
<1>6. Unanswered(f)
  BY <1>2, <1>5, Zenon DEF WInv, Waits, Listed
<1>7. f \notin Held /\ ~ Released(f)
  BY <1>2, <1>5, Zenon DEF WInv, Waits
<1>8. Blocked(f) = {}
  BY <1>2, <1>7, Zenon DEF WInv, Waits
<1>9. /\ \A h \in Frames : f \notin Blocked(h)
      /\ \A u \in Threads : f \notin Granted(u) /\ (u # t => f \notin Todo(u))
  BY <1>5, Zenon DEF WInv, OneList
<1> QED
  BY <1>2, <1>4, <1>5, <1>6, <1>7, <1>8, <1>9, ZenonT(30) DEF f

\* A turn of __grant_blocked_entry_locks: the request gets its lock, or hangs
\* on another one.
LEMMA RetryWaits ==
  ASSUME WInv, NEW t \in Threads, Retry(t)
  PROVE  Proper'
<1> DEFINE f == Head(todo[t])
<1>1. /\ f \in Frames /\ f \in Todo(t) /\ Unanswered(f)
      /\ f \notin Held /\ ~ Released(f) /\ Blocked(f) = {}
      /\ \A h \in Frames : f \notin Blocked(h)
      /\ \A u \in Threads : f \notin Granted(u) /\ (u # t => f \notin Todo(u))
      /\ \A u \in Threads : /\ Todo(u)' = IF u = t THEN Todo(u) \ {f} ELSE Todo(u)
                            /\ IsInjective(todo[u])'
  BY RetryTakes, Zenon
<1>2. /\ pc[t] = "section" /\ req' = req /\ reply' = reply /\ pc' = pc
      /\ unlocked' = unlocked /\ scan' = scan
      /\ \A u \in Threads : u # t => todo'[u] = todo[u]
  BY Zenon DEF Retry, WInv, IInv, Typed
<1>3. \/ (Insert(f, req[f]) \/ CountReader(f, req[f])) /\ granted' = [granted EXCEPT ![t] = <<f>> \o @]
      \/ Block(f, req[f]) /\ granted' = granted
  BY Zenon DEF Retry
<1> HIDE DEF f
<1>4. \A g : Released(g)' <=> Released(g)
  BY <1>2, Zenon DEF Released
<1>5. \A g \in Frames : Unanswered(g)' <=> Unanswered(g)
  BY <1>2, Zenon DEF Unanswered
<1>6. granted' \in [Threads -> Seq(Frames)] => Kept'
  BY <1>2, Zenon DEF WInv, Kept
<1>7. CASE Block(f, req[f]) /\ granted' = granted
  <2>1. PICK h \in Held :
          /\ Conflict(req[h], req[f])
          /\ \A g \in Frames : /\ Blocked(g)' = IF g = h THEN Blocked(g) \cup {f} ELSE Blocked(g)
                               /\ IsInjective(blocked_locks[g])'
    BY <1>1, <1>7, BlockEffect, Zenon
  <2>2. h \in Frames /\ dir_list' = dir_list /\ \A u : Granted(u)' = Granted(u)
    BY <1>7, HeldFacts, Zenon DEF Block, Granted
  <2>3. Held' = Held /\ UniqueNames'
    BY <1>2, <2>2, Zenon DEF Held, WInv, UniqueNames
  <2>4. Kept'
    BY <1>6, <1>7, Zenon DEF WInv, Kept
  <2>5. OneList'
    <3>1. OneList
      BY ZenonT(30) DEF WInv
    <3>2. \A u \in Threads : /\ IsInjective(todo[u])' /\ IsInjective(granted[u])'
                             /\ Todo(u)' \subseteq Todo(u) /\ Granted(u)' = Granted(u)
                             /\ f \notin Todo(u)' /\ f \notin Granted(u)'
      BY <1>1, <1>7, <2>2, <3>1, SMTT(30) DEF OneList
    <3>3. \A g \in Frames : /\ IsInjective(blocked_locks[g])' /\ f \notin Blocked(g)
                            /\ Blocked(g)' = IF g = h THEN Blocked(g) \cup {f} ELSE Blocked(g)
      BY <1>1, <2>1, Zenon
    <3>4. \A u \in Threads : Todo(u)' \cap Granted(u)' = {}
      BY <3>1, <3>2 DEF OneList
    <3>5. \A g, k \in Frames : g # k => Blocked(g)' \cap Blocked(k)' = {}
      BY <3>1, <3>3 DEF OneList
    <3>6. \A g \in Frames : \A u \in Threads : Blocked(g)' \cap (Todo(u)' \cup Granted(u)') = {}
      BY <3>1, <3>2, <3>3, SMTT(30) DEF OneList
    <3>7. \A u, v \in Threads :
            u # v => (Todo(u)' \cup Granted(u)') \cap (Todo(v)' \cup Granted(v)') = {}
      BY <3>1, <3>2, SMTT(30) DEF OneList
    <3> QED
      BY <3>2, <3>3, <3>4, <3>5, <3>6, <3>7, Zenon DEF OneList
  <2>6. \A g \in Frames : Listed(g)' <=> Listed(g)
    BY <1>1, <2>1, <2>2, Zenon DEF Listed
  <2>7. BlockedForCause'
    <3> SUFFICES ASSUME NEW k \in Held, NEW g \in Blocked(k)' PROVE Conflict(req[k], req[g])
      BY <1>2, <2>3, Zenon DEF BlockedForCause, Blocked, Conflict, names_conflict, types_conflict
    <3>1. g \in Blocked(k) \/ (g = f /\ k = h)
      BY <2>1, HeldFacts, Zenon
    <3> QED
      BY <3>1, <2>1, Zenon DEF WInv, Waits, BlockedForCause, Blocked
  <2>8. \A g \in Frames : g \in Held' \/ Released(g)' =>
            /\ \A k \in Frames : g \notin Blocked(k)'
            /\ \A u \in Threads : g \notin Todo(u)'
    <3> SUFFICES ASSUME NEW g \in Frames, g \in Held \/ Released(g)
                 PROVE  /\ \A k \in Frames : g \notin Blocked(k)'
                        /\ \A u \in Threads : g \notin Todo(u)'
      BY <1>4, <2>3, Zenon
    <3>1. /\ g # f
          /\ \A k \in Frames : g \notin Blocked(k)
          /\ \A u \in Threads : g \notin Todo(u)
      BY <1>1, Zenon DEF WInv, Waits
    <3>2. \A k \in Frames : g \notin Blocked(k)'
      BY <2>1, <3>1, Zenon
    <3>3. \A u \in Threads : g \notin Todo(u)'
      BY <1>1, <3>1, Zenon
    <3> QED
      BY <3>2, <3>3, Zenon
  <2>9. \A g \in Frames : Blocked(g)' # {} => g \in Held' \/ Released(g)'
    BY <1>4, <2>1, <2>3, Zenon DEF WInv, Waits
  <2>10. Waits'
    BY <1>5, <2>6, <2>7, <2>8, <2>9, Zenon DEF WInv, Waits
  <2> QED
    BY <2>3, <2>4, <2>5, <2>10, Zenon DEF Proper
<1>8. CASE /\ Insert(f, req[f]) \/ CountReader(f, req[f])
           /\ granted' = [granted EXCEPT ![t] = <<f>> \o @]
  <2>1. granted[t] \in Seq(Frames) /\ IsInjective(granted[t]) /\ f \notin Range(granted[t])
    BY <1>1, ListsTyped, ZenonT(30) DEF WInv, OneList, Granted
  <2>2. /\ <<f>> \o granted[t] \in Seq(Frames) /\ IsInjective(<<f>> \o granted[t])
        /\ Range(<<f>> \o granted[t]) = {f} \cup Range(granted[t])
    BY <1>1, <2>1, ConsRange, ConsProperties, Zenon
  <2>3. /\ granted' \in [Threads -> Seq(Frames)]
        /\ \A u \in Threads : granted'[u] = IF u = t THEN <<f>> \o granted[t] ELSE granted[u]
    BY <1>8, <2>2, Zenon DEF WInv, Kept
  <2>4. ASSUME NEW u \in Threads
        PROVE  /\ Granted(u)' = IF u = t THEN Granted(u) \cup {f} ELSE Granted(u)
               /\ IsInjective(granted[u])'
    <3>1. CASE u = t
      BY <3>1, <2>2, <2>3, ZenonT(30) DEF Granted
    <3>2. CASE u # t
      BY <3>2, <2>3, Zenon DEF Granted, WInv, OneList
    <3> QED
      BY <3>1, <3>2, Zenon
  <2>5. blocked_locks' = blocked_locks /\ \A g : Blocked(g)' = Blocked(g)
    BY <1>8, Zenon DEF Insert, CountReader, Blocked
  <2>6. UniqueNames' /\ (Held' = Held \/ Held' = Held \cup {f})
    <3>1. CASE CountReader(f, req[f])
      BY <3>1, <1>2, Zenon DEF CountReader, Held, WInv, UniqueNames
    <3>2. CASE Insert(f, req[f])
      BY <3>2, <1>1, <1>2, InsertEffect, Zenon
    <3> QED
      BY <1>8, <3>1, <3>2, Zenon
  <2>7. Kept'
    BY <1>6, <2>3, Zenon
  <2>8. OneList'
    <3>1. OneList
      BY Zenon DEF WInv
    <3>2. \A u \in Threads : IsInjective(todo[u])' /\ IsInjective(granted[u])'
      BY <1>1, <2>4, Zenon
    <3>3. \A g \in Frames : Blocked(g)' = Blocked(g) /\ IsInjective(blocked_locks[g])'
      BY <2>5, <3>1, Zenon DEF OneList
    <3>4. \A u \in Threads : /\ Todo(u)' \cup Granted(u)' = Todo(u) \cup Granted(u)
                             /\ Todo(u)' \cap Granted(u)' = {}
      <4> TAKE u \in Threads
      <4>1. CASE u = t
        BY <1>1, <2>4, <3>1, <4>1, SMTT(30) DEF OneList
      <4>2. CASE u # t
        BY <1>1, <2>4, <3>1, <4>2, Zenon DEF OneList
      <4> QED
        BY <4>1, <4>2, Zenon
    <3>5. \A g, k \in Frames : g # k => Blocked(g)' \cap Blocked(k)' = {}
      BY <3>1, <3>3, Zenon DEF OneList
    <3>6. \A g \in Frames : \A u \in Threads : Blocked(g)' \cap (Todo(u)' \cup Granted(u)') = {}
      BY <3>1, <3>3, <3>4, Zenon DEF OneList
    <3>7. \A u, v \in Threads :
            u # v => (Todo(u)' \cup Granted(u)') \cap (Todo(v)' \cup Granted(v)') = {}
      BY <3>1, <3>4, Zenon DEF OneList
    <3> QED
      BY <3>2, <3>3, <3>4, <3>5, <3>6, <3>7, Zenon DEF OneList
  <2>9. \A g \in Frames : Listed(g)' <=> Listed(g)
    BY <1>1, <2>4, <2>5, Zenon DEF Listed
  <2>10. BlockedForCause'
    <3> SUFFICES ASSUME NEW k \in Held', NEW g \in Blocked(k) PROVE Conflict(req[k], req[g])
      BY <1>2, <2>5, Zenon DEF BlockedForCause, Blocked, Conflict, names_conflict, types_conflict
    <3> QED
      BY <1>1, <2>6, Zenon DEF WInv, Waits, BlockedForCause, Blocked
  <2>11. \A g \in Frames : g \in Held' \/ Released(g)' =>
            /\ \A k \in Frames : g \notin Blocked(k)'
            /\ \A u \in Threads : g \notin Todo(u)'
    BY <1>1, <1>4, <2>5, <2>6 DEF WInv, Waits
  <2>12. \A g \in Frames : Blocked(g)' # {} => g \in Held' \/ Released(g)'
    BY <1>4, <2>5, <2>6, Zenon DEF WInv, Waits
  <2>13. Waits'
    BY <1>5, <2>9, <2>10, <2>11, <2>12, Zenon DEF WInv, Waits
  <2> QED
    BY <2>6, <2>7, <2>8, <2>13, Zenon DEF Proper
<1> QED
  BY <1>3, <1>7, <1>8, Zenon

\* Answering a granted request takes it off the thread's list.
LEMMA UnwindTakes ==
  ASSUME WInv, NEW t \in Threads, UnwindGranted(t), granted[t] # <<>>
  PROVE  LET f == Head(granted[t]) IN
         /\ f \in Frames /\ f \in Granted(t) /\ Unanswered(f)
         /\ \A h \in Frames : f \notin Blocked(h)
         /\ \A u \in Threads : f \notin Todo(u) /\ (u # t => f \notin Granted(u))
         /\ \A u \in Threads : /\ Granted(u)' = IF u = t THEN Granted(u) \ {f} ELSE Granted(u)
                               /\ IsInjective(granted[u])'
         /\ reply' = [reply EXCEPT ![f] = "granted"]
         /\ granted' \in [Threads -> Seq(Frames)]
<1> DEFINE f == Head(granted[t])
<1>1. granted[t] \in Seq(Frames) /\ IsInjective(granted[t])
  BY ListsTyped, Zenon DEF WInv, OneList
<1>2. /\ f \in Range(granted[t]) /\ f \in Frames
      /\ IsInjective(Tail(granted[t])) /\ Range(Tail(granted[t])) = Range(granted[t]) \ {f}
  BY <1>1, TailRange, Zenon
<1>3. /\ reply' = [reply EXCEPT ![f] = "granted"]
      /\ granted' = [granted EXCEPT ![t] = Tail(@)]
  BY Zenon DEF UnwindGranted
<1>4. /\ \A u \in Threads : granted'[u] = IF u = t THEN Tail(granted[t]) ELSE granted[u]
      /\ granted' \in [Threads -> Seq(Frames)]
  BY <1>1, <1>3, SMTT(30) DEF WInv, Kept
<1> HIDE DEF f
<1>5. ASSUME NEW u \in Threads
      PROVE  /\ Granted(u)' = IF u = t THEN Granted(u) \ {f} ELSE Granted(u)
             /\ IsInjective(granted[u])'
  <2>1. CASE u = t
    BY <2>1, <1>2, <1>4, ZenonT(30) DEF Granted
  <2>2. CASE u # t
    BY <2>2, <1>4, Zenon DEF Granted, WInv, OneList
  <2> QED
    BY <2>1, <2>2, Zenon
<1>6. f \in Granted(t)
  BY <1>2, Zenon DEF Granted
<1>7. Unanswered(f)
  BY <1>2, <1>6, Zenon DEF WInv, Waits, Listed
<1>8. /\ \A h \in Frames : f \notin Blocked(h)
      /\ \A u \in Threads : f \notin Todo(u) /\ (u # t => f \notin Granted(u))
  BY <1>6, Zenon DEF WInv, OneList
<1> QED
  BY <1>2, <1>3, <1>4, <1>5, <1>6, <1>7, <1>8, Zenon DEF f

\* Steps that leave the lists alone: a release begins, a section ends, an
\* unwinding thread is done.
LEMMA QuietWaits ==
  ASSUME WInv, UNCHANGED <<req, reply, dir_list, blocked_locks, unlocked, todo, granted>>, Kept'
  PROVE  Proper'
<1>1. /\ \A g : Blocked(g)' = Blocked(g)
      /\ \A u : Todo(u)' = Todo(u) /\ Granted(u)' = Granted(u)
      /\ \A g : Released(g)' <=> Released(g)
      /\ Held' = Held
  BY Zenon DEF Blocked, Todo, Granted, Released, Held
<1>2. OneList' /\ UniqueNames'
  BY <1>1, Zenon DEF WInv, OneList, UniqueNames
<1>3. \A g : (Listed(g)' <=> Listed(g)) /\ (Unanswered(g)' <=> Unanswered(g))
  BY <1>1, Zenon DEF Listed, Unanswered
<1>4. BlockedForCause'
  BY <1>1, Zenon DEF WInv, Waits, BlockedForCause, Conflict, names_conflict, types_conflict
<1>5. Waits'
  BY <1>1, <1>3, <1>4, Zenon DEF WInv, Waits
<1> QED
  BY <1>2, <1>5, Zenon DEF Proper

\* The granted requests are answered, one by one.
LEMMA UnwindWaits ==
  ASSUME WInv, NEW t \in Threads, UnwindGranted(t)
  PROVE  Proper'
<1>1. /\ pc[t] = "unwind" /\ UNCHANGED <<req, dir_list, blocked_locks, unlocked, scan, todo>>
  BY Zenon DEF UnwindGranted, locks
<1>2. CASE granted[t] = <<>>
  <2>1. pc' = [pc EXCEPT ![t] = "idle"] /\ reply' = reply /\ granted' = granted
    BY <1>2, Zenon DEF UnwindGranted
  <2>2. \A u \in Threads : pc'[u] = IF u = t THEN "idle" ELSE pc[u]
    BY <2>1, Zenon DEF WInv, IInv, Typed
  <2>3. Kept'
    BY <1>1, <2>1, <2>2, Zenon DEF WInv, Kept
  <2> QED
    BY <1>1, <2>1, <2>3, QuietWaits, Zenon
<1>3. CASE granted[t] # <<>>
  <2> DEFINE f == Head(granted[t])
  <2>1. /\ f \in Frames /\ f \in Granted(t) /\ Unanswered(f)
        /\ \A h \in Frames : f \notin Blocked(h)
        /\ \A u \in Threads : f \notin Todo(u) /\ (u # t => f \notin Granted(u))
        /\ \A u \in Threads : /\ Granted(u)' = IF u = t THEN Granted(u) \ {f} ELSE Granted(u)
                              /\ IsInjective(granted[u])'
        /\ reply' = [reply EXCEPT ![f] = "granted"]
        /\ granted' \in [Threads -> Seq(Frames)]
    BY <1>3, UnwindTakes, Zenon
  <2> HIDE DEF f
  <2>2. pc' = pc
    BY <1>3, Zenon DEF UnwindGranted
  <2>3. \A g \in Frames : reply'[g] = IF g = f THEN "granted" ELSE reply[g]
    BY <2>1, Zenon DEF WInv, Kept
  <2>4. /\ \A g : Blocked(g)' = Blocked(g)
        /\ \A u : Todo(u)' = Todo(u)
        /\ \A g : Released(g)' <=> Released(g)
        /\ Held' = Held /\ UniqueNames'
    BY <1>1, Zenon DEF Blocked, Todo, Released, Held, WInv, UniqueNames
  <2>5. Kept'
    BY <1>1, <2>1, <2>2, <2>3, Zenon DEF WInv, Kept, Unanswered
  <2>6. OneList'
    BY <1>1, <2>1, <2>4, ZenonT(30) DEF WInv, OneList
  <2>7. \A g \in Frames : Unanswered(g)' <=> Listed(g)'
    BY <1>1, <2>1, <2>3, <2>4 DEF WInv, Waits, Unanswered, Listed
  <2>8. BlockedForCause'
    BY <1>1, <2>4, Zenon DEF WInv, Waits, BlockedForCause, Conflict, names_conflict, types_conflict
  <2>9. Waits'
    BY <2>4, <2>7, <2>8, Zenon DEF WInv, Waits
  <2> QED
    BY <2>4, <2>5, <2>6, <2>9, Zenon DEF Proper
<1> QED
  BY <1>2, <1>3, Zenon

\* Every step keeps the requests in their places.
LEMMA NextWaits == WInv /\ [Next]_vars => WInv'
<1> SUFFICES ASSUME WInv, [Next]_vars PROVE WInv'
  OBVIOUS
<1>1. IInv'
  BY NextKeeps, Zenon DEF WInv
<1>2. Proper'
  <2>1. CASE UNCHANGED vars
    <3>1. Kept'
      BY <2>1, Zenon DEF vars, locks, threads, WInv, Kept
    <3> QED
      BY <2>1, <3>1, QuietWaits, Zenon DEF vars, locks, threads
  <2>2. ASSUME NEW t \in Threads, NEW f \in Frames, NEW r \in Request, Lock(t, f, r) PROVE Proper'
    BY <2>2, LockWaits, Zenon
  <2>3. ASSUME NEW t \in Threads, NEW f \in Frames, Unlock(t, f) PROVE Proper'
    BY <2>3, UnlockWaits, Zenon
  <2>4. ASSUME NEW t \in Threads, NEW c \in Transports, Release(t, c) PROVE Proper'
    <3>1. /\ UNCHANGED <<req, reply, dir_list, blocked_locks, unlocked, todo, granted>>
          /\ pc' = [pc EXCEPT ![t] = "section"] /\ pc[t] = "idle"
          /\ scan' = [scan EXCEPT ![t] = LocksOf(c)]
      BY <2>4, Zenon DEF Release, locks
    <3>2. \A u \in Threads : /\ pc'[u] = IF u = t THEN "section" ELSE pc[u]
                             /\ u # t => scan'[u] = scan[u]
      BY <3>1, Zenon DEF WInv, IInv, Typed, Kept
    <3>3. LocksOf(c) \subseteq Frames
      BY HeldFacts, Zenon DEF LocksOf
    <3>4. Kept'
      BY <3>1, <3>2, <3>3, Zenon DEF WInv, Kept
    <3> QED
      BY <3>1, <3>4, QuietWaits, Zenon
  <2>5. ASSUME NEW t \in Threads, LeaveSection(t) PROVE Proper'
    <3>1. /\ UNCHANGED <<req, reply, dir_list, blocked_locks, unlocked, todo, granted, scan>>
          /\ pc' = [pc EXCEPT ![t] = "unwind"] /\ todo[t] = <<>> /\ scan[t] = {} /\ pc[t] = "section"
      BY <2>5, Zenon DEF LeaveSection, locks
    <3>2. \A u \in Threads : pc'[u] = IF u = t THEN "unwind" ELSE pc[u]
      BY <3>1, Zenon DEF WInv, IInv, Typed
    <3>3. Kept'
      BY <3>1, <3>2, Zenon DEF WInv, Kept
    <3> QED
      BY <3>1, <3>3, QuietWaits, Zenon
  <2> QED
    BY <2>1, <2>2, <2>3, <2>4, <2>5, GrantWaits, RetryWaits, ReleaseOneWaits, UnwindWaits, Zenon
       DEF Next, Working, Rest
<1> QED
  BY <1>1, <1>2, Zenon DEF WInv, Proper

\* At first there are no requests.
LEMMA InitWaits == Init => WInv
<1> SUFFICES ASSUME Init PROVE WInv
  OBVIOUS
<1>1. Range(<<>>) = {} /\ IsInjective(<<>>)
  BY DEF Range, IsInjective
<1>2. Held = {} /\ UniqueNames
  BY <1>1 DEF Init, Held, UniqueNames
<1>3. /\ \A h \in Frames : Blocked(h) = {} /\ IsInjective(blocked_locks[h])
      /\ \A t \in Threads : /\ Todo(t) = {} /\ Granted(t) = {}
                            /\ IsInjective(todo[t]) /\ IsInjective(granted[t])
  BY <1>1, Zenon DEF Init, Blocked, Todo, Granted
<1>4. \A h \in Frames : ~ Released(h)
  BY ELAssumption, Zenon DEF Init, Released, NoFrame
<1>5. OneList
  BY <1>3, Zenon DEF OneList
<1>6. Waits
  BY <1>2, <1>3, <1>4, Zenon DEF Init, Waits, BlockedForCause, Unanswered, Listed
<1>7. Kept
  BY DEF Init, Kept
<1> QED
  BY <1>2, <1>5, <1>6, <1>7, InitIInv, Zenon DEF WInv

\* The invariant says what is wanted of the requests that wait.
LEMMA WaitsEnough == WInv => WaitsProperly
<1> SUFFICES ASSUME WInv PROVE NoRequestLost
  BY Zenon DEF WInv, Waits, WaitsProperly
<1> SUFFICES ASSUME NEW f \in Frames, req[f] # NoReq, reply[f] = "none"
             PROVE  \E p \in Places(f) :
                      /\ Places(f) = {p}
                      /\ p \in Frames => p \in Held \cup Range(unlocked)
  BY Zenon DEF NoRequestLost
<1>1. \A p : p \in Places(f) <=> \/ p \in Frames /\ f \in Blocked(p)
                                 \/ p \in Threads /\ f \in Todo(p) \cup Granted(p)
  BY Zenon DEF Places, Blocked, Todo, Granted
<1>2. Listed(f)
  BY Zenon DEF WInv, Waits, Unanswered
<1>3. \A p, q : p \in Places(f) /\ q \in Places(f) => p = q
  BY <1>1, Zenon DEF WInv, OneList
<1>4. PICK p : p \in Places(f)
  BY <1>1, <1>2, Zenon DEF Listed
<1>5. Places(f) = {p}
  BY <1>3, <1>4, Zenon
<1>6. ASSUME p \in Frames PROVE p \in Held \cup Range(unlocked)
  <2>1. p \in Held \/ Released(p)
    BY <1>1, <1>4, <1>6, ELAssumption, Zenon DEF WInv, Waits
  <2>2. DOMAIN unlocked = Threads
    BY Zenon DEF WInv, IInv, Typed
  <2> QED
    BY <2>1, <2>2, Zenon DEF Released, Range
<1> QED
  BY <1>4, <1>5, <1>6, Zenon

\* A request for a lock on a name that is not answered waits in one list only,
\* and is found there by the thread that releases the lock in its way
\* (__lock_name, grant_blocked_entry_locks).
THEOREM NoRequestIsLost == Spec => []WaitsProperly
  BY InitWaits, NextWaits, WaitsEnough, PTL DEF Spec
=============================================================================
