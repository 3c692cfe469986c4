------------------------- MODULE ServerLocksProofs -------------------------
(***************************************************************************)
(* A lock is held as long as its client owns it; the lists, threads and    *)
(* critical sections of pl_entrylk implement the promise of NameLocks; and *)
(* server_connection_destroy finds in conn->ltable every lock it has to    *)
(* release, when a client runs one lock at a time.  For any set of         *)
(* threads, frames, clients and names.                                     *)
(***************************************************************************)
EXTENDS ServerLocks, EntryLocksProofs

-----------------------------------------------------------------------------
(* Ownership, for clients that unlock only what they were granted.         *)

\* Who owns a lock: a granted request holds it before its client hears of it,
\* a client is released only when it has been answered, and a release visits
\* locks of released clients only.
Owned ==
  /\ \A t \in Threads : \A f \in Granted(t) : freed \/ f \in Held
  /\ HolderKeepsLock
  /\ \A f \in Frames : Unanswered(f) => req[f].trans \notin gone
  /\ \A t \in Threads : \A f \in scan[t] : req[f] # NoReq /\ req[f].trans \in gone
  /\ \A f \in Held : req[f].trans \in gone => \E t \in Threads : f \in scan[t]

\* The unlock of a lock its client was granted releases that lock: names are
\* locked once, so __unlock_name, which compares no owner, finds no other.
LEMMA UnlockTakesOwn ==
  ASSUME WInv, Owned, Disciplined, ~ freed, NEW t \in Threads, NEW f \in Frames, Unlock(t, f)
  PROVE  reply[f] = "granted" /\ f \in Held /\ Held' = Held \ {f}
<1>1. reply[f] = "granted" /\ req[f].trans \notin gone /\ req' = req
  BY Zenon DEF Unlock
<1>2. f \in Held
  BY <1>1, Zenon DEF Owned, HolderKeepsLock
<1>3. PICK j \in DOMAIN dir_list : dir_list[j] = f
  BY <1>2, Zenon DEF Held, Range
<1>4. UnlockName(req[f], j)
  <2>1. dir_list \in Seq(Frames)
    BY HeldFacts, Zenon
  <2>2. \A k \in j + 1 .. Len(dir_list) : k \in DOMAIN dir_list /\ k # j
    BY <2>1
  <2> QED
    BY <1>3, <2>2, Zenon DEF UnlockName, WInv, UniqueNames
<1>5. PICK i \in DOMAIN dir_list : UnlockName(req[f], i) /\ dir_list' = list_del(dir_list, i)
  BY <1>4, Zenon DEF Unlock
<1>6. i = j
  BY <1>3, <1>5, Zenon DEF UnlockName, WInv, UniqueNames
<1>7. Held' = Held \ {dir_list[i]}
  BY <1>1, <1>5, RemoveEffect, Zenon
<1> QED
  BY <1>1, <1>2, <1>3, <1>6, <1>7, Zenon

\* A step that leaves locks, answers and lists alone.
LEMMA QuietOwned ==
  ASSUME WInv, Owned, UNCHANGED <<req, reply, dir_list, granted, scan, gone, freed>>
  PROVE  Owned'
<1>1. Held' = Held /\ \A u : Granted(u)' = Granted(u)
  BY Zenon DEF Held, Granted
<1> QED
  BY <1>1, Zenon DEF Owned, HolderKeepsLock, Unanswered

\* A lock request keeps what is owned.
LEMMA LockOwned ==
  ASSUME WInv, Owned, NEW t \in Threads, NEW f \in Frames, NEW r \in Request, Lock(t, f, r)
  PROVE  Owned'
<1>1. /\ req[f] = NoReq /\ req' = [req EXCEPT ![f] = r] /\ r.trans \notin gone
      /\ scan' = scan /\ granted' = granted /\ gone' = gone
  BY Zenon DEF Lock, LockGranted, LockBlocked, LockRefused, Arrives, threads
<1>2. ~ Listed(f) /\ f \notin Held
  BY <1>1, NewIsNowhere, Zenon
<1>3. req'[f] = r /\ \A g \in Frames : g # f => req'[g] = req[g]
  BY <1>1, Zenon DEF WInv, IInv, Typed
<1>4. \A u \in Threads : Granted(u)' = Granted(u) /\ Granted(u) \subseteq Frames
  BY <1>1, ListsTyped, Zenon DEF Granted
<1>5. \A h \in Held : h \in Frames /\ h # f /\ req'[h] = req[h]
  BY <1>2, <1>3, HeldFacts, Zenon
<1>6. \A i \in DOMAIN dir_list : req'[dir_list[i]] = req[dir_list[i]]
  BY <1>5, Zenon DEF Held, Range
<1>7. \A u \in Threads : \A g \in scan'[u] : req'[g] # NoReq /\ req'[g].trans \in gone'
  <2>1. \A u \in Threads : \A g \in scan[u] : g \in Frames /\ g # f /\ req'[g] = req[g]
    BY <1>1, <1>3 DEF WInv, Kept, Owned
  <2> QED
    BY <2>1, <1>1 DEF Owned
<1>8. \A g \in Frames : Unanswered(g)' => req'[g].trans \notin gone'
  <2> SUFFICES ASSUME NEW g \in Frames, Unanswered(g)' PROVE req'[g].trans \notin gone
    BY <1>1, Zenon
  <2>1. CASE g = f
    BY <2>1, <1>1, <1>3, Zenon
  <2>2. CASE g # f
    <3>1. reply' = reply \/ \E a : reply' = [reply EXCEPT ![f] = a]
      BY Zenon DEF Lock, LockGranted, LockBlocked, LockRefused
    <3>2. reply'[g] = reply[g]
      BY <2>2, <3>1, Zenon DEF WInv, Kept
    <3>3. Unanswered(g)
      BY <2>2, <3>2, <1>3, Zenon DEF Unanswered
    <3> QED
      BY <2>2, <3>3, <1>3, Zenon DEF Owned
  <2> QED
    BY <2>1, <2>2, Zenon
<1>9. CASE LockGranted(t, f, r) /\ Insert(f, r)
  <2>1. Held' = Held \cup {f} /\ freed' = freed
    BY <1>3, <1>6, <1>9, InsertEffect, Zenon DEF Insert
  <2>2. \A g \in Frames : g # f => reply'[g] = reply[g]
    BY <1>9, Zenon DEF LockGranted, WInv, Kept
  <2>3. HolderKeepsLock'
    BY <1>1, <1>3, <2>1, <2>2 DEF Owned, HolderKeepsLock
  <2>4. \A u \in Threads : \A g \in Granted(u)' : freed' \/ g \in Held'
    BY <1>4, <2>1, Zenon DEF Owned
  <2>5. \A g \in Held' : req'[g].trans \in gone' => \E u \in Threads : g \in scan'[u]
    BY <1>1, <1>3, <1>5, <2>1 DEF Owned
  <2> QED
    BY <1>7, <1>8, <2>3, <2>4, <2>5, Zenon DEF Owned
<1>10. CASE CountReader(f, r)
  <2>1. freed' /\ Held' = Held
    BY <1>10, Zenon DEF CountReader, Held
  <2>2. \A g \in Held' : req'[g].trans \in gone' => \E u \in Threads : g \in scan'[u]
    BY <1>1, <1>5, <2>1, SMTT(30) DEF Owned
  <2> QED
    BY <1>7, <1>8, <2>1, <2>2, Zenon DEF Owned, HolderKeepsLock
<1>11. CASE LockBlocked(t, f, r) \/ LockRefused(t, f, r)
  <2>1. Held' = Held /\ freed' = freed
    BY <1>11, Zenon DEF LockBlocked, LockRefused, Block, locks, Held
  <2>2. reply[f] = "none"
    BY <1>1, Zenon DEF WInv, Kept
  <2>3. reply'[f] # "granted" /\ \A g \in Frames : g # f => reply'[g] = reply[g]
    BY <1>11, <2>2, Zenon DEF LockBlocked, LockRefused, WInv, Kept
  <2>4. HolderKeepsLock'
    BY <1>1, <1>3, <2>1, <2>3 DEF Owned, HolderKeepsLock
  <2>5. \A u \in Threads : \A g \in Granted(u)' : freed' \/ g \in Held'
    BY <1>4, <2>1, Zenon DEF Owned
  <2>6. \A g \in Held' : req'[g].trans \in gone' => \E u \in Threads : g \in scan'[u]
    BY <1>1, <1>5, <2>1 DEF Owned
  <2> QED
    BY <1>7, <1>8, <2>4, <2>5, <2>6, Zenon DEF Owned
<1> QED
  BY <1>9, <1>10, <1>11, Zenon DEF Lock, LockGranted

\* A retried request owns its lock from the moment it is granted.
LEMMA RetryOwned ==
  ASSUME WInv, Owned, NEW t \in Threads, Retry(t)
  PROVE  Owned'
<1> DEFINE f == Head(todo[t])
<1>1. /\ f \in Frames /\ Unanswered(f) /\ f \notin Held
      /\ \A h \in Frames : f \notin Blocked(h)
  BY RetryTakes, Zenon
<1>2. req' = req /\ reply' = reply /\ scan' = scan /\ gone' = gone
  BY Zenon DEF Retry
<1>3. \/ (Insert(f, req[f]) \/ CountReader(f, req[f])) /\ granted' = [granted EXCEPT ![t] = <<f>> \o @]
      \/ Block(f, req[f]) /\ granted' = granted
  BY Zenon DEF Retry
<1> HIDE DEF f
<1>4. CASE Block(f, req[f]) /\ granted' = granted
  BY <1>2, <1>4, QuietOwned, Zenon DEF Block
<1>5. /\ \A g \in Frames : Unanswered(g)' => req'[g].trans \notin gone'
      /\ \A u \in Threads : \A g \in scan'[u] : req'[g] # NoReq /\ req'[g].trans \in gone'
  BY <1>2, Zenon DEF Owned, Unanswered
<1>6. CASE CountReader(f, req[f])
  <2>1. freed' /\ Held' = Held
    BY <1>6, Zenon DEF CountReader, Held
  <2> QED
    BY <1>2, <1>5, <2>1, Zenon DEF Owned, HolderKeepsLock
<1>7. CASE Insert(f, req[f]) /\ granted' = [granted EXCEPT ![t] = <<f>> \o @]
  <2>1. Held' = Held \cup {f} /\ freed' = freed
    BY <1>1, <1>2, <1>7, InsertEffect, Zenon DEF Insert
  <2>2. granted[t] \in Seq(Frames)
    BY ListsTyped, Zenon
  <2>3. Range(<<f>> \o granted[t]) = {f} \cup Range(granted[t])
    BY <1>1, <2>2, ConsRange, Zenon
  <2>4. \A u \in Threads : Granted(u)' = IF u = t THEN Granted(u) \cup {f} ELSE Granted(u)
    <3> SUFFICES ASSUME NEW u \in Threads
                 PROVE  Granted(u)' = IF u = t THEN Granted(u) \cup {f} ELSE Granted(u)
      OBVIOUS
    <3>1. granted'[u] = IF u = t THEN <<f>> \o granted[t] ELSE granted[u]
      BY <1>7, Zenon DEF WInv, Kept
    <3> QED
      BY <2>3, <3>1, Zenon DEF Granted
  <2>5. \A u \in Threads : \A g \in Granted(u)' : freed' \/ g \in Held'
    BY <2>1, <2>4, Zenon DEF Owned
  <2>6. HolderKeepsLock'
    BY <1>2, <2>1, Zenon DEF Owned, HolderKeepsLock
  <2>7. \A g \in Held' : req'[g].trans \in gone' => \E u \in Threads : g \in scan'[u]
    BY <1>1, <1>2, <2>1, Zenon DEF Owned
  <2> QED
    BY <1>5, <2>5, <2>6, <2>7, Zenon DEF Owned
<1> QED
  BY <1>3, <1>4, <1>6, <1>7, Zenon

\* The release loop takes only locks of released clients.
LEMMA ReleaseOneOwned ==
  ASSUME WInv, Owned, NEW t \in Threads, ReleaseOne(t)
  PROVE  Owned'
<1>1. PICK i \in DOMAIN dir_list :
        /\ dir_list[i] \in scan[t]
        /\ scan' = [scan EXCEPT ![t] = @ \ {dir_list[i]}]
        /\ dir_list' = list_del(dir_list, i)
  BY Zenon DEF ReleaseOne
<1> DEFINE h == dir_list[i]
<1>2. req' = req /\ reply' = reply /\ granted' = granted /\ gone' = gone /\ freed' = freed
  BY Zenon DEF ReleaseOne
<1>3. Held' = Held \ {h} /\ h \in Held
  BY <1>1, <1>2, RemoveEffect, Zenon
<1>4. req[h].trans \in gone
  BY <1>1, Zenon DEF Owned
<1> HIDE DEF h
<1>5. /\ scan'[t] = scan[t] \ {h}
      /\ \A u \in Threads : u # t => scan'[u] = scan[u]
  <2>1. scan \in [Threads -> SUBSET Frames] /\ scan' = [scan EXCEPT ![t] = @ \ {h}]
    BY <1>1, Zenon DEF WInv, Kept, h
  <2> QED
    BY <2>1, Zenon
<1>6. \A u \in Threads : Granted(u)' = Granted(u)
  BY <1>2, Zenon DEF Granted
<1>7. \A u \in Threads : \A g \in Granted(u)' : freed' \/ g \in Held'
  <2>1. \A u \in Threads : \A g \in Granted(u) : g # h
    <3> SUFFICES ASSUME NEW u \in Threads, NEW g \in Granted(u) PROVE req[g].trans \notin gone
      BY <1>4, Zenon
    <3>1. g \in Frames
      BY ListsTyped, Zenon
    <3>2. Unanswered(g)
      BY <3>1, Zenon DEF WInv, Waits, Listed
    <3> QED
      BY <3>1, <3>2, Zenon DEF Owned
  <2> QED
    BY <1>2, <1>3, <1>6, <2>1, Zenon DEF Owned
<1>8. HolderKeepsLock'
  BY <1>2, <1>3, <1>4, Zenon DEF Owned, HolderKeepsLock
<1>9. \A g \in Frames : Unanswered(g)' => req'[g].trans \notin gone'
  BY <1>2, Zenon DEF Owned, Unanswered
<1>10. \A u \in Threads : \A g \in scan'[u] : req'[g] # NoReq /\ req'[g].trans \in gone'
  <2> SUFFICES ASSUME NEW u \in Threads, NEW g \in scan'[u]
               PROVE  req[g] # NoReq /\ req[g].trans \in gone
    BY <1>2, Zenon
  <2>1. g \in scan[u]
    BY <1>5, Zenon
  <2> QED
    BY <2>1, Zenon DEF Owned
<1>11. \A g \in Held' : req'[g].trans \in gone' => \E u \in Threads : g \in scan'[u]
  <2> SUFFICES ASSUME NEW g \in Held', req[g].trans \in gone
               PROVE  \E u \in Threads : g \in scan'[u]
    BY <1>2, Zenon
  <2>1. g \in Held /\ g # h
    BY <1>3, Zenon
  <2>2. PICK u \in Threads : g \in scan[u]
    BY <2>1, Zenon DEF Owned
  <2>3. g \in scan'[u]
    BY <1>5, <2>1, <2>2, Zenon
  <2> QED
    BY <2>3, Zenon
<1> QED
  BY <1>7, <1>8, <1>9, <1>10, <1>11, Zenon DEF Owned

\* An unlock, the release of a client and the answers to granted requests.
LEMMA OtherOwned ==
  ASSUME WInv, Owned, Disciplined, ~ freed, NEW t \in Threads
  PROVE  /\ \A f \in Frames : Unlock(t, f) => Owned'
         /\ \A c \in Transports : Release(t, c) => Owned'
         /\ UnwindGranted(t) => Owned'
<1>1. ASSUME NEW f \in Frames, Unlock(t, f) PROVE Owned'
  <2>1. reply[f] = "granted" /\ f \in Held /\ Held' = Held \ {f}
    BY <1>1, UnlockTakesOwn, Zenon
  <2>2. /\ req' = req /\ granted' = granted /\ scan' = scan /\ gone' = gone /\ freed' = freed
        /\ reply' = [reply EXCEPT ![f] = "unlocked"]
    BY <1>1, Zenon DEF Unlock
  <2>3. \A g \in Frames : reply'[g] = IF g = f THEN "unlocked" ELSE reply[g]
    BY <2>2, Zenon DEF WInv, Kept
  <2>4. \A u \in Threads : Granted(u)' = Granted(u) /\ f \notin Granted(u)
    BY <2>1, <2>2, Zenon DEF Granted, WInv, Waits, Unanswered, Listed
  <2>5. \A u \in Threads : \A g \in Granted(u)' : freed' \/ g \in Held'
    BY <2>1, <2>2, <2>4, Zenon DEF Owned
  <2>6. HolderKeepsLock'
    BY <2>1, <2>2, <2>3 DEF Owned, HolderKeepsLock
  <2>7. \A g \in Frames : Unanswered(g)' => req'[g].trans \notin gone'
    BY <2>2, <2>3 DEF Owned, Unanswered
  <2>8. \A g \in Held' : req'[g].trans \in gone' => \E u \in Threads : g \in scan'[u]
    BY <2>1, <2>2, Zenon DEF Owned
  <2> QED
    BY <2>2, <2>5, <2>6, <2>7, <2>8, Zenon DEF Owned
<1>2. ASSUME NEW c \in Transports, Release(t, c) PROVE Owned'
  <2>1. /\ req' = req /\ reply' = reply /\ granted' = granted /\ dir_list' = dir_list
        /\ freed' = freed /\ gone' = gone \cup {c} /\ pc[t] = "idle"
        /\ scan' = [scan EXCEPT ![t] = LocksOf(c)]
        /\ \A f \in Frames : Unanswered(f) => req[f].trans # c
    BY <1>2, Zenon DEF Release, locks, Unanswered
  <2>2. /\ \A u \in Threads : scan'[u] = IF u = t THEN LocksOf(c) ELSE scan[u]
        /\ scan[t] = {}
    BY <2>1, Zenon DEF WInv, Kept
  <2>3. Held' = Held /\ \A u : Granted(u)' = Granted(u)
    BY <2>1, Zenon DEF Held, Granted
  <2>4. \A u \in Threads : \A g \in scan'[u] : req'[g] # NoReq /\ req'[g].trans \in gone'
    BY <2>1, <2>2, HeldFacts DEF Owned, LocksOf
  <2>5. \A g \in Held' : req'[g].trans \in gone' => \E u \in Threads : g \in scan'[u]
    <3> SUFFICES ASSUME NEW g \in Held, req[g].trans \in gone \cup {c}
                 PROVE  \E u \in Threads : g \in scan'[u]
      BY <2>1, <2>3, Zenon
    <3>1. CASE req[g].trans = c
      <4>1. g \in LocksOf(c)
        BY <3>1, Zenon DEF LocksOf
      <4>2. scan'[t] = LocksOf(c)
        BY <2>2, Zenon
      <4> QED
        BY <4>1, <4>2, Zenon
    <3>2. CASE req[g].trans \in gone
      <4>1. PICK u \in Threads : g \in scan[u]
        BY <3>2, Zenon DEF Owned
      <4> QED
        BY <2>2, <4>1, Zenon
    <3> QED
      BY <3>1, <3>2, Zenon
  <2>6. \A u \in Threads : \A g \in Granted(u)' : freed' \/ g \in Held'
    BY <2>1, <2>3, Zenon DEF Owned
  <2>7. HolderKeepsLock'
    BY <2>1, <2>3, Zenon DEF Owned, HolderKeepsLock
  <2>8. \A g \in Frames : Unanswered(g)' => req'[g].trans \notin gone'
    BY <2>1, Zenon DEF Owned, Unanswered
  <2> QED
    BY <2>4, <2>5, <2>6, <2>7, <2>8, Zenon DEF Owned
<1>3. ASSUME UnwindGranted(t) PROVE Owned'
  <2>1. UNCHANGED <<req, dir_list, scan, gone, freed>>
    BY <1>3, Zenon DEF UnwindGranted, locks
  <2>2. CASE granted[t] = <<>>
    BY <1>3, <2>1, <2>2, QuietOwned, Zenon DEF UnwindGranted
  <2>3. CASE granted[t] # <<>>
    <3> DEFINE f == Head(granted[t])
    <3>1. /\ f \in Frames /\ f \in Granted(t)
          /\ \A u \in Threads : Granted(u)' = IF u = t THEN Granted(u) \ {f} ELSE Granted(u)
          /\ reply' = [reply EXCEPT ![f] = "granted"]
      BY <1>3, <2>3, UnwindTakes, Zenon
    <3> HIDE DEF f
    <3>2. f \in Held /\ Held' = Held
      BY <2>1, <3>1, Zenon DEF Owned, Held
    <3>3. \A g \in Frames : reply'[g] = IF g = f THEN "granted" ELSE reply[g]
      BY <3>1, Zenon DEF WInv, Kept
    <3>4. HolderKeepsLock'
      BY <2>1, <3>2, <3>3, Zenon DEF Owned, HolderKeepsLock
    <3>5. \A g \in Frames : Unanswered(g)' => req'[g].trans \notin gone'
      BY <2>1, <3>3, Zenon DEF Owned, Unanswered
    <3>6. \A u \in Threads : \A g \in Granted(u)' : freed' \/ g \in Held'
      BY <2>1, <3>1, <3>2, Zenon DEF Owned
    <3> QED
      BY <2>1, <3>2, <3>4, <3>5, <3>6, Zenon DEF Owned
  <2> QED
    BY <2>2, <2>3, Zenon
<1> QED
  BY <1>1, <1>2, <1>3, Zenon

\* Every step keeps what is owned.
LEMMA NextOwned ==
  ASSUME Disciplined
  PROVE  WInv /\ Owned /\ [Next]_vars => Owned'
<1> SUFFICES ASSUME WInv, Owned, [Next]_vars PROVE Owned'
  OBVIOUS
<1>1. CASE UNCHANGED vars
  BY <1>1, QuietOwned, Zenon DEF vars, locks, threads
<1>2. ASSUME NEW t \in Threads, GrantBlocked(t) \/ LeaveSection(t) PROVE Owned'
  BY <1>2, QuietOwned, Zenon DEF GrantBlocked, LeaveSection, locks
<1> QED
  BY <1>1, <1>2, LockOwned, RetryOwned, ReleaseOneOwned, OtherOwned, Zenon DEF Next, Working, Rest

\* At first nothing is owned.
LEMMA InitOwned == Init => Owned
<1> SUFFICES ASSUME Init PROVE Owned
  OBVIOUS
<1>1. Held = {} /\ \A t \in Threads : Granted(t) = {} /\ scan[t] = {}
  BY DEF Init, Held, Granted, Range
<1> QED
  BY <1>1, Zenon DEF Init, Owned, HolderKeepsLock, Unanswered

\* A client that was told it has a lock has it until it unlocks it or is
\* released, and then the lock is gone (pl_entrylk_common,
\* release_entry_locks_for_transport): for clients that unlock only what they
\* were granted, since __unlock_name compares no owner.
THEOREM LockHeldWhileOwned ==
  ASSUME Disciplined
  PROVE  Spec => []HeldWhileOwned
<1>1. Owned => HeldWhileOwned
  <2>1. ASSUME Owned PROVE ReleasedForGood
    BY <2>1, Zenon DEF Owned, ReleasedForGood, Held, Range
  <2> QED
    BY <2>1, Zenon DEF Owned, HeldWhileOwned
<1> QED
  BY <1>1, InitWaits, NextWaits, InitOwned, NextOwned, PTL DEF Spec
-----------------------------------------------------------------------------
(* The refinement.  Every step of the lists and threads is a step of the   *)
(* promise NameLocks, or changes nothing a client sees.                    *)

\* What the lists find grantable (__lock_grantable) is what the promise allows.
LEMMA GrantableIsCanHold ==
  ASSUME NEW r
  PROVE  Grantable(r) <=> Promise!CanHold(r)
<1>1. \A s : Promise!Compatible(s, r) <=> ~ Conflict(s, r)
  BY Zenon DEF Promise!Compatible, Conflict, names_conflict, types_conflict
<1>2. ASSUME Grantable(r), NEW g \in Held PROVE Promise!Compatible(req[g], r)
  <2>1. PICK i \in DOMAIN dir_list : g = dir_list[i]
    BY <1>2, Zenon DEF Held, Range
  <2> QED
    BY <1>1, <1>2, <2>1, Zenon DEF Grantable
<1>3. ASSUME Promise!CanHold(r), NEW i \in DOMAIN dir_list PROVE ~ Conflict(req[dir_list[i]], r)
  <2>1. dir_list[i] \in Held
    BY Zenon DEF Held, Range
  <2> QED
    BY <1>1, <1>3, <2>1, Zenon DEF Promise!CanHold
<1> QED
  BY <1>2, <1>3, Zenon DEF Grantable, Promise!CanHold

\* A lock request is Ask, with its three answers; the read lock that is
\* only counted ends the promise.
LEMMA LockIsAsk ==
  ASSUME WInv, NEW t \in Threads, NEW f \in Frames, NEW r \in Request, Lock(t, f, r)
  PROVE  freed' \/ Promise!Ask(f, r)
<1>1. /\ req[f] = Promise!NoReq /\ r.trans \notin gone
      /\ req' = [req EXCEPT ![f] = r] /\ gone' = gone
  BY Zenon DEF Lock, LockGranted, LockBlocked, LockRefused, Arrives, NoReq, Promise!NoReq
<1>2. CASE Insert(f, r) /\ reply' = [reply EXCEPT ![f] = "granted"]
  <2>1. Held' = Held \cup {f}
    <3>1. dir_list \in Seq(Frames) /\ dir_list' = <<f>> \o dir_list
      BY <1>2, HeldFacts, Zenon DEF Insert
    <3>2. Range(<<f>> \o dir_list) = Range(dir_list) \cup {f}
      BY <1>1, <3>1, ConsRange
    <3> QED
      BY <3>1, <3>2, Zenon DEF Held
  <2>2. Promise!CanHold(r)
    BY <1>2, GrantableIsCanHold, Zenon DEF Insert
  <2> QED
    BY <1>1, <1>2, <2>1, <2>2, Zenon DEF Promise!Ask
<1>3. CASE CountReader(f, r)
  BY <1>3, Zenon DEF CountReader
<1>4. CASE LockBlocked(t, f, r)
  <2>1. Held' = Held /\ reply' = reply
    BY <1>4, Zenon DEF LockBlocked, Block, Held
  <2>2. ~ Grantable(r)
    BY <1>4, Zenon DEF LockBlocked, Block, FirstConflict, Grantable
  <2> QED
    BY <1>1, <2>1, <2>2, GrantableIsCanHold, Zenon DEF Promise!Ask
<1>5. CASE LockRefused(t, f, r)
  <2>1. Held' = Held /\ reply' = [reply EXCEPT ![f] = "EAGAIN"] /\ ~ Grantable(r)
    BY <1>5, Zenon DEF LockRefused, locks, Held
  <2> QED
    BY <1>1, <2>1, GrantableIsCanHold, Zenon DEF Promise!Ask
<1> QED
  BY <1>2, <1>3, <1>4, <1>5, Zenon DEF Lock, LockGranted

\* A request that a retry grants is Acquire; one that it blocks again changes
\* nothing a client sees.
LEMMA RetryIsAcquire ==
  ASSUME WInv, NEW t \in Threads, Retry(t)
  PROVE  freed' \/ Promise!Acquire(Head(todo[t])) \/ UNCHANGED Promise!vars
<1> DEFINE f == Head(todo[t])
<1>1. f \in Frames /\ Unanswered(f) /\ f \notin Held
  BY RetryTakes, Zenon
<1>2. req' = req /\ reply' = reply /\ gone' = gone
  BY Zenon DEF Retry
<1>3. Insert(f, req[f]) \/ CountReader(f, req[f]) \/ Block(f, req[f])
  BY Zenon DEF Retry
<1>4. Promise!Waiting(f)
  BY <1>1, Zenon DEF Promise!Waiting, Promise!NoReq, NoReq, Unanswered
<1> HIDE DEF f
<1>5. CASE Insert(f, req[f])
  <2>1. Held' = Held \cup {f}
    <3>1. dir_list \in Seq(Frames) /\ dir_list' = <<f>> \o dir_list
      BY <1>1, <1>5, HeldFacts, Zenon DEF Insert
    <3>2. Range(<<f>> \o dir_list) = Range(dir_list) \cup {f}
      BY <1>1, <3>1, ConsRange
    <3> QED
      BY <3>1, <3>2, Zenon DEF Held
  <2>2. Promise!CanHold(req[f])
    BY <1>5, GrantableIsCanHold, Zenon DEF Insert
  <2>3. Promise!Acquire(f)
    BY <1>2, <1>4, <2>1, <2>2, Zenon DEF Promise!Acquire
  <2> QED
    BY <2>3, Zenon DEF f
<1>6. CASE CountReader(f, req[f])
  BY <1>6, Zenon DEF CountReader
<1>7. CASE Block(f, req[f])
  <2>1. Held' = Held
    BY <1>7, Zenon DEF Block, Held
  <2> QED
    BY <1>2, <2>1, Zenon DEF Promise!vars
<1> QED
  BY <1>3, <1>5, <1>6, <1>7, Zenon

\* Unlock is Drop, Release is Hangup, one turn of its loop is Reclaim, and
\* an answer to a granted request is Tell.
LEMMA OthersKeepPromise ==
  ASSUME Disciplined, WInv, Owned, ~ freed, NEW t \in Threads
  PROVE  /\ \A f \in Frames : Unlock(t, f) => Promise!Drop(f)
         /\ \A c \in Transports : Release(t, c) => Promise!Hangup(c)
         /\ ReleaseOne(t) => \E f \in Frames : Promise!Reclaim(f)
         /\ UnwindGranted(t) => UNCHANGED Promise!vars \/ \E f \in Frames : Promise!Tell(f)
<1>1. ASSUME NEW f \in Frames, Unlock(t, f) PROVE Promise!Drop(f)
  <2>1. reply[f] = "granted" /\ Held' = Held \ {f}
    BY <1>1, UnlockTakesOwn, Zenon
  <2> QED
    BY <1>1, <2>1, Zenon DEF Unlock, Promise!Drop
<1>2. ASSUME NEW c \in Transports, Release(t, c) PROVE Promise!Hangup(c)
  <2>1. Held' = Held
    BY <1>2, Zenon DEF Release, locks, Held
  <2> QED
    BY <1>2, <2>1, Zenon DEF Release, Promise!Hangup
<1>3. ASSUME ReleaseOne(t) PROVE \E f \in Frames : Promise!Reclaim(f)
  <2>1. PICK i \in DOMAIN dir_list :
          dir_list[i] \in scan[t] /\ dir_list' = list_del(dir_list, i)
    BY <1>3, Zenon DEF ReleaseOne
  <2>2. req' = req /\ reply' = reply /\ gone' = gone
    BY <1>3, Zenon DEF ReleaseOne
  <2>3. Held' = Held \ {dir_list[i]} /\ dir_list[i] \in Held
    BY <2>1, <2>2, RemoveEffect, Zenon
  <2>4. req[dir_list[i]].trans \in gone /\ dir_list[i] \in Frames
    BY <2>1, <2>3, HeldFacts, Zenon DEF Owned
  <2>5. Promise!Reclaim(dir_list[i])
    BY <2>2, <2>3, <2>4, Zenon DEF Promise!Reclaim
  <2> QED
    BY <2>4, <2>5, Zenon
<1>4. ASSUME UnwindGranted(t)
      PROVE  UNCHANGED Promise!vars \/ \E f \in Frames : Promise!Tell(f)
  <2>1. UNCHANGED <<req, gone, Held>>
    BY <1>4, Zenon DEF UnwindGranted, locks, Held
  <2>2. CASE granted[t] = <<>>
    BY <1>4, <2>1, <2>2, Zenon DEF UnwindGranted, Promise!vars
  <2>3. CASE granted[t] # <<>>
    <3> DEFINE f == Head(granted[t])
    <3>1. f \in Frames /\ f \in Granted(t) /\ reply' = [reply EXCEPT ![f] = "granted"]
      BY <1>4, <2>3, UnwindTakes, Zenon
    <3> HIDE DEF f
    <3>2. f \in Held /\ reply[f] = "none"
      BY <3>1, Zenon DEF Owned, WInv, Waits, Listed, Unanswered
    <3>3. Promise!Tell(f)
      BY <2>1, <3>1, <3>2, Zenon DEF Promise!Tell
    <3> QED
      BY <3>1, <3>3, Zenon
  <2> QED
    BY <2>2, <2>3, Zenon
<1> QED
  BY <1>1, <1>2, <1>3, <1>4, Zenon

\* Every step of the lists and threads is a step of the promise.
LEMMA StepKeepsPromise ==
  ASSUME Disciplined
  PROVE  WInv /\ Owned /\ [Next]_vars => [freed' \/ Promise!Next]_(Promise!vars)
<1> SUFFICES ASSUME WInv, Owned, [Next]_vars
             PROVE  freed' \/ Promise!Next \/ UNCHANGED Promise!vars
  OBVIOUS
<1>1. CASE UNCHANGED vars
  BY <1>1, Zenon DEF vars, locks, Promise!vars, Held
<1>2. ASSUME NEW t \in Threads, ~ freed,
             \/ \E f \in Frames, r \in Request : Lock(t, f, r)
             \/ \E f \in Frames : Unlock(t, f)
             \/ \E c \in Transports : Release(t, c)
             \/ Working(t)
      PROVE  freed' \/ Promise!Next \/ UNCHANGED Promise!vars
  <2>1. ASSUME NEW f \in Frames, NEW r \in Request, Lock(t, f, r) PROVE freed' \/ Promise!Next
    <3>1. r \in Promise!Request
      BY Zenon DEF Request, Promise!Request
    <3> QED
      BY <2>1, <3>1, LockIsAsk, Zenon DEF Promise!Next
  <2>2. CASE Retry(t)
    <3>1. Head(todo[t]) \in Frames
      BY <2>2, RetryTakes, Zenon
    <3> QED
      BY <2>2, <3>1, RetryIsAcquire, Zenon DEF Promise!Next
  <2>3. CASE GrantBlocked(t) \/ LeaveSection(t)
    BY <2>3, Zenon DEF GrantBlocked, LeaveSection, locks, Promise!vars, Held
  <2>4. CASE (\E f \in Frames : Unlock(t, f)) \/ (\E c \in Transports : Release(t, c))
             \/ ReleaseOne(t) \/ UnwindGranted(t)
    BY <1>2, <2>4, OthersKeepPromise, Zenon DEF Promise!Next
  <2> QED
    BY <1>2, <2>1, <2>2, <2>3, <2>4, Zenon DEF Working
<1> QED
  BY <1>1, <1>2, Zenon DEF Next, Rest

\* pl_entrylk with its lists, its retries and its two critical sections keeps
\* the promise NameLocks makes to clients, for any number of threads, clients
\* and names, until a second read lock frees the first.
THEOREM EntryLocksKeepPromise ==
  ASSUME Disciplined
  PROVE  Spec => ImplementsPromise
<1>1. Init => Promise!Init
  BY DEF Init, Promise!Init, NoReq, Promise!NoReq, Held, Range
<1> QED
  BY <1>1, InitWaits, NextWaits, InitOwned, NextOwned, StepKeepsPromise, PTL
     DEF Spec, ImplementsPromise
-----------------------------------------------------------------------------
(* The server's table of a client's locks.                                 *)

\* What is kept beside the lists: a lock that is held was not given back, an
\* unlock that is still to be answered took its lock out of the list, a client
\* has one live request, and what it was told it has is in its table.
Tables ==
  /\ dir_lockers \in [Transports -> SUBSET Frames]
  /\ ending \in [Threads -> Frames \cup {NoFrame}]
  /\ \A t \in Threads : ending[t] # NoFrame => reply[ending[t]] = "unlocked"
  /\ \A f \in Held : reply[f] \in {"none", "granted"}
  /\ \A f, g \in Frames : Live(f) /\ Live(g) /\ Client(f) = Client(g) => f = g
  /\ \A f \in Held :
       reply[f] = "granted" /\ Client(f) \notin gone => f \in dir_lockers[Client(f)]

TInv == WInv /\ Tables

\* The client of a request that has arrived.
LEMMA ClientTyped ==
  ASSUME WInv, NEW f \in Frames, req[f] # NoReq
  PROVE  Client(f) \in Transports
<1>1. req[f] \in Request
  BY Zenon DEF WInv, IInv, Typed
<1> QED
  BY <1>1, Zenon DEF Request, Client

\* An unlock never leaves its own lock in the list: a name is in the list
\* once, so that __unlock_name, which compares no owner, finds this one.
LEMMA UnlockLosesOwn ==
  ASSUME WInv, NEW t \in Threads, NEW f \in Frames, Unlock(t, f)
  PROVE  Held' \subseteq Held \ {f}
<1>1. req' = req
  BY Zenon DEF Unlock
<1>2. CASE \A i \in DOMAIN dir_list : ~ UnlockName(req[f], i)
  <2>1. dir_list' = dir_list
    BY <1>2, Zenon DEF Unlock
  <2>2. f \notin Held
    <3> SUFFICES ASSUME f \in Held PROVE FALSE
      OBVIOUS
    <3>1. PICK j \in DOMAIN dir_list : dir_list[j] = f
      BY Zenon DEF Held, Range
    <3>2. dir_list \in Seq(Frames)
      BY HeldFacts, Zenon
    <3>3. \A k \in j + 1 .. Len(dir_list) : k \in DOMAIN dir_list /\ k # j
      BY <3>2
    <3>4. UnlockName(req[f], j)
      BY <3>1, <3>3, Zenon DEF UnlockName, WInv, UniqueNames
    <3> QED
      BY <1>2, <3>4, Zenon
  <2> QED
    BY <2>1, <2>2, Zenon DEF Held
<1>3. CASE ~ \A i \in DOMAIN dir_list : ~ UnlockName(req[f], i)
  <2>1. PICK i \in DOMAIN dir_list : UnlockName(req[f], i) /\ dir_list' = list_del(dir_list, i)
    BY <1>3, Zenon DEF Unlock
  <2>2. Held' = Held \ {dir_list[i]}
    BY <1>1, <2>1, RemoveEffect, Zenon
  <2>3. f \in Held => f = dir_list[i]
    <3> SUFFICES ASSUME f \in Held PROVE f = dir_list[i]
      OBVIOUS
    <3>1. PICK j \in DOMAIN dir_list : dir_list[j] = f
      BY Zenon DEF Held, Range
    <3>2. i = j
      BY <2>1, <3>1, Zenon DEF UnlockName, WInv, UniqueNames
    <3> QED
      BY <3>1, <3>2, Zenon
  <2> QED
    BY <2>2, <2>3, Zenon
<1> QED
  BY <1>2, <1>3, Zenon

\* The new request of a client is its only live one, and is in the table as
\* soon as it is granted (server_entrylk_cbk, gf_add_locker).
LEMMA ServeLockKeeps ==
  ASSUME OneLockPerClient, TInv, NEW t \in Threads, NEW f \in Frames, NEW r \in Request,
         ServeLock(t, f, r)
  PROVE  Tables'
<1>1. /\ req[f] = NoReq /\ req' = [req EXCEPT ![f] = r] /\ gone' = gone
      /\ reply' \in {reply, [reply EXCEPT ![f] = "granted"], [reply EXCEPT ![f] = "EAGAIN"]}
      /\ ending' = ending /\ Lock(t, f, r)
      /\ \A g \in Frames : Live(g) => Client(g) # r.trans
  BY Zenon DEF ServeLock, Lock, LockGranted, LockBlocked, LockRefused, Arrives
<1>2. f \notin Held /\ reply[f] = "none"
  BY <1>1, NewIsNowhere, Zenon DEF TInv, WInv, Kept
<1>3. /\ req'[f] = r /\ r.trans \in Transports
      /\ \A g \in Frames : g # f => req'[g] = req[g] /\ reply'[g] = reply[g]
  BY <1>1 DEF TInv, WInv, IInv, Typed, Kept, Request
<1>4. /\ Held' \subseteq Held \cup {f}
      /\ f \in Held' => reply'[f] = "granted"
  <2>1. CASE LockGranted(t, f, r)
    <3>1. reply'[f] = "granted"
      BY <2>1, Zenon DEF LockGranted, TInv, WInv, Kept
    <3>2. CASE Insert(f, r)
      <4>1. dir_list \in Seq(Frames) /\ dir_list' = <<f>> \o dir_list
        BY <3>2, HeldFacts, Zenon DEF Insert, TInv
      <4>2. Range(<<f>> \o dir_list) = Range(dir_list) \cup {f}
        BY <4>1, ConsRange
      <4> QED
        BY <3>1, <4>1, <4>2, Zenon DEF Held
    <3>3. CASE CountReader(f, r)
      BY <3>1, <3>3, Zenon DEF CountReader, Held
    <3> QED
      BY <2>1, <3>2, <3>3, Zenon DEF LockGranted
  <2>2. CASE LockBlocked(t, f, r) \/ LockRefused(t, f, r)
    <3>1. dir_list' = dir_list
      BY <2>2, Zenon DEF LockBlocked, LockRefused, Block, locks
    <3> QED
      BY <1>2, <3>1, Zenon DEF Held
  <2> QED
    BY <1>1, <2>1, <2>2, Zenon DEF Lock
<1>5. Held \subseteq Frames /\ \A g \in Held : g # f
  BY <1>2, HeldFacts, Zenon DEF TInv
<1>6. /\ dir_lockers' \in [Transports -> SUBSET Frames]
      /\ \A c \in Transports : dir_lockers[c] \subseteq dir_lockers'[c]
      /\ reply'[f] = "granted" => f \in dir_lockers'[r.trans]
  <2>1. CASE AddLocker(f)
    BY <1>3, <2>1, SMTT(30) DEF AddLocker, TInv, Tables
  <2>2. CASE reply'[f] # "granted" /\ dir_lockers' = dir_lockers
    BY <2>2, Zenon DEF TInv, Tables
  <2> QED
    BY <2>1, <2>2, Zenon DEF ServeLock
<1>7. \A u \in Threads : ending'[u] # NoFrame => ending[u] # f /\ reply'[ending'[u]] = "unlocked"
  BY <1>1, <1>2, <1>3, SMTT(30) DEF TInv, Tables
<1>8. \A g \in Held' : reply'[g] \in {"none", "granted"}
  BY <1>3, <1>4, <1>5, Zenon DEF TInv, Tables
<1>9. \A g, h \in Frames : Live(g)' /\ Live(h)' /\ Client(g)' = Client(h)' => g = h
  <2>1. \A g \in Frames : g # f => (Live(g)' => Live(g)) /\ Client(g)' = Client(g)
    BY <1>1, <1>3, Zenon DEF Live, Client
  <2>2. Client(f)' = r.trans
    BY <1>3, Zenon DEF Client
  <2>3. \A g \in Frames : g # f /\ Live(g)' => Client(g)' # Client(f)'
    BY <1>1, <2>1, <2>2, Zenon
  <2> QED
    BY <2>1, <2>3, Zenon DEF TInv, Tables
<1>10. ASSUME NEW g \in Held', reply'[g] = "granted", Client(g)' \notin gone'
       PROVE  g \in dir_lockers'[Client(g)']
  <2>1. CASE g = f
    BY <1>3, <1>6, <1>10, <2>1, Zenon DEF Client
  <2>2. CASE g # f
    <3>1. g \in Held /\ g \in Frames
      BY <1>4, <1>5, <2>2, Zenon
    <3>2. reply[g] = "granted" /\ Client(g)' = Client(g) /\ Client(g) \notin gone
      BY <1>1, <1>3, <1>10, <2>2, <3>1 DEF Client
    <3>3. Client(g) \in Transports
      BY <3>1, ClientTyped, HeldFacts, Zenon DEF TInv
    <3> QED
      BY <1>6, <3>1, <3>2, <3>3, Zenon DEF TInv, Tables
  <2> QED
    BY <2>1, <2>2, Zenon
<1>11. ending' \in [Threads -> Frames \cup {NoFrame}]
  BY <1>1, Zenon DEF TInv, Tables
<1> QED
  BY <1>6, <1>7, <1>8, <1>9, <1>10, <1>11, Zenon DEF Tables

\* A client that unlocks has no other lock whose entry gf_del_locker, which
\* takes every entry of the client's pid, could lose.
LEMMA ServeUnlockKeeps ==
  ASSUME TInv, NEW t \in Threads, NEW f \in Frames, ServeUnlock(t, f)
  PROVE  Tables'
<1>1. /\ req' = req /\ gone' = gone /\ reply' = [reply EXCEPT ![f] = "unlocked"]
      /\ reply[f] = "granted" \/ (~ Disciplined /\ reply[f] = "EAGAIN")
      /\ ending' \in {ending, [ending EXCEPT ![t] = f]}
      /\ DelLocker(f) \/ dir_lockers' = dir_lockers
  BY Zenon DEF ServeUnlock, Unlock
<1>2. Held' \subseteq Held \ {f} /\ Held \subseteq Frames
  BY UnlockLosesOwn, HeldFacts, Zenon DEF ServeUnlock, TInv
<1>3. /\ reply'[f] = "unlocked" /\ req[f] # NoReq
      /\ \A g \in Frames : g # f => reply'[g] = reply[g]
  BY <1>1, Zenon DEF TInv, WInv, Kept
<1>4. Live(f)
  BY <1>1, <1>3, Zenon DEF Live
<1>5. \A g : Client(g)' = Client(g)
  BY <1>1, Zenon DEF Client
<1>6. \A u \in Threads : ending'[u] \in {ending[u], f}
  BY <1>1 DEF TInv, Tables
<1>7. \A g \in Frames : Live(g)' => Live(g)
  BY <1>1, <1>3, <1>4, <1>6, Zenon DEF Live
<1>8. \A g, h \in Frames : Live(g)' /\ Live(h)' /\ Client(g)' = Client(h)' => g = h
  BY <1>5, <1>7, Zenon DEF TInv, Tables
<1>9. \A g \in Held' : reply'[g] \in {"none", "granted"}
  BY <1>2, <1>3, Zenon DEF TInv, Tables
<1>10. \A u \in Threads : ending'[u] # NoFrame => reply'[ending'[u]] = "unlocked"
  BY <1>3, <1>6 DEF TInv, Tables
<1>11. dir_lockers' \in [Transports -> SUBSET Frames]
  BY <1>1, Zenon DEF DelLocker, TInv, Tables
<1>12. ASSUME NEW g \in Held', reply'[g] = "granted", Client(g)' \notin gone'
       PROVE  g \in dir_lockers'[Client(g)']
  <2>1. /\ g \in Held /\ g \in Frames /\ g # f /\ reply[g] = "granted" /\ Client(g) \notin gone
    BY <1>1, <1>2, <1>3, <1>5, <1>12, Zenon
  <2>2. g \in dir_lockers[Client(g)]
    BY <2>1, Zenon DEF TInv, Tables
  <2>3. req[g] # NoReq
    BY <2>1, HeldFacts, Zenon DEF TInv
  <2>4. Client(g) # Client(f)
    <3>1. Live(g)
      BY <2>1, <2>3, Zenon DEF Live
    <3> QED
      BY <1>4, <2>1, <3>1, Zenon DEF TInv, Tables
  <2>5. Client(g) \in Transports
    BY <2>1, <2>3, ClientTyped, Zenon DEF TInv
  <2> QED
    BY <1>1, <1>5, <2>2, <2>4, <2>5, Zenon DEF DelLocker, TInv, Tables
<1>13. ending' \in [Threads -> Frames \cup {NoFrame}]
  BY <1>1, Zenon DEF TInv, Tables
<1> QED
  BY <1>8, <1>9, <1>10, <1>11, <1>12, <1>13, Zenon DEF Tables

\* A granted request is in its client's table when the client hears of it.
LEMMA UnwindKeeps ==
  ASSUME TInv, NEW t \in Threads, UnwindGranted(t), granted[t] # <<>>,
         AddLocker(Head(granted[t])), ending' = ending
  PROVE  Tables'
<1> DEFINE f == Head(granted[t])
<1>1. f \in Frames /\ Unanswered(f) /\ reply' = [reply EXCEPT ![f] = "granted"]
  BY UnwindTakes, Zenon DEF TInv
<1>2. req' = req /\ gone' = gone /\ dir_list' = dir_list /\ AddLocker(f)
  BY Zenon DEF UnwindGranted, locks
<1> HIDE DEF f
<1>3. Held' = Held /\ \A g : Client(g)' = Client(g)
  BY <1>2, Zenon DEF Held, Client
<1>4. /\ reply'[f] = "granted" /\ Live(f) /\ reply[f] = "none" /\ Client(f) \in Transports
      /\ \A g \in Frames : g # f => reply'[g] = reply[g]
  BY <1>1, ClientTyped, Zenon DEF TInv, WInv, Kept, Unanswered, Live
<1>5. \A g \in Frames : Live(g)' => Live(g)
  BY <1>2, <1>4, Zenon DEF Live
<1>6. \A g, h \in Frames : Live(g)' /\ Live(h)' /\ Client(g)' = Client(h)' => g = h
  BY <1>3, <1>5, Zenon DEF TInv, Tables
<1>7. /\ dir_lockers' \in [Transports -> SUBSET Frames]
      /\ \A c \in Transports : dir_lockers[c] \subseteq dir_lockers'[c]
      /\ f \in dir_lockers'[Client(f)]
  <2>1. dir_lockers' = [dir_lockers EXCEPT ![Client(f)] = @ \cup {f}]
    <3>1. req'[f].trans = Client(f)
      BY <1>2, Zenon DEF Client
    <3> QED
      BY <1>2, <3>1, Zenon DEF AddLocker
  <2> QED
    BY <1>1, <1>4, <2>1 DEF TInv, Tables
<1>8. Held \subseteq Frames /\ \A g \in Held : reply'[g] \in {"none", "granted"}
  BY <1>4, HeldFacts, Zenon DEF TInv, Tables
<1>9. \A u \in Threads : ending'[u] # NoFrame => reply'[ending'[u]] = "unlocked"
  BY <1>4, SMTT(30) DEF TInv, Tables
<1>10. ASSUME NEW g \in Held', reply'[g] = "granted", Client(g)' \notin gone'
       PROVE  g \in dir_lockers'[Client(g)']
  <2>1. g \in Held /\ g \in Frames /\ Client(g) \notin gone /\ Client(g) \in Transports
    BY <1>2, <1>3, <1>8, <1>10, ClientTyped, HeldFacts, Zenon DEF TInv
  <2>2. CASE g = f
    BY <1>3, <1>7, <2>2, Zenon
  <2>3. CASE g # f
    BY <1>3, <1>4, <1>7, <1>10, <2>1, <2>3, Zenon DEF TInv, Tables
  <2> QED
    BY <2>2, <2>3, Zenon
<1>11. ending' \in [Threads -> Frames \cup {NoFrame}]
  BY Zenon DEF TInv, Tables
<1> QED
  BY <1>3, <1>6, <1>7, <1>8, <1>9, <1>10, <1>11, Zenon DEF Tables

\* The answer to an unlock: the client has no live request but this one.
LEMMA UnlockAnswerKeeps ==
  ASSUME TInv, NEW t \in Threads, UnwindGranted(t), granted[t] = <<>>, ending[t] # NoFrame,
         DelLocker(ending[t]), ending' = [ending EXCEPT ![t] = NoFrame]
  PROVE  Tables'
<1> DEFINE f == ending[t]
<1>1. f \in Frames /\ reply[f] = "unlocked" /\ Live(f) /\ DelLocker(f)
  BY Zenon DEF TInv, Tables, Live
<1>2. req' = req /\ gone' = gone /\ dir_list' = dir_list /\ reply' = reply
  BY Zenon DEF UnwindGranted, locks
<1>3. \A u \in Threads : ending'[u] \in {ending[u], NoFrame}
  BY Zenon DEF TInv, Tables
<1> HIDE DEF f
<1>4. Held' = Held /\ \A g : Client(g)' = Client(g)
  BY <1>2, Zenon DEF Held, Client
<1>5. NoFrame \notin Frames
  BY ELAssumption, Zenon DEF NoFrame
<1>6. \A g \in Frames : Live(g)' => Live(g)
  BY <1>2, <1>3, <1>5, Zenon DEF Live
<1>7. \A g, h \in Frames : Live(g)' /\ Live(h)' /\ Client(g)' = Client(h)' => g = h
  BY <1>4, <1>6, Zenon DEF TInv, Tables
<1>8. dir_lockers' = [dir_lockers EXCEPT ![Client(f)] = {}]
  BY <1>1, ZenonT(30) DEF DelLocker
<1>9. ASSUME NEW g \in Held', reply'[g] = "granted", Client(g)' \notin gone'
      PROVE  g \in dir_lockers'[Client(g)']
  <2>1. /\ g \in Held /\ g \in Frames /\ req[g] # NoReq /\ reply[g] = "granted"
        /\ Client(g) \notin gone /\ Client(g) \in Transports
    BY <1>2, <1>4, <1>9, ClientTyped, HeldFacts, Zenon DEF TInv
  <2>2. Live(g) /\ g # f
    BY <1>1, <2>1, Zenon DEF Live
  <2>3. Client(g) # Client(f)
    BY <1>1, <2>1, <2>2, Zenon DEF TInv, Tables
  <2> QED
    BY <1>4, <1>8, <2>1, <2>3, Zenon DEF TInv, Tables
<1>10. /\ ending' \in [Threads -> Frames \cup {NoFrame}]
       /\ dir_lockers' \in [Transports -> SUBSET Frames]
  <2>1. ending \in [Threads -> Frames \cup {NoFrame}] /\ dir_lockers \in [Transports -> SUBSET Frames]
    BY Zenon DEF TInv, Tables
  <2>2. ending' \in [Threads -> Frames \cup {NoFrame}]
    BY <2>1, Zenon
  <2> QED
    BY <1>8, <2>1, <2>2, Zenon
<1>11. \A u \in Threads : ending'[u] # NoFrame => reply'[ending'[u]] = "unlocked"
  BY <1>2, <1>3, Zenon DEF TInv, Tables
<1>12. \A g \in Held' : reply'[g] \in {"none", "granted"}
  BY <1>2, <1>4, Zenon DEF TInv, Tables
<1> QED
  BY <1>7, <1>9, <1>10, <1>11, <1>12, Zenon DEF Tables

\* The work of the threads below the server, with the answers it sends.
LEMMA ServeWorkKeeps ==
  ASSUME TInv, NEW t \in Threads, ServeWork(t)
  PROVE  Tables'
<1>1. CASE UnwindGranted(t) /\ ~ (granted[t] = <<>> /\ ending[t] = NoFrame)
  <2>1. pc[t] = "unwind"
    BY <1>1, Zenon DEF UnwindGranted
  <2>2. \/ granted[t] # <<>> /\ AddLocker(Head(granted[t])) /\ ending' = ending
        \/ /\ granted[t] = <<>> /\ ending[t] # NoFrame
           /\ DelLocker(ending[t]) /\ ending' = [ending EXCEPT ![t] = NoFrame]
    BY <1>1, <2>1, Zenon DEF ServeWork
  <2> QED
    BY <1>1, <2>2, UnwindKeeps, UnlockAnswerKeeps, Zenon
<1>2. CASE ~ (UnwindGranted(t) /\ ~ (granted[t] = <<>> /\ ending[t] = NoFrame))
  <2>1. /\ dir_lockers' = dir_lockers /\ ending' = ending
        /\ req' = req /\ reply' = reply /\ gone' = gone
    BY <1>2, ZenonT(30) DEF ServeWork, Working, GrantBlocked, Retry, ReleaseOne, LeaveSection,
                UnwindGranted, locks
  <2>2. \A f \in Held' : f \in Held \/ reply[f] = "none"
    <3>1. CASE Retry(t)
      <4> DEFINE f == Head(todo[t])
      <4>1. f \in Frames /\ Unanswered(f)
        BY <3>1, RetryTakes, Zenon DEF TInv
      <4>2. Insert(f, req[f]) \/ CountReader(f, req[f]) \/ Block(f, req[f])
        BY <3>1, Zenon DEF Retry
      <4> HIDE DEF f
      <4>3. dir_list' = dir_list \/ dir_list' = <<f>> \o dir_list
        BY <4>2, Zenon DEF Insert, CountReader, Block
      <4>4. Range(<<f>> \o dir_list) = Range(dir_list) \cup {f}
        BY <4>1, HeldFacts, ConsRange DEF TInv
      <4> QED
        BY <4>1, <4>3, <4>4, Zenon DEF Held, Unanswered
    <3>2. CASE ReleaseOne(t)
      <4>1. PICK i \in DOMAIN dir_list : dir_list' = list_del(dir_list, i)
        BY <3>2, Zenon DEF ReleaseOne
      <4> QED
        BY <2>1, <4>1, RemoveEffect, Zenon DEF TInv
    <3>3. CASE GrantBlocked(t) \/ LeaveSection(t) \/ UnwindGranted(t)
      BY <3>3, Zenon DEF GrantBlocked, LeaveSection, UnwindGranted, locks, Held
    <3> QED
      BY <3>1, <3>2, <3>3, ZenonT(30) DEF ServeWork, Working
  <2>3. \A f : Client(f)' = Client(f) /\ (Live(f)' <=> Live(f))
    BY <2>1, Zenon DEF Client, Live
  <2> QED
    BY <2>1, <2>2, <2>3, Zenon DEF TInv, Tables
<1> QED
  BY <1>1, <1>2, Zenon

\* The end of a connection empties its table with the locks it releases, and
\* a disconnection only marks the client.
LEMMA DestroyKeeps ==
  ASSUME TInv
  PROVE  /\ \A t \in Threads, c \in Transports : ConnectionDestroy(t, c) => Tables'
         /\ \A c \in Transports : Disconnect(c) => Tables'
         /\ UNCHANGED svars => Tables'
<1>1. ASSUME UNCHANGED <<req, reply, dir_list, ending>>, gone \subseteq gone',
             dir_lockers' \in [Transports -> SUBSET Frames],
             \A c \in Transports : c \in gone' \/ dir_lockers'[c] = dir_lockers[c]
      PROVE  Tables'
  <2>1. Held' = Held /\ \A f : Client(f)' = Client(f) /\ (Live(f)' <=> Live(f))
    BY <1>1, Zenon DEF Held, Client, Live
  <2>2. \A f \in Held : Client(f) \in Transports
    BY HeldFacts, ClientTyped, Zenon DEF TInv
  <2> QED
    BY <1>1, <2>1, <2>2, Zenon DEF TInv, Tables
<1>2. ASSUME NEW t \in Threads, NEW c \in Transports, ConnectionDestroy(t, c) PROVE Tables'
  <2>1. UNCHANGED <<req, reply, dir_list, ending>> /\ gone' = gone \cup {c}
    BY <1>2, Zenon DEF ConnectionDestroy, Release, locks
  <2>2. dir_lockers' = [dir_lockers EXCEPT ![c] = {}] /\ dir_lockers \in [Transports -> SUBSET Frames]
    BY <1>2, Zenon DEF ConnectionDestroy, TInv, Tables
  <2>3. /\ dir_lockers' \in [Transports -> SUBSET Frames]
        /\ \A d \in Transports : d = c \/ dir_lockers'[d] = dir_lockers[d]
    BY <2>2, Zenon
  <2> QED
    BY <1>1, <2>1, <2>3, Zenon
<1>3. ASSUME (\E c \in Transports : Disconnect(c)) \/ UNCHANGED svars PROVE Tables'
  <2>1. UNCHANGED <<req, reply, dir_list, ending, gone, dir_lockers>>
    BY <1>3, Zenon DEF Disconnect, svars, vars, locks
  <2> QED
    BY <1>1, <2>1, Zenon DEF TInv, Tables
<1> QED
  BY <1>2, <1>3, Zenon

\* The server's steps are steps of the locks translator, or leave its lists
\* alone, and they keep the tables.
LEMMA ServerKeeps ==
  ASSUME OneLockPerClient
  PROVE  TInv /\ [SNext]_svars => TInv'
<1> SUFFICES ASSUME TInv, [SNext]_svars PROVE TInv'
  OBVIOUS
<1>1. Tables'
  BY ServeLockKeeps, ServeUnlockKeeps, ServeWorkKeeps, DestroyKeeps, Zenon DEF SNext, ServerRest
<1>2. WInv'
  <2>1. CASE UNCHANGED <<req, reply, locks, threads>>
    <3>1. Kept' /\ IInv'
      BY <2>1, ZenonT(30) DEF locks, threads, TInv, WInv, Kept, IInv, Typed, Known, Exclusive
    <3>2. Proper'
      BY <2>1, <3>1, QuietWaits, Zenon DEF locks, threads, TInv
    <3> QED
      BY <3>1, <3>2, Zenon DEF WInv, Proper
  <2>2. CASE Next
    BY <2>2, NextWaits, Zenon DEF TInv
  <2>3. Next \/ UNCHANGED <<req, reply, locks, threads>>
    BY ZenonT(30) DEF SNext, ServerRest, ServeLock, ServeUnlock, ServeWork, ConnectionDestroy,
           Disconnect, svars, vars, Next
  <2> QED
    BY <2>1, <2>2, <2>3, Zenon
<1> QED
  BY <1>1, <1>2, Zenon DEF TInv

\* When the last frame of a connection has been answered, a client that holds
\* a lock has an entry in conn->ltable, so that server_connection_destroy asks
\* the locks translator to release its locks, whatever its clients unlock.
THEOREM LockTableComplete ==
  ASSUME OneLockPerClient
  PROVE  SSpec => []TableComplete
<1>1. SInit => TInv
  <2> SUFFICES ASSUME SInit PROVE Tables
    BY InitWaits, Zenon DEF TInv, SInit
  <2>1. Held = {}
    BY SMTT(30) DEF SInit, Init, Held, Range
  <2> QED
    BY <2>1, Zenon DEF SInit, Init, Tables, Live
<1>2. TInv => TableComplete
  <2> SUFFICES ASSUME TInv, NEW c \in Transports, Unreferenced(c),
                      NEW i \in DOMAIN dir_list, Client(dir_list[i]) = c
               PROVE  dir_lockers[c] # {}
    BY Zenon DEF TableComplete
  <2>1. dir_list[i] \in Held
    BY Zenon DEF Held, Range
  <2>2. dir_list[i] \in Frames /\ req[dir_list[i]] # NoReq
    BY <2>1, HeldFacts, Zenon DEF TInv
  <2> QED
    BY <2>1, <2>2, Zenon DEF TInv, Tables, Unreferenced
<1> QED
  BY <1>1, <1>2, ServerKeeps, PTL DEF SSpec
=============================================================================
