---------------------------- MODULE EntryLocks ----------------------------
(***************************************************************************)
(* Locks on the names of one directory (pl_entrylk in features/locks,      *)
(* internal.c).  A lock is held while it is in pinode->dir_list.  A        *)
(* request that conflicts is hung on the blocked_locks list of the first   *)
(* lock it conflicts with and is retried when that lock goes away.         *)
(*                                                                         *)
(* pinode->mutex covers each critical section, but an unlock has two: it   *)
(* takes the lock out of dir_list in the first and retries the requests    *)
(* blocked on it in the second, so other threads run in between.  Replies  *)
(* are sent after the mutex is released.  A request is named by its call   *)
(* frame; a lock structure is always made from a frame's name, type and    *)
(* transport, so the frame names the lock too.                             *)
(***************************************************************************)
EXTENDS Naturals, Sequences, Functions

CONSTANTS
  Threads,      \* server threads that run the translator
  Frames,       \* bound: the lock requests made, numbered as they arrive
  Transports,   \* connections of the clients
  Names,        \* basenames in the directory
  AllNames,     \* the NULL basename: the whole directory
  Types,        \* ENTRYLK_RDLCK "RD", ENTRYLK_WRLCK "WR"
  Free,         \* mutex not held
  Disciplined   \* clients unlock only what they were granted

ASSUME ELAssumption ==
  /\ Frames \subseteq Nat \ {0}
  /\ Free \notin Threads
  /\ Threads \cap Frames = {}
  /\ AllNames \notin Names
  /\ Types \subseteq {"RD", "WR"}
  /\ Disciplined \in BOOLEAN

VARIABLES
  req,       \* the request each frame carries, NoReq before it arrives
  reply,     \* "none", "granted", "EAGAIN", or "unlocked" by the client
  dir_list,  \* pinode->dir_list: the locks held, newest first
  blocked_locks, \* the requests hung on each lock
  mutex,     \* holder of pinode->mutex
  pc,        \* what each thread does next
  unlocked,  \* the lock a thread has taken out of dir_list, by pc
  scan,      \* locks the release loop of a thread has still to visit
  todo,      \* blocked requests a thread has still to retry
  granted,   \* the granted list of a thread
  gone,      \* transports whose locks were released for good
  freed      \* a lock still in dir_list was freed: what follows is undefined

locks == <<dir_list, blocked_locks, freed>>
threads == <<mutex, pc, unlocked, scan, todo, granted>>
vars == <<req, reply, locks, threads, gone>>

NoReq == [name |-> "none"]
Request == [trans : Transports, name : Names \cup {AllNames}, type : Types]
NoFrame == 0

\* list_del: the list without its place i.
list_del(s, i) == SubSeq(s, 1, i - 1) \o SubSeq(s, i + 1, Len(s))
-----------------------------------------------------------------------------
(* Conflicts.                                                              *)

types_conflict_or(t1, t2) == ~ (t1 = "RD" \/ t2 = "RD")

types_conflict(t1, t2) == ~ (t1 = "RD" /\ t2 = "RD")

names_conflict(n1, n2) == n1 = AllNames \/ n2 = AllNames \/ n1 = n2

Conflict(r, s) == names_conflict(r.name, s.name) /\ types_conflict(r.type, s.type)

Held == Range(dir_list)

\* __lock_grantable finds no lock of the list in the way of request r ...
Grantable(r) == \A i \in DOMAIN dir_list : ~ Conflict(req[dir_list[i]], r)

\* ... or returns the first one that is.
FirstConflict(r, i) ==
  /\ Conflict(req[dir_list[i]], r)
  /\ \A j \in 1 .. i - 1 : ~ Conflict(req[dir_list[j]], r)

\* __find_most_matching_lock returns a lock whose name is r's.
NameHeld(r) == \E i \in DOMAIN dir_list : req[dir_list[i]].name = r.name
-----------------------------------------------------------------------------
(* __lock_name on frame f with request r, by its three outcomes.  The      *)
(* third is the second read lock on a name: the code counts it in the lock *)
(* that is there and then frees that lock, which stays in the list.        *)

Block_lost(f, r) ==
  /\ \E i \in DOMAIN dir_list :
       /\ FirstConflict(r, i)
       /\ blocked_locks' = [blocked_locks EXCEPT ![dir_list[i]] = <<f>>]
  /\ UNCHANGED <<dir_list, freed>>

Block(f, r) ==
  /\ \E i \in DOMAIN dir_list :
       /\ FirstConflict(r, i)
       /\ blocked_locks' = [blocked_locks EXCEPT ![dir_list[i]] = <<f>> \o @]
  /\ UNCHANGED <<dir_list, freed>>

Insert_unlessNameHeld(f, r) ==
  /\ ~ NameHeld(r)
  /\ dir_list' = <<f>> \o dir_list
  /\ UNCHANGED <<blocked_locks, freed>>

Insert(f, r) ==
  /\ Grantable(r)
  /\ r.type = "RD" => ~ NameHeld(r)
  /\ dir_list' = <<f>> \o dir_list
  /\ UNCHANGED <<blocked_locks, freed>>

CountReader(f, r) ==
  /\ Grantable(r)
  /\ r.type = "RD" /\ NameHeld(r)
  /\ freed' = TRUE
  /\ UNCHANGED <<dir_list, blocked_locks>>
-----------------------------------------------------------------------------
Init ==
  /\ req = [f \in Frames |-> NoReq]
  /\ reply = [f \in Frames |-> "none"]
  /\ dir_list = <<>>
  /\ blocked_locks = [f \in Frames |-> <<>>]
  /\ freed = FALSE
  /\ mutex = Free
  /\ pc = [t \in Threads |-> "idle"]
  /\ unlocked = [t \in Threads |-> NoFrame]
  /\ scan = [t \in Threads |-> {}]
  /\ todo = [t \in Threads |-> <<>>]
  /\ granted = [t \in Threads |-> <<>>]
  /\ gone = {}

\* pl_entrylk_common with ENTRYLK_LOCK or ENTRYLK_LOCK_NB: one critical
\* section and, unless the request stays blocked, the reply.  A request in the
\* way of a lock is blocked (ENTRYLK_LOCK) or refused (ENTRYLK_LOCK_NB).
Arrives(t, f, r) ==
  /\ pc[t] = "idle" /\ mutex = Free
  /\ req[f] = NoReq /\ \A g \in Frames : g < f => req[g] # NoReq
  /\ r.trans \notin gone
  /\ req' = [req EXCEPT ![f] = r]
  /\ UNCHANGED <<threads, gone>>

LockGranted(t, f, r) ==
  /\ Arrives(t, f, r)
  /\ Insert(f, r) \/ CountReader(f, r)
  /\ reply' = [reply EXCEPT ![f] = "granted"]

LockBlocked(t, f, r) ==
  /\ Arrives(t, f, r)
  /\ Block(f, r)
  /\ UNCHANGED reply

LockRefused(t, f, r) ==
  /\ Arrives(t, f, r)
  /\ ~ Grantable(r)
  /\ reply' = [reply EXCEPT ![f] = "EAGAIN"]
  /\ UNCHANGED locks

Lock(t, f, r) == LockGranted(t, f, r) \/ LockBlocked(t, f, r) \/ LockRefused(t, f, r)

\* __unlock_name returns the lock at place i: the name and the type must be
\* equal, the owner is not compared.
UnlockName_conflicting(r, i) ==
  /\ names_conflict(req[dir_list[i]].name, r.name) /\ req[dir_list[i]].type = r.type
  /\ \A j \in i + 1 .. Len(dir_list) : ~ names_conflict(req[dir_list[j]].name, r.name)

UnlockName(r, i) ==
  /\ req[dir_list[i]].name = r.name /\ req[dir_list[i]].type = r.type
  /\ \A j \in i + 1 .. Len(dir_list) : req[dir_list[j]].name # r.name

\* ENTRYLK_UNLOCK, first critical section, for the name and type the client
\* asked for in frame f.  Without a lock to release the call only replies.
Unlock(t, f) ==
  /\ pc[t] = "idle" /\ mutex = Free
  /\ reply[f] = "granted" \/ (~ Disciplined /\ reply[f] = "EAGAIN")
  /\ req[f].trans \notin gone
  /\ reply' = [reply EXCEPT ![f] = "unlocked"]
  /\ \/ \E i \in DOMAIN dir_list :
          /\ UnlockName(req[f], i)
          /\ unlocked' = [unlocked EXCEPT ![t] = dir_list[i]]
          /\ pc' = [pc EXCEPT ![t] = "grant"]
          /\ dir_list' = list_del(dir_list, i)
     \/ /\ \A i \in DOMAIN dir_list : ~ UnlockName(req[f], i)
        /\ UNCHANGED <<unlocked, pc, dir_list>>
  /\ UNCHANGED <<req, blocked_locks, freed, mutex, scan, todo, granted, gone>>

\* grant_blocked_entry_locks, second critical section: the requests blocked
\* on the released lock are taken for retrying.
TakeBlocked_first(t, h) ==
  /\ todo' = [todo EXCEPT ![t] = 
      IF blocked_locks[h] = <<>> THEN <<>> ELSE <<Head(blocked_locks[h])>>]
  /\ blocked_locks' = [blocked_locks EXCEPT ![h] = <<>>]

TakeBlocked(t, h) ==
  /\ todo' = [todo EXCEPT ![t] = blocked_locks[h]]
  /\ blocked_locks' = [blocked_locks EXCEPT ![h] = <<>>]

GrantBlocked(t) ==
  /\ pc[t] = "grant" /\ mutex = Free
  /\ mutex' = t
  /\ pc' = [pc EXCEPT ![t] = "section"]
  /\ TakeBlocked(t, unlocked[t])
  /\ unlocked' = [unlocked EXCEPT ![t] = NoFrame]
  /\ UNCHANGED <<req, reply, dir_list, freed, scan, granted, gone>>

\* One turn of __grant_blocked_entry_locks.
Retry(t) ==
  /\ pc[t] = "section" /\ todo[t] # <<>>
  /\ todo' = [todo EXCEPT ![t] = Tail(@)]
  /\ LET f == Head(todo[t])
     IN  \/ /\ Insert(f, req[f]) \/ CountReader(f, req[f])
            /\ granted' = [granted EXCEPT ![t] = <<f>> \o @]
         \/ /\ Block(f, req[f])
            /\ UNCHANGED granted
  /\ UNCHANGED <<req, reply, mutex, pc, unlocked, scan, gone>>

\* The locks the loop of release_entry_locks_for_transport will stop at: a
\* lock granted meanwhile goes to the front of the list, behind the loop.
LocksOf(c) == {f \in Held : req[f].trans = c}

\* release_entry_locks_for_transport (a request with pid 0).  The server
\* sends it when the transport's last frame has been answered.
Release(t, c) ==
  /\ pc[t] = "idle" /\ mutex = Free
  /\ c \notin gone
  /\ \A f \in Frames : (req[f] # NoReq /\ req[f].trans = c) => reply[f] # "none"
  /\ mutex' = t
  /\ pc' = [pc EXCEPT ![t] = "section"]
  /\ scan' = [scan EXCEPT ![t] = LocksOf(c)]
  /\ gone' = gone \cup {c}
  /\ UNCHANGED <<req, reply, locks, unlocked, todo, granted>>

ReleaseOne(t) ==
  /\ pc[t] = "section" /\ todo[t] = <<>>
  /\ \E i \in DOMAIN dir_list :
       /\ dir_list[i] \in scan[t]
       /\ \A j \in 1 .. i - 1 : dir_list[j] \notin scan[t]
       /\ scan' = [scan EXCEPT ![t] = @ \ {dir_list[i]}]
       /\ dir_list' = list_del(dir_list, i)
       /\ TakeBlocked(t, dir_list[i])
  /\ UNCHANGED <<req, reply, freed, mutex, pc, unlocked, granted, gone>>

LeaveSection_silent(t) ==
  /\ pc[t] = "section" /\ todo[t] = <<>> /\ scan[t] = {}
  /\ mutex' = Free
  /\ pc' = [pc EXCEPT ![t] = "idle"]
  /\ UNCHANGED <<req, reply, locks, unlocked, scan, todo, granted, gone>>

\* The mutex is released and the granted requests are answered.
LeaveSection(t) ==
  /\ pc[t] = "section" /\ todo[t] = <<>> /\ scan[t] = {}
  /\ mutex' = Free
  /\ pc' = [pc EXCEPT ![t] = "unwind"]
  /\ UNCHANGED <<req, reply, locks, unlocked, scan, todo, granted, gone>>

UnwindGranted(t) ==
  /\ pc[t] = "unwind"
  /\ \/ /\ granted[t] # <<>>
        /\ reply' = [reply EXCEPT ![Head(granted[t])] = "granted"]
        /\ granted' = [granted EXCEPT ![t] = Tail(@)]
        /\ UNCHANGED pc
     \/ /\ granted[t] = <<>>
        /\ pc' = [pc EXCEPT ![t] = "idle"]
        /\ UNCHANGED <<reply, granted>>
  /\ UNCHANGED <<req, locks, mutex, unlocked, scan, todo, gone>>

\* No thread has work, or nothing is defined any more.
Rest == (freed \/ \A t \in Threads : pc[t] = "idle") /\ UNCHANGED vars

Working(t) ==
  \/ GrantBlocked(t) \/ Retry(t) \/ ReleaseOne(t) \/ LeaveSection(t)
  \/ UnwindGranted(t)

Next ==
  \/ /\ ~ freed
     /\ \E t \in Threads :
          \/ \E f \in Frames, r \in Request : Lock(t, f, r)
          \/ \E f \in Frames : Unlock(t, f)
          \/ \E c \in Transports : Release(t, c)
          \/ Working(t)
  \/ Rest

Spec == Init /\ [][Next]_vars

\* Server threads run on, and a client unlocks what it was granted.
FairSpec ==
  /\ Spec
  /\ \A t \in Threads : WF_vars(~ freed /\ Working(t))
  /\ \A f \in Frames : WF_vars(~ freed /\ \E t \in Threads : Unlock(t, f))
-----------------------------------------------------------------------------
(* Properties.                                                             *)

\* The values each variable takes; a thread is in a critical section when it
\* holds the mutex, and holds an unlocked lock between the two sections.
TypeOK ==
  /\ req \in [Frames -> Request \cup {NoReq}]
  /\ reply \in [Frames -> {"none", "granted", "EAGAIN", "unlocked"}]
  /\ dir_list \in Seq(Frames)
  /\ blocked_locks \in [Frames -> Seq(Frames)]
  /\ freed \in BOOLEAN
  /\ mutex \in Threads \cup {Free}
  /\ pc \in [Threads -> {"idle", "grant", "section", "unwind"}]
  /\ unlocked \in [Threads -> Frames \cup {NoFrame}]
  /\ scan \in [Threads -> SUBSET Frames]
  /\ todo \in [Threads -> Seq(Frames)]
  /\ granted \in [Threads -> Seq(Frames)]
  /\ gone \subseteq Transports
  /\ \A t \in Threads : pc[t] = "section" <=> mutex = t
  /\ \A t \in Threads : pc[t] = "grant" <=> unlocked[t] # NoFrame

\* Two locks held on the directory never conflict, although an unlock hands
\* its waiters over in a second critical section (grant_blocked_entry_locks).
Exclusive ==
  \A i, j \in DOMAIN dir_list :
    i # j => ~ Conflict(req[dir_list[i]], req[dir_list[j]])

\* A request that is neither answered nor granted hangs on exactly one lock,
\* and that lock is held or in the hands of the thread that will retry it: no
\* wake-up is lost between the two critical sections of an unlock.
Places(f) ==
  {h \in Frames : f \in Range(blocked_locks[h])}
    \cup {t \in Threads : f \in Range(todo[t]) \cup Range(granted[t])}

NoRequestLost ==
  \A f \in Frames :
    (req[f] # NoReq /\ reply[f] = "none") =>
      \E p \in Places(f) :
        /\ Places(f) = {p}
        /\ p \in Frames => p \in Held \cup Range(unlocked)

\* A request hanging on a held lock conflicts with it (__lock_name hangs it
\* on the lock __lock_grantable returned).
BlockedForCause ==
  \A h \in Held : \A f \in Range(blocked_locks[h]) : Conflict(req[h], req[f])

\* A request without an answer waits in one place, to be woken from there, and
\* for a lock that is in its way (__lock_name, grant_blocked_entry_locks).
WaitsProperly == NoRequestLost /\ BlockedForCause

\* A client that was told it holds a lock holds it until it unlocks it or its
\* transport is released (pl_entrylk_common).
HolderKeepsLock ==
  \A f \in Frames :
    (~ freed /\ reply[f] = "granted" /\ req[f].trans \notin gone) => f \in Held

\* When a transport has been released no lock of it is held
\* (release_entry_locks_for_transport).
ReleasedForGood ==
  \A i \in DOMAIN dir_list :
    req[dir_list[i]].trans \in gone => \E t \in Threads : dir_list[i] \in scan[t]

\* A lock is held as long as its client was told so and lives, and no longer
\* (pl_entrylk_common, release_entry_locks_for_transport).
HeldWhileOwned == HolderKeepsLock /\ ReleasedForGood

Promise == INSTANCE NameLocks WITH held <- Held

\* The lists, threads and critical sections of pl_entrylk_common implement the
\* promise NameLocks makes to the clients, until a second read lock frees the
\* first (freed).
ImplementsPromise == Promise!Init /\ [][freed' \/ Promise!Next]_(Promise!vars)

\* Again and again no request waits: each one is answered when holders unlock
\* or die (grant_blocked_entry_locks retries and unwinds them).
EveryRequestAnswered ==
  []<>(freed \/ \A f \in Frames : req[f] # NoReq => reply[f] # "none")
=============================================================================
