---------------------------- MODULE ServerLocks ----------------------------
(***************************************************************************)
(* protocol/server on top of features/locks, for the entry locks of one    *)
(* directory and clients that each run one process (one pid).  The server  *)
(* keeps, per connection, a table of the locks it granted                  *)
(* (conn->ltable), so that it can release them when the client goes away.  *)
(*                                                                         *)
(* Every frame being served holds a reference on its transport; the        *)
(* connection is destroyed, and its locks are released, when the last      *)
(* reference is dropped.                                                   *)
(***************************************************************************)
EXTENDS EntryLocks

CONSTANTS
  OneLockPerClient   \* a client holds or waits for one lock at a time

VARIABLES
  dir_lockers,  \* conn->ltable->dir_lockers: per client, lockers by frame
  ending,       \* the unlock call each thread has still to answer
  dead          \* clients that disconnected

svars == <<vars, dir_lockers, ending, dead>>

SInit ==
  /\ Init
  /\ dir_lockers = [c \in Transports |-> {}]
  /\ ending = [t \in Threads |-> NoFrame]
  /\ dead = {}

Client(f) == req[f].trans

\* The client has asked for lock f and not yet heard that it is unlocked; an
\* undisciplined one unlocks what it was refused, too.
Live(f) ==
  \/ req[f] # NoReq /\ reply[f] \in {"none", "granted"}
  \/ ~ Disciplined /\ reply[f] = "EAGAIN"
  \/ \E t \in Threads : ending[t] = f

AddLocker_never(f) == UNCHANGED dir_lockers

\* gf_add_locker, from server_entrylk_cbk of a granted lock.
AddLocker(f) == dir_lockers' = [dir_lockers EXCEPT ![req'[f].trans] = @ \cup {f}]

\* gf_del_locker, from server_entrylk_cbk of an unlock: every entry with the
\* same inode and pid goes, whatever name it locked.
DelLocker(f) == dir_lockers' = [dir_lockers EXCEPT ![Client(f)] = {}]

\* server_entrylk: a lock request, answered at once or left with the
\* translator below.
ServeLock(t, f, r) ==
  /\ r.trans \notin dead
  /\ OneLockPerClient => \A g \in Frames : Live(g) => Client(g) # r.trans
  /\ Lock(t, f, r)
  /\ IF reply'[f] = "granted" THEN AddLocker(f) ELSE UNCHANGED dir_lockers
  /\ UNCHANGED <<ending, dead>>

\* server_entrylk: an unlock request.  It is answered when
\* grant_blocked_entry_locks is through, or at once if nothing was unlocked.
ServeUnlock(t, f) ==
  /\ Unlock(t, f)
  /\ Client(f) \notin dead
  /\ \/ /\ pc'[t] = "grant"
        /\ ending' = [ending EXCEPT ![t] = f]
        /\ UNCHANGED dir_lockers
     \/ pc'[t] = "idle" /\ DelLocker(f) /\ UNCHANGED ending
  /\ UNCHANGED dead

\* The threads' work in the translator, with the replies it sends.
ServeWork(t) ==
  /\ Working(t)
  /\ \/ /\ pc[t] = "unwind" /\ granted[t] # <<>>
        /\ AddLocker(Head(granted[t]))
        /\ UNCHANGED ending
     \/ /\ pc[t] = "unwind" /\ granted[t] = <<>> /\ ending[t] # NoFrame
        /\ DelLocker(ending[t])
        /\ ending' = [ending EXCEPT ![t] = NoFrame]
     \/ /\ pc[t] # "unwind" \/ (granted[t] = <<>> /\ ending[t] = NoFrame)
        /\ UNCHANGED <<dir_lockers, ending>>
  /\ UNCHANGED dead

\* The client crashes or its connection breaks.
Disconnect(c) ==
  /\ c \notin dead
  /\ dead' = dead \cup {c}
  /\ UNCHANGED <<vars, dir_lockers, ending>>

\* GF_EVENT_TRANSPORT_CLEANUP: the last frame of the connection has dropped
\* its reference.  server_connection_destroy asks the locks translator to
\* release the transport's locks once per locker in the table.
Unreferenced(c) ==
  /\ c \in dead \ gone
  /\ \A f \in Frames : (req[f] # NoReq /\ Client(f) = c) => reply[f] # "none"
  /\ \A t \in Threads : ending[t] # NoFrame => Client(ending[t]) # c

ConnectionDestroy_silent(t, c) ==
  /\ Unreferenced(c)
  /\ gone' = gone \cup {c}
  /\ dir_lockers' = [dir_lockers EXCEPT ![c] = {}]
  /\ UNCHANGED <<req, reply, locks, threads, ending, dead>>

ConnectionDestroy(t, c) ==
  /\ Unreferenced(c)
  /\ \/ dir_lockers[c] # {} /\ Release(t, c)
     \/ /\ dir_lockers[c] = {}
        /\ gone' = gone \cup {c}
        /\ UNCHANGED <<req, reply, locks, threads>>
  /\ dir_lockers' = [dir_lockers EXCEPT ![c] = {}]
  /\ UNCHANGED <<ending, dead>>

\* No thread has work, or nothing is defined any more.
ServerRest == (freed \/ \A t \in Threads : pc[t] = "idle") /\ UNCHANGED svars

SNext ==
  \/ /\ ~ freed
     /\ \/ \E t \in Threads :
             \/ \E f \in Frames, r \in Request : ServeLock(t, f, r)
             \/ \E f \in Frames : ServeUnlock(t, f)
             \/ \E c \in Transports : ConnectionDestroy(t, c)
             \/ ServeWork(t)
        \/ \E c \in Transports : Disconnect(c)
  \/ ServerRest

SSpec == SInit /\ [][SNext]_svars

\* Server threads run on, live clients unlock what they hold, and the event
\* loop reports a transport that lost its last reference.
SFairSpec ==
  /\ SSpec
  /\ \A t \in Threads : WF_svars(ServeWork(t))
  /\ \A f \in Frames : WF_svars(\E t \in Threads : ServeUnlock(t, f))
  /\ \A c \in Transports : WF_svars(\E t \in Threads : ConnectionDestroy(t, c))
-----------------------------------------------------------------------------
(* Properties.                                                             *)

\* Every lock held by a client is in its table by the time its connection
\* can be destroyed: server_connection_destroy finds all it has to release.
TableComplete ==
  \A c \in Transports :
    Unreferenced(c) =>
      \A i \in DOMAIN dir_list : Client(dir_list[i]) = c => dir_lockers[c] # {}

\* A client that went away does not keep a lock for ever.
DeadHoldNothing ==
  []<>(\A i \in DOMAIN dir_list : Client(dir_list[i]) \notin dead)
=============================================================================
