----------------------------- MODULE NameLocks -----------------------------
(***************************************************************************)
(* What a client of pl_entrylk may rely on, without lists, threads or a    *)
(* mutex: a request is answered "granted" only while its lock is held,     *)
(* locks held never conflict, a refusal has a cause, and a lock goes away  *)
(* only when its owner asks for it or its transport is released.           *)
(***************************************************************************)
CONSTANTS
  Frames, Transports, Names, AllNames, Types

VARIABLES
  req,      \* the request of each frame
  reply,    \* its answer
  held,     \* frames whose lock is held
  gone      \* transports released

vars == <<req, reply, held, gone>>

NoReq == [name |-> "none"]
Request == [trans : Transports, name : Names \cup {AllNames}, type : Types]

Compatible(r, s) ==
  \/ r.type = "RD" /\ s.type = "RD"
  \/ r.name # s.name /\ r.name # AllNames /\ s.name # AllNames

CanHold(r) == \A g \in held : Compatible(req[g], r)

Init ==
  /\ req = [f \in Frames |-> NoReq]
  /\ reply = [f \in Frames |-> "none"]
  /\ held = {}
  /\ gone = {}

Waiting(f) == req[f] # NoReq /\ reply[f] = "none" /\ f \notin held

\* A request is made; it may be answered at once.
Ask(f, r) ==
  /\ req[f] = NoReq
  /\ r.trans \notin gone
  /\ req' = [req EXCEPT ![f] = r]
  /\ \/ CanHold(r) /\ held' = held \cup {f} /\ reply' = [reply EXCEPT ![f] = "granted"]
     \/ /\ ~ CanHold(r)
        /\ reply' = [reply EXCEPT ![f] = "EAGAIN"] /\ UNCHANGED held
     \/ ~ CanHold(r) /\ UNCHANGED <<reply, held>>
  /\ UNCHANGED gone

\* A waiting request gets its lock, and is told of it later.
Acquire(f) ==
  /\ Waiting(f) /\ CanHold(req[f])
  /\ held' = held \cup {f}
  /\ UNCHANGED <<req, reply, gone>>

Tell(f) ==
  /\ f \in held /\ reply[f] = "none"
  /\ reply' = [reply EXCEPT ![f] = "granted"]
  /\ UNCHANGED <<req, held, gone>>

\* The owner unlocks.
Drop(f) ==
  /\ reply[f] = "granted"
  /\ held' = held \ {f}
  /\ reply' = [reply EXCEPT ![f] = "unlocked"]
  /\ UNCHANGED <<req, gone>>

\* A transport is released and its locks go away.
Hangup(c) == gone' = gone \cup {c} /\ UNCHANGED <<req, reply, held>>

Reclaim(f) ==
  /\ f \in held /\ req[f].trans \in gone
  /\ held' = held \ {f}
  /\ UNCHANGED <<req, reply, gone>>

Next ==
  \/ \E f \in Frames :
       \/ \E r \in Request : Ask(f, r)
       \/ Acquire(f) \/ Tell(f) \/ Drop(f) \/ Reclaim(f)
  \/ \E c \in Transports : Hangup(c)

Spec == Init /\ [][Next]_vars
=============================================================================
