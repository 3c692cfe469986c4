------------------------ MODULE AfrTransactionProofs ------------------------
(***************************************************************************)
(* The locks of replicate's transaction, for any number of clients,        *)
(* children and operations: an operation that is over leaves no lock       *)
(* behind, the lock keeps two writers apart, and clients never wait for    *)
(* each other in a circle.                                                 *)
(***************************************************************************)
EXTENDS AfrTransaction, FiniteSetTheorems, TLAPS

\* The local state of a transaction.
TxRec ==
  [phase : Phases \cup {"done"}, op : vol.ops, up : SUBSET Children, locked : SUBSET Children,
   calls : SUBSET (Children \X (1 .. 2)), lost : SUBSET (Children \X (1 .. 2)),
   pending : [Children -> Int], errno : Errnos \cup {"none", "0"}, success : Nat,
   answer : {"none", "ok", "failed"}, version : Nat]

LockRec ==
  [client : Clients,
   region : UNION {{op.locks[k] : k \in DOMAIN op.locks} : op \in vol.ops},
   inode : BOOLEAN, stale : BOOLEAN]

\* What a transaction keeps to while it runs.  It asks for locks only if its
\* operation wants any.  It asks one child at a time: ENOSYS is the answer of that
\* child, the children below it that are up have been asked, and the locks it has are
\* of children below it.
Fine(t) ==
  /\ t.phase \in Phases /\ t.lost \subseteq t.calls
  /\ t.phase = "lock" \/ t.locked # {} => afr_lock_server_count(t.op) # 0
  /\ t.phase = "lock" => \E d \in Children :
       /\ t.calls # {} /\ t.calls \subseteq {d} \X DOMAIN t.op.locks
       /\ t.errno = "ENOSYS" => d \in vol.no_locking
       /\ \A c \in t.up : c \in t.locked \/ d <= c
       /\ \A c \in t.locked : c < d

\* What each child answers to calls on the fds of the clients.
FdStates == [Clients -> [Children -> {"none", "EBADFD", "EINVAL"}]]

\* The state the locks depend on has its types, and the transactions are fine.
Shape ==
  /\ vol \in Setups
  /\ child_up \in [Clients -> SUBSET Children]
  /\ badfd \in FdStates
  /\ locks \in [Children -> SUBSET LockRec]
  /\ updates \in Nat /\ reconnects \in Nat
  /\ DOMAIN tx = Clients
  /\ \A cl \in Clients : tx[cl] # Nothing =>
       cl \in vol.clients /\ tx[cl] \in TxRec /\ Fine(tx[cl])

\* Child c executes the lock calls of client cl's transaction t.
Served(cl, t, c) ==
  c \in child_up[cl] /\ c \notin vol.no_locking /\ (t.op.fd => badfd[cl][c] = "none")

IsOf(t, l) == \E k \in DOMAIN t.op.locks : l.region = t.op.locks[k]

\* Transaction t asks child c for its locks, and was granted l.
Partly(t, c, l) ==
  /\ \A call \in t.calls : call[1] = c
  /\ \E k \in DOMAIN t.op.locks : l.region = t.op.locks[k] /\ <<c, k>> \notin t.calls

\* Transaction t asked for lock l of child c and will give it back.
Owed(t, c, l) ==
  /\ IsOf(t, l)
  /\ t.phase = "lock" => c \in t.locked \/ Partly(t, c, l)
  /\ t.phase \in {"preop", "fop", "postop"} => c \in t.locked
  /\ t.phase = "unlock" =>
       \E k \in DOMAIN t.op.locks : l.region = t.op.locks[k] /\ <<c, k>> \in t.calls \ t.lost

\* A lock a client holds is one its transaction will give back.
LocksAccounted ==
  \A c \in Children : \A l \in locks[c] : ~ l.stale =>
    /\ tx[l.client] # Nothing
    /\ Served(l.client, tx[l.client], c) /\ Owed(tx[l.client], c, l)

\* Transaction t was granted lock k on child c, which client cl counts on.
Grant(cl, t, c, k) ==
  /\ c \in t.up \cap child_up[cl] /\ k \in DOMAIN t.op.locks
  /\ \/ t.phase \in {"preop", "fop", "postop"}
     \/ t.phase = "lock" /\ c \in t.locked
     \/ t.phase = "lock" /\ <<c, k>> \notin t.calls /\ \A call \in t.calls : call[1] = c

Granted(cl, c, k) == tx[cl] # Nothing /\ Grant(cl, tx[cl], c, k)

Held(cl, c, region) ==
  \E l \in locks[c] : l.client = cl /\ ~ l.stale /\ l.region = region

\* Several clients run, and no connection has come back.
Several == reconnects = 0 /\ Cardinality(vol.clients) # 1

\* What was granted is held, and two clients are never granted overlapping
\* regions.
Apart ==
  Several =>
    /\ \A cl \in Clients, c \in Children, k \in 1 .. 2 :
         Granted(cl, c, k) => Held(cl, c, tx[cl].op.locks[k])
    /\ \A m, n \in Clients, c \in Children, i, j \in 1 .. 2 :
         m # n /\ Granted(m, c, i) /\ Granted(n, c, j) =>
           tx[m].op.locks[i] \cap tx[n].op.locks[j] = {}
-----------------------------------------------------------------------------
(* What the functions that choose the next phase do to a transaction.      *)

Live == {"preop", "fop", "postop"}

\* A step of the transaction leaves its operation, children and locks alone.
SameTx(t, u) ==
  u.op = t.op /\ u.up = t.up /\ u.locked = t.locked /\ u.lost = t.lost /\ u.errno = t.errno

\* It is in phase ph and waits for the replies to the calls cs.
Waits(u, ph, cs) == u.phase = ph /\ u.calls = cs

\* u is transaction t gone on with the locks it has: in a phase that keeps them,
\* giving all of them back, or over without any.
Onward(t, u) ==
  /\ u \in TxRec /\ SameTx(t, u)
  /\ \/ u.phase \in Live
     \/ u.phase = "unlock" /\ u.calls = t.locked \X DOMAIN t.op.locks
     \/ u.phase = "done" /\ (t.locked = {} \/ afr_lock_server_count(t.op) = 0)

\* The operations lock one region or two names.
LEMMA LocksOfOp ==
  ASSUME vol \in Setups, NEW op \in vol.ops
  PROVE  /\ DOMAIN op.locks \subseteq 1 .. 2 /\ 1 \in DOMAIN op.locks
         /\ DOMAIN op.keys \subseteq 1 .. 2
<1>1. DOMAIN op.locks \in {1 .. 1, 1 .. 2} /\ DOMAIN op.keys \in {1 .. 1, 1 .. 2}
  BY AfrAssumption, Zenon
<1>2. 1 .. 1 \subseteq 1 .. 2 /\ 1 \in 1 .. 1 /\ 1 \in 1 .. 2
  OBVIOUS
<1> QED
  BY <1>1, <1>2, Zenon

\* The calls of a phase.
LEMMA CallsAre ==
  ASSUME NEW t \in TxRec, NEW ph \in Phases, NEW cs \in SUBSET Children, NEW on,
         DOMAIN on \subseteq 1 .. 2
  PROVE  /\ Calls(t, ph, cs, on) \in TxRec
         /\ SameTx(t, Calls(t, ph, cs, on))
         /\ Waits(Calls(t, ph, cs, on), ph, cs \X DOMAIN on)
<1>1. cs \X DOMAIN on \in SUBSET (Children \X (1 .. 2))
  BY Zenon
<1> DEFINE S == cs \X DOMAIN on
<1> HIDE DEF S
<1> DEFINE u == [t EXCEPT !.phase = ph, !.calls = S]
<1>2. u \in TxRec /\ SameTx(t, u) /\ u.phase = ph /\ u.calls = S
  <2>1. S \in SUBSET (Children \X (1 .. 2))
    BY <1>1, Zenon DEF S
  <2> QED
    BY <2>1, Zenon DEF TxRec, SameTx
<1> QED
  BY <1>2, Zenon DEF Calls, S, Waits

\* A transaction that is over.
LEMMA DoneIs ==
  ASSUME NEW t \in TxRec
  PROVE  /\ Answer(t) \in TxRec /\ Done(t) \in TxRec
         /\ SameTx(t, Answer(t)) /\ SameTx(t, Done(t))
         /\ Answer(t).phase = t.phase /\ Answer(t).calls = t.calls
         /\ Done(t).phase = "done"
<1> DEFINE a == Answer(t)
<1>1. a \in TxRec /\ SameTx(t, a) /\ a.phase = t.phase /\ a.calls = t.calls
  BY ZenonT(30) DEF Answer, TxRec, SameTx
<1> HIDE DEF a
<1> DEFINE u == [a EXCEPT !.phase = "done", !.calls = {}]
<1>2. u \in TxRec /\ SameTx(a, u) /\ u.phase = "done"
  BY <1>1, Zenon DEF TxRec, SameTx
<1>3. Done(t) = u
  BY Zenon DEF Done, a
<1> HIDE DEF u
<1>4. SameTx(t, u)
  BY <1>1, <1>2, Zenon DEF SameTx
<1> QED
  BY <1>1, <1>2, <1>3, <1>4, Zenon DEF a

\* afr_unlock gives back every lock.
LEMMA UnlockOnward ==
  ASSUME vol \in Setups, NEW t \in TxRec
  PROVE  Onward(t, afr_unlock(t)) /\ afr_unlock(t).phase \notin Live
<1>0. "done" \notin Live /\ "unlock" \notin Live
  BY Zenon DEF Live
<1>1. t.op \in vol.ops /\ t.locked \in SUBSET Children
  BY Zenon DEF TxRec
<1>2. CASE t.locked = {}
  BY <1>0, <1>2, DoneIs, Zenon DEF afr_unlock, Onward
<1>3. CASE t.locked # {}
  <2>1. DOMAIN t.op.locks \subseteq 1 .. 2 /\ "unlock" \in Phases
    BY <1>1, LocksOfOp, Zenon DEF Phases
  <2> QED
    <3> DEFINE u == Calls(t, "unlock", t.locked, t.op.locks)
    <3>1. u \in TxRec /\ SameTx(t, u) /\ Waits(u, "unlock", t.locked \X DOMAIN t.op.locks)
      BY <1>1, <2>1, CallsAre, Zenon
    <3>2. afr_unlock(t) = u
      BY <1>3, Zenon DEF afr_unlock
    <3> HIDE DEF u
    <3> QED
      BY <1>0, <3>1, <3>2, Zenon DEF Onward, Waits
<1> QED
  BY <1>2, <1>3, Zenon

\* The pending counts are per child.
LEMMA PendingTyped ==
  ASSUME NEW t \in TxRec, NEW n \in {SuccessCount(t), AllPending, NoCount}
  PROVE  /\ [t EXCEPT !.pending = n] \in TxRec
         /\ SameTx(t, [t EXCEPT !.pending = n])
<1>1. n \in [Children -> Int]
  BY DEF SuccessCount, AllPending, NoCount
<1> QED
  BY <1>1, Zenon DEF TxRec, SameTx

\* A phase that counts, performs or takes back keeps the locks; the counts may
\* be set first.
LEMMA LiveOnward ==
  ASSUME NEW t \in TxRec, NEW v \in TxRec, NEW ph \in Live, NEW on, DOMAIN on \subseteq 1 .. 2,
         SameTx(t, v)
  PROVE  Onward(t, Calls(v, ph, t.up, on))
<1>1. ph \in Phases /\ t.up \in SUBSET Children
  BY Zenon DEF Live, Phases, TxRec
<1> DEFINE u == Calls(v, ph, t.up, on)
<1>2. u \in TxRec
  BY <1>1, CallsAre, Zenon
<1>3. SameTx(v, u) /\ Waits(u, ph, t.up \X DOMAIN on)
  BY <1>1, CallsAre, Zenon
<1> HIDE DEF u
<1>4. Onward(t, u)
  BY <1>2, <1>3, Zenon DEF Onward, SameTx, Waits
<1> QED
  BY <1>4, Zenon DEF u

\* Whatever comes after the fop.
LEMMA ResumeOnward ==
  ASSUME vol \in Setups, NEW t \in TxRec
  PROVE  Onward(t, afr_changelog_post_op(t)) /\ Onward(t, afr_transaction_resume(t))
<1>0. DOMAIN t.op.keys \subseteq 1 .. 2
  BY LocksOfOp, Zenon DEF TxRec
<1>1. Onward(t, afr_changelog_post_op(t))
  <2>1. CASE t.up = {}
    BY <2>1, UnlockOnward, Zenon DEF afr_changelog_post_op
  <2>2. CASE t.up # {}
    <3> DEFINE v == [t EXCEPT !.pending = SuccessCount(t)]
    <3>1. v \in TxRec /\ SameTx(t, v)
      BY PendingTyped, Zenon
    <3>2. "postop" \in Live
      BY Zenon DEF Live
    <3>3. afr_changelog_post_op(t) = Calls(v, "postop", t.up, t.op.keys)
      BY <2>2, Zenon DEF afr_changelog_post_op
    <3> QED
      BY <1>0, <3>1, <3>2, <3>3, LiveOnward, Zenon
  <2> QED
    BY <2>1, <2>2, Zenon
<1>2. Onward(t, Done(t)) \/ afr_lock_server_count(t.op) # 0
  BY DoneIs, Zenon DEF Onward
<1> QED
  BY <1>1, <1>2, UnlockOnward, Zenon DEF afr_transaction_resume

\* The fop itself, the pre-op, and what follows when the locks are taken.
LEMMA TakenOnward ==
  ASSUME vol \in Setups, NEW t \in TxRec, NEW first
  PROVE  Onward(t, Fop(t)) /\ Onward(t, LocksTaken(t, first))
<1>0. DOMAIN t.op.keys \subseteq 1 .. 2
  BY LocksOfOp, Zenon DEF TxRec
<1>1. Onward(t, Fop(t))
  <2>1. CASE t.up = {}
    BY <2>1, ResumeOnward, Zenon DEF Fop
  <2>2. CASE t.up # {}
    <3>1. DOMAIN <<t.op.fop>> \subseteq 1 .. 2 /\ "fop" \in Live
      BY DEF Live
    <3>2. Fop(t) = Calls(t, "fop", t.up, <<t.op.fop>>)
      BY <2>2, Zenon DEF Fop
    <3> QED
      BY <3>1, <3>2, LiveOnward, Zenon DEF SameTx
  <2> QED
    BY <2>1, <2>2, Zenon
<1>2. Onward(t, afr_changelog_pre_op(t))
  <2>1. CASE t.up = {}
    BY <2>1, UnlockOnward, Zenon DEF afr_changelog_pre_op
  <2>2. CASE t.up # {}
    <3> DEFINE v == [t EXCEPT !.pending = AllPending]
    <3>1. v \in TxRec /\ SameTx(t, v)
      BY PendingTyped, Zenon
    <3>2. "preop" \in Live
      BY Zenon DEF Live
    <3>3. afr_changelog_pre_op(t) = Calls(v, "preop", t.up, t.op.keys)
      BY <2>2, Zenon DEF afr_changelog_pre_op
    <3> QED
      BY <1>0, <3>1, <3>2, <3>3, LiveOnward, Zenon
  <2> QED
    BY <2>1, <2>2, Zenon
<1> QED
  BY <1>1, <1>2, Zenon DEF LocksTaken

\* Min is the least element of a non-empty set of children.
LEMMA MinIsLeast ==
  ASSUME NEW S \in SUBSET Nat, S # {}
  PROVE  Min(S) \in S /\ \A j \in S : Min(S) <= j
<1>1. PICK x \in S : \A y \in S : ~ (<<y, x>> \in OpToRel(<, Nat))
  BY NatLessThanWellFounded, WFMin, Zenon
<1>2. \A y \in S : x <= y
  <2>1. SUFFICES ASSUME NEW y \in S, ~ (x <= y) PROVE FALSE
    OBVIOUS
  <2>2. <<y, x>> \in Nat \X Nat /\ y < x
    BY <2>1
  <2>3. <<y, x>> \in OpToRel(<, Nat)
    BY <2>2, Zenon DEF OpToRel
  <2> QED
    BY <2>3, <1>1, Zenon
<1> QED
  BY <1>2, Zenon DEF Min

\* u is transaction t waiting for the locks of the next live child from i on,
AsksNext(t, u, i) ==
  /\ u \in TxRec /\ SameTx(t, u) /\ u.phase = "lock"
  /\ Cardinality(t.locked) # afr_lock_server_count(t.op)
  /\ \E d \in t.up : /\ d >= i /\ \A c \in t.up : c >= i => d <= c
                     /\ u.calls = {d} \X DOMAIN t.op.locks

\* or gone on, with all live children asked or enough of them.
HasLocks(t, u, i) ==
  /\ Onward(t, u)
  /\ u.phase \in Live => \/ \A c \in t.up : c < i
                         \/ Cardinality(t.locked) = afr_lock_server_count(t.op)

\* afr_lock asks the next live child, or has all the locks it will get.
LEMMA LockRecIs ==
  ASSUME vol \in Setups, NEW t \in TxRec, NEW i \in Int, NEW first
  PROVE  \/ AsksNext(t, afr_lock_rec(t, i, first), i)
         \/ HasLocks(t, afr_lock_rec(t, i, first), i)
<1> DEFINE next == {c \in t.up : c >= i}
<1>1. t.up \in SUBSET Children /\ t.op \in vol.ops /\ \A c \in Children : c \in Nat
  BY DEF TxRec, Children
<1>2. CASE next = {} /\ t.locked = {}
  <2>1. afr_lock_rec(t, i, first) = Done(t)
    BY <1>2, Zenon DEF afr_lock_rec
  <2> QED
    BY <1>2, <2>1, DoneIs, Zenon DEF Onward, Live, HasLocks
<1>3. CASE ~ (next = {} /\ t.locked = {}) /\ (next = {} \/ Cardinality(t.locked) = afr_lock_server_count(t.op))
  <2>1. afr_lock_rec(t, i, first) = LocksTaken(t, first)
    BY <1>3, Zenon DEF afr_lock_rec
  <2>2. next = {} => \A c \in t.up : c < i
    BY <1>1
  <2> QED
    BY <1>3, <2>1, <2>2, TakenOnward, Zenon DEF HasLocks
<1>4. CASE next # {} /\ Cardinality(t.locked) # afr_lock_server_count(t.op)
  <2>1. afr_lock_rec(t, i, first) = Calls(t, "lock", {Min(next)}, t.op.locks)
    BY <1>4, Zenon DEF afr_lock_rec
  <2>2. next \in SUBSET Nat
    BY <1>1, Zenon
  <2>3. Min(next) \in next /\ \A c \in next : Min(next) <= c
    <3> HIDE DEF next
    <3> QED
      BY <1>4, <2>2, MinIsLeast, Zenon
  <2>4. /\ Min(next) \in t.up /\ Min(next) >= i /\ \A c \in t.up : c >= i => Min(next) <= c
    BY <2>3, Zenon
  <2> DEFINE d == Min(next)
  <2> HIDE DEF d
  <2>5. {d} \in SUBSET Children /\ "lock" \in Phases
    BY <1>1, <2>4, Zenon DEF Phases, d
  <2>6. DOMAIN t.op.locks \subseteq 1 .. 2
    BY <1>1, LocksOfOp, Zenon
  <2> DEFINE u == Calls(t, "lock", {d}, t.op.locks)
  <2>7. u \in TxRec /\ SameTx(t, u) /\ Waits(u, "lock", {d} \X DOMAIN t.op.locks)
    BY <2>5, <2>6, CallsAre, Zenon
  <2> QED
    BY <1>4, <2>1, <2>4, <2>7, Zenon DEF d, u, Waits, AsksNext
<1> QED
  BY <1>2, <1>3, <1>4, Zenon
-----------------------------------------------------------------------------
(* A transaction's step leaves the other clients' alone.                   *)

\* The same but for the version and the answer.
Alike(t, u) == SameTx(t, u) /\ Waits(u, t.phase, t.calls)

\* What does not look at the version does not tell like transactions apart.
LEMMA AlikeSame ==
  ASSUME NEW t, NEW u, Alike(t, u)
  PROVE  /\ Fine(t) <=> Fine(u)
         /\ \A c, l : Owed(t, c, l) <=> Owed(u, c, l)
         /\ \A cl, c : Served(cl, t, c) <=> Served(cl, u, c)
         /\ \A cl, c, k : Grant(cl, t, c, k) <=> Grant(cl, u, c, k)
<1>1. /\ u.op = t.op /\ u.up = t.up /\ u.locked = t.locked /\ u.lost = t.lost
      /\ u.errno = t.errno /\ u.phase = t.phase /\ u.calls = t.calls
  BY Zenon DEF Alike, SameTx, Waits
<1>2. Fine(t) <=> Fine(u)
  BY <1>1, Zenon DEF Fine
<1>3. \A c, l : Owed(t, c, l) <=> Owed(u, c, l)
  BY <1>1, ZenonT(30) DEF Owed, IsOf, Partly
<1>4. \A cl, c : Served(cl, t, c) <=> Served(cl, u, c)
  BY <1>1, Zenon DEF Served
<1>5. \A cl, c, k : Grant(cl, t, c, k) <=> Grant(cl, u, c, k)
  BY <1>1, Zenon DEF Grant
<1> QED
  BY <1>2, <1>3, <1>4, <1>5, Zenon

\* A transaction is in a phase.
LEMMA Busy ==
  ASSUME NEW t \in TxRec
  PROVE  t # Nothing
<1>1. t.phase \in Phases \cup {"done"}
  BY Zenon DEF TxRec
<1>2. Nothing.phase = "idle"
  BY Zenon DEF Nothing
<1>3. "idle" \notin Phases \cup {"done"}
  BY Zenon DEF Phases
<1> QED
  BY <1>1, <1>2, <1>3, Zenon

\* Becomes changes the transaction of one client.
LEMMA BecomesIs ==
  ASSUME Shape, NEW cl \in Clients, NEW v \in TxRec, Becomes(cl, v)
  PROVE  /\ updates' \in Nat /\ DOMAIN tx' = Clients
         /\ \A m \in Clients : m # cl => tx'[m] = tx[m]
         /\ v.phase = "done" => tx'[cl] = Nothing
         /\ v.phase # "done" => tx'[cl] \in TxRec /\ tx'[cl] # Nothing /\ Alike(v, tx'[cl])
<1>1. updates \in Nat /\ updates + 1 \in Nat /\ DOMAIN tx = Clients
  BY DEF Shape
<1> DEFINE performs == v.phase = "fop" /\ tx[cl].phase # "fop" /\ v.op.cells # {}
           w == [v EXCEPT !.version = updates + 1]
           u == IF v.phase = "done" THEN Nothing ELSE IF performs THEN w ELSE v
<1>2. tx' = [tx EXCEPT ![cl] = u] /\ (updates' = updates + 1 \/ updates' = updates)
  BY Zenon DEF Becomes
<1>3. w \in TxRec /\ Alike(v, w) /\ Alike(v, v)
  BY <1>1, Zenon DEF TxRec, Alike, SameTx, Waits
<1>4. u = Nothing \/ (u \in TxRec /\ Alike(v, u) /\ v.phase # "done")
  BY <1>3, Zenon
<1>5. v.phase = "done" => u = Nothing
  BY Zenon
<1>6. v.phase # "done" => u \in TxRec /\ Alike(v, u)
  BY <1>3, Zenon
<1> HIDE DEF u
<1>7. DOMAIN tx' = Clients /\ tx'[cl] = u /\ \A m \in Clients : m # cl => tx'[m] = tx[m]
  BY <1>1, <1>2, Zenon
<1> QED
  BY <1>1, <1>2, <1>5, <1>6, <1>7, Busy, Zenon

\* What the type of a transaction depends on does not change.
LEMMA SameTypes ==
  ASSUME vol' = vol
  PROVE  /\ Children' = Children /\ TxRec' = TxRec /\ LockRec' = LockRec
         /\ \A t : Fine(t)' <=> Fine(t)
  BY Zenon DEF Children, TxRec, LockRec, Fine, afr_lock_server_count

\* A step of client cl keeps the types if its transaction stays fine.
LEMMA ShapeMove ==
  ASSUME Shape, NEW cl \in Clients, cl \in vol.clients, NEW v \in TxRec, Becomes(cl, v),
         v.phase # "done" => Fine(v),
         UNCHANGED <<vol, child_up, badfd>>, reconnects' = reconnects,
         locks' \in [Children -> SUBSET LockRec]
  PROVE  Shape'
<1>1. /\ updates' \in Nat /\ DOMAIN tx' = Clients
      /\ \A m \in Clients : m # cl => tx'[m] = tx[m]
      /\ v.phase = "done" => tx'[cl] = Nothing
      /\ v.phase # "done" => tx'[cl] \in TxRec /\ Alike(v, tx'[cl])
  BY BecomesIs, Zenon
<1>2. \A m \in Clients : tx'[m] # Nothing =>
        m \in vol.clients /\ tx'[m] \in TxRec /\ Fine(tx'[m])
  <2> SUFFICES ASSUME NEW m \in Clients, tx'[m] # Nothing
               PROVE  m \in vol.clients /\ tx'[m] \in TxRec /\ Fine(tx'[m])
    OBVIOUS
  <2>1. CASE m # cl
    BY <1>1, <2>1, Zenon DEF Shape
  <2>2. CASE m = cl
    BY <1>1, <2>2, AlikeSame, Zenon
  <2> QED
    BY <2>1, <2>2, Zenon
<1>3. Nothing' = Nothing
  BY Zenon DEF Nothing
<1>4. /\ Children' = Children /\ TxRec' = TxRec /\ LockRec' = LockRec
      /\ \A t : Fine(t)' <=> Fine(t)
  BY SameTypes, Zenon
<1>5. vol' = vol /\ child_up' = child_up /\ badfd' = badfd
  BY Zenon
<1>6. \A m \in Clients : tx'[m] # Nothing => m \in vol'.clients /\ tx'[m] \in TxRec' /\ Fine(tx[m])'
  BY <1>2, <1>4, <1>5, SameTypes, Zenon DEF Fine
<1>7. FdStates' = FdStates
  BY <1>4, Zenon DEF FdStates
<1> QED
  BY <1>1, <1>3, <1>4, <1>5, <1>6, <1>7, Zenon DEF Shape

\* A step of client cl keeps the account of the locks if the locks of its own
\* that remain are owed by what the transaction has become.
LEMMA AccountMove ==
  ASSUME Shape, LocksAccounted, NEW cl \in Clients, NEW v \in TxRec, Becomes(cl, v),
         UNCHANGED <<vol, child_up, badfd>>,
         locks' \in [Children -> SUBSET LockRec],
         \A c \in Children : \A l \in locks'[c] : ~ l.stale =>
           \/ l.client # cl /\ l \in locks[c]
           \/ l.client = cl /\ v.phase # "done" /\ Served(cl, v, c) /\ Owed(v, c, l)
  PROVE  LocksAccounted'
<1>1. /\ \A m \in Clients : m # cl => tx'[m] = tx[m]
      /\ v.phase # "done" => tx'[cl] # Nothing /\ Alike(v, tx'[cl])
  BY BecomesIs, Zenon
<1>2. vol' = vol /\ child_up' = child_up /\ badfd' = badfd /\ Children' = Children
  BY SameTypes, Zenon
<1>3. /\ \A m, c : Served(m, tx[m], c)' <=> Served(m, tx'[m], c)
      /\ \A m, c, l : Owed(tx[m], c, l)' <=> Owed(tx'[m], c, l)
      /\ Nothing' = Nothing
  BY <1>2, Zenon DEF Served, Owed, IsOf, Nothing
<1> SUFFICES ASSUME NEW c \in Children, NEW l \in locks'[c], ~ l.stale
             PROVE  /\ tx'[l.client] # Nothing
                    /\ Served(l.client, tx'[l.client], c) /\ Owed(tx'[l.client], c, l)
  BY <1>2, <1>3, Zenon DEF LocksAccounted
<1>4. CASE l.client # cl /\ l \in locks[c]
  <2>1. l.client \in Clients
    BY DEF LockRec
  <2> QED
    BY <1>1, <1>4, <2>1, Zenon DEF LocksAccounted
<1>5. CASE l.client = cl /\ v.phase # "done" /\ Served(cl, v, c) /\ Owed(v, c, l)
  BY <1>1, <1>5, AlikeSame, Zenon
<1> QED
  BY <1>4, <1>5, Zenon

HeldNext(cl, c, region) ==
  \E l \in locks'[c] : l.client = cl /\ ~ l.stale /\ l.region = region

\* What transaction v of client cl was granted is held after the step, and does
\* not overlap what the others were granted before.
GrantsHeld(cl, v) ==
  Several /\ v.phase # "done" =>
    \A c \in Children, k \in 1 .. 2 : Grant(cl, v, c, k) =>
      /\ HeldNext(cl, c, v.op.locks[k])
      /\ \A n \in Clients, j \in 1 .. 2 : n # cl /\ Granted(n, c, j) =>
           v.op.locks[k] \cap tx[n].op.locks[j] = {}

\* Likewise for what was granted.
LEMMA ApartMove ==
  ASSUME Shape, Apart, NEW cl \in Clients, NEW v \in TxRec, Becomes(cl, v),
         UNCHANGED <<vol, child_up>>, reconnects' = reconnects,
         \A c \in Children : \A l \in locks[c] : l.client # cl => l \in locks'[c],
         GrantsHeld(cl, v)
  PROVE  Apart'
<1>1. /\ \A m \in Clients : m # cl => tx'[m] = tx[m]
      /\ v.phase = "done" => tx'[cl] = Nothing
      /\ v.phase # "done" => tx'[cl] # Nothing /\ Alike(v, tx'[cl])
  BY BecomesIs, Zenon
<1>2. vol' = vol /\ child_up' = child_up /\ Children' = Children /\ Nothing' = Nothing
  BY SameTypes, Zenon DEF Nothing
<1>3. \A m \in Clients : \A c, k : Granted(m, c, k)' <=> tx'[m] # Nothing /\ Grant(m, tx'[m], c, k)
  BY <1>2, ZenonT(30) DEF Granted, Grant
<1>4. \A m \in Clients : \A c, k : m # cl => (Granted(m, c, k)' <=> Granted(m, c, k))
  <2>1. \A m \in Clients : \A c, k : Granted(m, c, k) <=> tx[m] # Nothing /\ Grant(m, tx[m], c, k)
    BY Zenon DEF Granted
  <2> SUFFICES ASSUME NEW m \in Clients, NEW c, NEW k, m # cl
               PROVE  Granted(m, c, k)' <=> Granted(m, c, k)
    OBVIOUS
  <2>2. tx'[m] = tx[m]
    BY <1>1, Zenon
  <2> QED
    BY <1>3, <2>1, <2>2, Zenon
<1>5. \A c, k : Granted(cl, c, k)' =>
        v.phase # "done" /\ Grant(cl, v, c, k) /\ tx'[cl].op = v.op
  BY <1>1, <1>3, AlikeSame, Zenon DEF Alike, SameTx
<1>6. SUFFICES ASSUME Several
               PROVE  /\ \A m \in Clients, c \in Children, k \in 1 .. 2 :
                           Granted(m, c, k)' => Held(m, c, tx[m].op.locks[k])'
                      /\ \A m, n \in Clients, c \in Children, i, j \in 1 .. 2 :
                           m # n /\ Granted(m, c, i)' /\ Granted(n, c, j)' =>
                             tx'[m].op.locks[i] \cap tx'[n].op.locks[j] = {}
  <2>1. Several' <=> Several
    BY <1>2, Zenon DEF Several
  <2> QED
    BY <1>2, <2>1, <1>6, Zenon DEF Apart
<1>7. ASSUME NEW m \in Clients, NEW c \in Children, NEW k \in 1 .. 2, Granted(m, c, k)'
      PROVE  Held(m, c, tx[m].op.locks[k])'
  <2>1. CASE m # cl
    <3>1. Held(m, c, tx[m].op.locks[k]) /\ tx'[m] = tx[m]
      BY <1>1, <1>4, <1>6, <1>7, <2>1, Zenon DEF Apart
    <3> QED
      BY <2>1, <3>1, Zenon DEF Held
  <2>2. CASE m = cl
    <3>1. v.phase # "done" /\ Grant(cl, v, c, k) /\ tx'[cl].op = v.op
      BY <1>5, <1>7, <2>2, Zenon
    <3>2. HeldNext(cl, c, v.op.locks[k])
      BY <1>6, <3>1, Zenon DEF GrantsHeld
    <3>3. PICK l \in locks'[c] : l.client = cl /\ ~ l.stale /\ l.region = v.op.locks[k]
      BY <3>2, Zenon DEF HeldNext
    <3>4. l.client = m /\ l.region = tx'[m].op.locks[k]
      BY <2>2, <3>1, <3>3, Zenon
    <3> QED
      BY <3>3, <3>4, Zenon DEF Held
  <2> QED
    BY <2>1, <2>2, Zenon
<1>8. ASSUME NEW m \in Clients, NEW n \in Clients, NEW c \in Children, NEW i \in 1 .. 2,
             NEW j \in 1 .. 2, m # n, Granted(m, c, i)', Granted(n, c, j)'
      PROVE  tx'[m].op.locks[i] \cap tx'[n].op.locks[j] = {}
  <2>1. CASE m # cl /\ n # cl
    BY <1>1, <1>4, <1>6, <1>8, <2>1, ZenonT(30) DEF Apart
  <2>2. CASE m = cl
    <3>1. v.op.locks[i] \cap tx[n].op.locks[j] = {}
      BY <1>1, <1>4, <1>5, <1>6, <1>8, <2>2, Zenon DEF GrantsHeld
    <3>2. tx'[n] = tx[n] /\ tx'[m].op = v.op
      BY <1>1, <1>5, <1>8, <2>2, Zenon
    <3> QED
      BY <3>1, <3>2, Zenon
  <2>3. CASE n = cl
    <3>1. v.op.locks[j] \cap tx[m].op.locks[i] = {}
      BY <1>1, <1>4, <1>5, <1>6, <1>8, <2>3, Zenon DEF GrantsHeld
    <3>2. tx'[m] = tx[m] /\ tx'[n].op = v.op
      BY <1>1, <1>5, <1>8, <2>3, Zenon
    <3> QED
      BY <3>1, <3>2, Zenon
  <2> QED
    BY <2>1, <2>2, <2>3, Zenon
<1> QED
  BY <1>7, <1>8, Zenon

\* In particular when nothing new is granted and no lock is removed.
LEMMA ApartLess ==
  ASSUME Shape, Apart, NEW cl \in Clients, NEW v \in TxRec, Becomes(cl, v),
         UNCHANGED <<vol, child_up>>, reconnects' = reconnects,
         \A c \in Children : locks[c] \subseteq locks'[c],
         \A c, k : v.phase # "done" /\ Grant(cl, v, c, k) => Granted(cl, c, k) /\ v.op = tx[cl].op
  PROVE  Apart'
<1>1. ASSUME Several, v.phase # "done", NEW c \in Children, NEW k \in 1 .. 2, Grant(cl, v, c, k)
      PROVE  /\ HeldNext(cl, c, v.op.locks[k])
             /\ \A n \in Clients, j \in 1 .. 2 : n # cl /\ Granted(n, c, j) =>
                  v.op.locks[k] \cap tx[n].op.locks[j] = {}
  <2>1. Granted(cl, c, k) /\ v.op = tx[cl].op
    BY <1>1, Zenon
  <2>a. Held(cl, c, tx[cl].op.locks[k])
    BY <1>1, <2>1, Zenon DEF Apart
  <2>2. PICK l \in locks[c] : l.client = cl /\ ~ l.stale /\ l.region = tx[cl].op.locks[k]
    BY <2>a, Zenon DEF Held
  <2>3. \A n \in Clients, j \in 1 .. 2 : n # cl /\ Granted(n, c, j) =>
          v.op.locks[k] \cap tx[n].op.locks[j] = {}
    BY <1>1, <2>1, Zenon DEF Apart
  <2>4. HeldNext(cl, c, v.op.locks[k])
    BY <2>1, <2>2, Zenon DEF HeldNext
  <2> QED
    BY <2>3, <2>4, Zenon
<1>2. \A c \in Children : \A l \in locks[c] : l.client # cl => l \in locks'[c]
  BY Zenon
<1> QED
  BY <1>1, <1>2, ApartMove, Zenon DEF GrantsHeld
-----------------------------------------------------------------------------
(* The replies.                                                            *)

\* The count of a transaction's locks is not zero when it has some.
WantsLocks(t) == t.locked # {} => afr_lock_server_count(t.op) # 0

\* A transaction that goes on with its locks stays fine, and owes them.
LEMMA OnwardFine ==
  ASSUME NEW r \in TxRec, NEW v, Onward(r, v), r.lost = {}, WantsLocks(r)
  PROVE  /\ v.phase # "done" => Fine(v)
         /\ v.phase # "lock"
         /\ \A c \in r.locked : \A l : IsOf(r, l) => v.phase # "done" /\ Owed(v, c, l)
<1>1. v.op = r.op /\ v.up = r.up /\ v.locked = r.locked /\ v.lost = {}
  BY Zenon DEF Onward, SameTx
<1>2. \/ v.phase \in Live
      \/ v.phase = "unlock" /\ v.calls = r.locked \X DOMAIN r.op.locks
      \/ v.phase = "done" /\ r.locked = {}
  BY Zenon DEF Onward, WantsLocks
<1>3. "lock" \notin Live /\ "unlock" \notin Live /\ "done" \notin Live /\ Live \subseteq Phases
      /\ "unlock" \in Phases
  BY Zenon DEF Live, Phases
<1>4. v.phase # "lock" /\ (v.phase # "done" => v.phase \in Phases)
  BY <1>2, <1>3, Zenon
<1>5. v.phase # "done" => Fine(v)
  BY <1>1, <1>4, Zenon DEF Fine, WantsLocks
<1>6. ASSUME NEW c \in r.locked, NEW l, IsOf(r, l)
      PROVE  v.phase # "done" /\ Owed(v, c, l)
  <2>1. v.phase # "done" /\ c \in v.locked
    BY <1>1, <1>2, <1>3, Zenon
  <2>2. IsOf(v, l)
    BY <1>1, <1>6, Zenon DEF IsOf
  <2>3. v.phase = "unlock" => v.calls = r.locked \X DOMAIN r.op.locks
    BY <1>2, <1>3, Zenon
  <2>4. v.phase = "unlock" => \E k \in DOMAIN v.op.locks :
          l.region = v.op.locks[k] /\ <<c, k>> \in v.calls \ v.lost
    <3> SUFFICES ASSUME v.phase = "unlock"
                 PROVE  \E k \in DOMAIN v.op.locks :
                          l.region = v.op.locks[k] /\ <<c, k>> \in v.calls \ v.lost
      OBVIOUS
    <3>1. PICK k \in DOMAIN v.op.locks : l.region = v.op.locks[k]
      BY <2>2, Zenon DEF IsOf
    <3>2. <<c, k>> \in v.calls \ v.lost
      BY <1>1, <2>3, <3>1, Zenon
    <3> QED
      BY <3>1, <3>2, Zenon
  <2> QED
    BY <1>4, <2>1, <2>2, <2>4, Zenon DEF Owed
<1> QED
  BY <1>4, <1>5, <1>6, Zenon

\* r is transaction t with some replies in.
Kept(t, r) ==
  /\ r \in TxRec /\ r.op = t.op /\ r.locked = t.locked /\ r.up \subseteq t.up
  /\ r.phase = t.phase /\ r.lost \subseteq r.calls /\ r.calls \subseteq t.calls

\* The replies to the pre-op, the fop and the post-op keep all of it.
LEMMA LiveStep ==
  ASSUME Shape, NEW cl \in Clients, tx[cl] # Nothing, tx[cl].phase \in Live,
         NEW r, Kept(tx[cl], r), NEW v \in TxRec,
         \/ Alike(r, v)
         \/ r.calls = {} /\ Onward(r, v),
         Becomes(cl, v), UNCHANGED <<vol, child_up, badfd, locks>>, reconnects' = reconnects
  PROVE  Shape' /\ (LocksAccounted => LocksAccounted') /\ (Apart => Apart')
<1> DEFINE t == tx[cl]
<1>1. t \in TxRec /\ Fine(t) /\ cl \in vol.clients
  BY Zenon DEF Shape
<1>2. /\ r \in TxRec /\ r.op = t.op /\ r.locked = t.locked /\ r.up \subseteq t.up
      /\ r.phase = t.phase /\ r.lost \subseteq r.calls /\ r.calls \subseteq t.calls
  BY Zenon DEF Kept
<1>3. t.phase \in Live
  OBVIOUS
<1> HIDE DEF t
<1>4. /\ r.phase # "lock" /\ r.phase # "unlock" /\ r.phase # "done" /\ r.phase \in Phases
      /\ r.phase \in {"preop", "fop", "postop"}
  BY <1>2, <1>3, Zenon DEF Live, Phases
<1>5. WantsLocks(r) /\ WantsLocks(t)
  BY <1>1, <1>2, Zenon DEF Fine, WantsLocks
<1>6. Fine(r)
  BY <1>2, <1>4, <1>5, Zenon DEF Fine, WantsLocks
<1>7. r.calls = {} => r.lost = {}
  BY <1>2, Zenon
<1>8. v.phase # "done" => Fine(v)
  BY <1>2, <1>5, <1>6, <1>7, AlikeSame, OnwardFine, Zenon
<1>9. locks' \in [Children -> SUBSET LockRec] /\ locks' = locks
  BY Zenon DEF Shape
<1>10. Shape'
  BY <1>1, <1>8, <1>9, ShapeMove, Zenon
<1>11. v.op = t.op /\ v.up \subseteq t.up
  <2>1. SameTx(r, v)
    BY Zenon DEF Alike, Onward
  <2> QED
    BY <1>2, <2>1, Zenon DEF SameTx
<1>12. ASSUME LocksAccounted PROVE LocksAccounted'
  <2>1. ASSUME NEW c \in Children, NEW l \in locks'[c], ~ l.stale
        PROVE  \/ l.client # cl /\ l \in locks[c]
               \/ l.client = cl /\ v.phase # "done" /\ Served(cl, v, c) /\ Owed(v, c, l)
    <3>1. SUFFICES ASSUME l.client = cl
                   PROVE  v.phase # "done" /\ Served(cl, v, c) /\ Owed(v, c, l)
      BY <1>9, <2>1, Zenon
    <3>2. Served(cl, t, c) /\ Owed(t, c, l)
      BY <1>9, <1>12, <2>1, <3>1, Zenon DEF LocksAccounted, t
    <3>3. c \in r.locked /\ IsOf(r, l)
      BY <1>2, <1>4, <3>2, Zenon DEF Owed, IsOf
    <3>4. Served(cl, v, c)
      BY <1>11, <3>2, Zenon DEF Served
    <3>5. CASE Alike(r, v)
      <4>1. Owed(r, c, l)
        BY <1>4, <3>3, Zenon DEF Owed
      <4>2. v.phase = r.phase
        BY <3>5, Zenon DEF Alike, Waits
      <4> QED
        BY <1>4, <3>4, <3>5, <4>1, <4>2, AlikeSame, Zenon
    <3>6. CASE r.calls = {} /\ Onward(r, v)
      BY <1>2, <1>5, <1>7, <3>3, <3>4, <3>6, OnwardFine, Zenon
    <3> QED
      BY <3>5, <3>6, Zenon
  <2> QED
    BY <1>9, <1>12, <2>1, AccountMove, Zenon
<1>13. ASSUME Apart PROVE Apart'
  <2>1. v.phase # "lock"
    BY <1>2, <1>4, <1>5, <1>7, OnwardFine, Zenon DEF Alike, Waits
  <2>2. \A c, k : Grant(cl, v, c, k) => Grant(cl, t, c, k)
    BY <1>2, <1>4, <1>11, <2>1, Zenon DEF Grant
  <2>3. \A c, k : v.phase # "done" /\ Grant(cl, v, c, k) => Granted(cl, c, k) /\ v.op = tx[cl].op
    BY <1>11, <2>2, Zenon DEF Granted, t
  <2>4. \A c \in Children : locks[c] \subseteq locks'[c]
    BY <1>9, Zenon
  <2> QED
    BY <1>13, <2>3, <2>4, ApartLess, Zenon
<1> QED
  BY <1>10, <1>12, <1>13, Zenon

\* A reply is taken off the calls.
TakenOff(t, r, c, k) ==
  /\ r.calls = t.calls \ {<<c, k>>} /\ r.lost = t.lost \ {<<c, k>>}
  /\ r.errno = t.errno /\ r.up = t.up

\* Nothing else of the transaction changes.
LEMMA ReturnedIs ==
  ASSUME Shape, NEW cl \in Clients, tx[cl] # Nothing, NEW c, NEW k
  PROVE  /\ Kept(tx[cl], Returned(cl, c, k))
         /\ TakenOff(tx[cl], Returned(cl, c, k), c, k)
<1> DEFINE t == tx[cl]  r == Returned(cl, c, k)
<1>1. t \in TxRec /\ t.lost \subseteq t.calls
  BY Zenon DEF Shape, Fine
<1>2. r = [t EXCEPT !.calls = t.calls \ {<<c, k>>}, !.lost = t.lost \ {<<c, k>>}]
  BY <1>1, Zenon DEF Returned, TxRec
<1> HIDE DEF t, r
<1>3. /\ r \in TxRec /\ r.op = t.op /\ r.locked = t.locked /\ r.up = t.up /\ r.phase = t.phase
      /\ r.errno = t.errno /\ r.calls = t.calls \ {<<c, k>>} /\ r.lost = t.lost \ {<<c, k>>}
  <2> DEFINE C == t.calls \ {<<c, k>>}  L == t.lost \ {<<c, k>>}
  <2>1. C \in SUBSET (Children \X (1 .. 2)) /\ L \in SUBSET (Children \X (1 .. 2))
    BY <1>1, Zenon DEF TxRec
  <2>2. r = [t EXCEPT !.calls = C, !.lost = L]
    BY <1>2, Zenon
  <2> HIDE DEF C, L
  <2>3. /\ r \in TxRec /\ r.op = t.op /\ r.locked = t.locked /\ r.up = t.up /\ r.phase = t.phase
        /\ r.errno = t.errno /\ r.calls = C /\ r.lost = L
    BY <1>1, <2>1, <2>2, Zenon DEF TxRec
  <2> QED
    BY <2>3, Zenon DEF C, L
<1>4. r.lost \subseteq r.calls /\ r.calls \subseteq t.calls
  BY <1>1, <1>3, Zenon
<1> QED
  BY <1>3, <1>4, Zenon DEF Kept, TakenOff, t, r

\* A child that failed is no longer counted on.
Marked(r, f, c, e) ==
  f.calls = r.calls /\ f.lost = r.lost /\ f.errno = e /\ f.up = r.up \ {c}

\* Nothing else of the transaction changes.
LEMMA FailedIs ==
  ASSUME NEW t, NEW r, Kept(t, r), NEW c, NEW e \in Errnos \cup {"0"}
  PROVE  Kept(t, Failed(r, c, e)) /\ Marked(r, Failed(r, c, e), c, e)
<1> DEFINE f == Failed(r, c, e)
<1>1. /\ r \in TxRec /\ r.op = t.op /\ r.locked = t.locked /\ r.up \subseteq t.up
      /\ r.phase = t.phase /\ r.lost \subseteq r.calls /\ r.calls \subseteq t.calls
  BY Zenon DEF Kept
<1>2. f = [r EXCEPT !.up = r.up \ {c}, !.errno = e]
  BY <1>1, Zenon DEF Failed, TxRec
<1> HIDE DEF f
<1>3. /\ f \in TxRec /\ f.op = r.op /\ f.locked = r.locked /\ f.up = r.up \ {c}
      /\ f.phase = r.phase /\ f.lost = r.lost /\ f.calls = r.calls /\ f.errno = e
  <2> DEFINE U == r.up \ {c}
  <2>1. U \in SUBSET Children /\ e \in Errnos \cup {"none", "0"}
    BY <1>1, Zenon DEF TxRec
  <2>2. f = [r EXCEPT !.up = U, !.errno = e]
    BY <1>2, Zenon
  <2> HIDE DEF U
  <2>3. /\ f \in TxRec /\ f.op = r.op /\ f.locked = r.locked /\ f.up = U
        /\ f.phase = r.phase /\ f.lost = r.lost /\ f.calls = r.calls /\ f.errno = e
    BY <1>1, <2>1, <2>2, Zenon DEF TxRec
  <2> QED
    BY <2>3, Zenon DEF U
<1>4. f.up \subseteq t.up
  BY <1>1, <1>3, Zenon
<1> QED
  BY <1>1, <1>3, <1>4, Zenon DEF Kept, Marked, f

\* The caller may be answered, the successes and the counts be brought up to
\* date.
LEMMA AnsweredIs ==
  ASSUME NEW t, NEW r, Kept(t, r)
  PROVE  /\ Kept(t, Answer(r)) /\ Kept(t, [r EXCEPT !.success = @ + 1])
         /\ \A c, e : Kept(t, afr_transaction_child_died(r, c, e))
<1>1. /\ r \in TxRec /\ r.op = t.op /\ r.locked = t.locked /\ r.up \subseteq t.up
      /\ r.phase = t.phase /\ r.lost \subseteq r.calls /\ r.calls \subseteq t.calls
  BY Zenon DEF Kept
<1>2. ASSUME NEW u \in TxRec, SameTx(r, u), u.phase = r.phase, u.calls = r.calls
      PROVE  Kept(t, u)
  BY <1>1, <1>2, Zenon DEF SameTx, Kept
<1>3. Kept(t, Answer(r))
  BY <1>1, <1>2, DoneIs, Zenon
<1>4. Kept(t, [r EXCEPT !.success = @ + 1])
  <2> DEFINE u == [r EXCEPT !.success = @ + 1]
  <2>1. r.success + 1 \in Nat
    BY <1>1 DEF TxRec
  <2>2. u = [r EXCEPT !.success = r.success + 1]
    BY <1>1, Zenon DEF TxRec
  <2>3. u \in TxRec /\ SameTx(r, u) /\ u.phase = r.phase /\ u.calls = r.calls
    BY <1>1, <2>1, <2>2, Zenon DEF TxRec, SameTx
  <2> HIDE DEF u
  <2>4. Kept(t, u)
    BY <1>2, <2>3, Zenon
  <2> QED
    BY <2>4, Zenon DEF u
<1>5. ASSUME NEW c, NEW e PROVE Kept(t, afr_transaction_child_died(r, c, e))
  <2> DEFINE p == [r.pending EXCEPT ![c] = 0]  u == [r EXCEPT !.pending = p]
  <2>0. r.pending \in [Children -> Int] /\ 0 \in Int
    BY <1>1 DEF TxRec
  <2>1. p \in [Children -> Int]
    BY <2>0, Zenon
  <2>2. u = [r EXCEPT !.pending[c] = 0]
    BY <1>1, Zenon DEF TxRec
  <2> HIDE DEF p
  <2>3. u \in TxRec /\ SameTx(r, u) /\ u.phase = r.phase /\ u.calls = r.calls
    BY <1>1, <2>1, Zenon DEF TxRec, SameTx
  <2>4. afr_transaction_child_died(r, c, e) = u \/ afr_transaction_child_died(r, c, e) = r
    BY <2>2, Zenon DEF afr_transaction_child_died
  <2> HIDE DEF u
  <2>5. Kept(t, u)
    BY <1>2, <2>3, Zenon
  <2> QED
    BY <2>4, <2>5, Zenon
<1> QED
  BY <1>3, <1>4, <1>5, Zenon

\* What becomes of a transaction in the pre-op, the fop or the post-op.
LEMMA AfterLive ==
  ASSUME vol \in Setups, NEW t, NEW r, Kept(t, r), NEW v,
         v = AfterPreOp(r) \/ v = AfterFop(r) \/ v = AfterPostOp(r)
  PROVE  v \in TxRec /\ \E u : Kept(t, u) /\ (Alike(u, v) \/ (u.calls = {} /\ Onward(u, v)))
<1>1. r \in TxRec /\ \A u : u \in TxRec => Alike(u, u)
  BY Zenon DEF Kept, Alike, SameTx, Waits
<1>2. ASSUME v = AfterPreOp(r)
      PROVE  (v \in TxRec /\ Alike(r, v)) \/ (r.calls = {} /\ Onward(r, v))
  BY <1>1, <1>2, ResumeOnward, TakenOnward, Zenon DEF AfterPreOp, AllReturned
<1>3. ASSUME v = AfterPostOp(r)
      PROVE  (v \in TxRec /\ Alike(r, v)) \/ (r.calls = {} /\ Onward(r, v))
  <2>1. afr_lock_server_count(r.op) = 0 => Onward(r, Done(r))
    BY <1>1, DoneIs, Zenon DEF Onward
  <2> QED
    BY <1>1, <1>3, <2>1, UnlockOnward, Zenon DEF AfterPostOp, AllReturned
<1>4. ASSUME v = AfterFop(r)
      PROVE  \E u : Kept(t, u) /\ ((v \in TxRec /\ Alike(u, v)) \/ (u.calls = {} /\ Onward(u, v)))
  <2> DEFINE u == IF \/ r.op.reply = "early" /\ r.success > 0
                     \/ r.op.reply = "last" /\ AllReturned(r)
                  THEN Answer(r) ELSE r
  <2>1. Kept(t, u) /\ u.calls = r.calls
    BY <1>1, AnsweredIs, DoneIs, Zenon
  <2>2. v = IF AllReturned(r) THEN afr_transaction_resume(u) ELSE u
    BY <1>4, Zenon DEF AfterFop
  <2> HIDE DEF u
  <2>3. u \in TxRec
    BY <2>1, Zenon DEF Kept
  <2>4. (v \in TxRec /\ Alike(u, v)) \/ (u.calls = {} /\ Onward(u, v))
    BY <1>1, <2>1, <2>2, <2>3, ResumeOnward, Zenon DEF AllReturned
  <2> QED
    BY <2>1, <2>4, Zenon
<1>5. PICK u : Kept(t, u) /\ ((v \in TxRec /\ Alike(u, v)) \/ (u.calls = {} /\ Onward(u, v)))
  <2>1. CASE v = AfterPreOp(r)
    <3>1. Kept(t, r) /\ ((v \in TxRec /\ Alike(r, v)) \/ (r.calls = {} /\ Onward(r, v)))
      BY <1>2, <2>1, Zenon
    <3> QED
      BY <3>1, Zenon
  <2>2. CASE v = AfterPostOp(r)
    <3>1. Kept(t, r) /\ ((v \in TxRec /\ Alike(r, v)) \/ (r.calls = {} /\ Onward(r, v)))
      BY <1>3, <2>2, Zenon
    <3> QED
      BY <3>1, Zenon
  <2>3. CASE v = AfterFop(r)
    BY <1>4, <2>3, Zenon
  <2> QED
    BY <2>1, <2>2, <2>3, Zenon
<1>6. v \in TxRec
  BY <1>5, Zenon DEF Onward
<1>7. Kept(t, u) /\ (Alike(u, v) \/ (u.calls = {} /\ Onward(u, v)))
  BY <1>5, Zenon
<1> QED
  BY <1>6, <1>7, Zenon

\* The replies to the pre-op, the fop and the post-op, good or bad.
LiveReply(cl, c, k) ==
  \/ PreOp(cl, c, k) \/ FopOk(cl, c, k) \/ PostOp(cl, c, k)
  \/ \E e \in Errnos : PreOpFails(cl, c, k, e) \/ FopFails(cl, c, k, e) \/ PostOpFails(cl, c, k, e)

\* They keep all of it.
LEMMA LiveReplyKeeps ==
  ASSUME Shape, NEW cl \in Clients, NEW c \in Children, NEW k \in 1 .. 2, LiveReply(cl, c, k)
  PROVE  Shape' /\ (LocksAccounted => LocksAccounted') /\ (Apart => Apart')
<1>1. /\ tx[cl].phase \in Live
      /\ UNCHANGED <<vol, child_up, badfd, locks>> /\ reconnects' = reconnects
  BY Zenon DEF LiveReply, PreOp, FopOk, PostOp, PreOpFails, FopFails, PostOpFails, Live, children, bounds
<1>2. tx[cl] # Nothing
  BY <1>1 DEF Live, Nothing
<1> DEFINE r == Returned(cl, c, k)
<1>3. Kept(tx[cl], r) /\ vol \in Setups
  BY <1>2, ReturnedIs, Zenon DEF Shape
<1>4. PICK w : /\ Kept(tx[cl], w)
               /\ Becomes(cl, AfterPreOp(w)) \/ Becomes(cl, AfterFop(w)) \/ Becomes(cl, AfterPostOp(w))
  <2>1. ASSUME NEW e \in Errnos PROVE Kept(tx[cl], Failed(r, c, e))
    BY <1>3, FailedIs, Zenon
  <2>2. /\ Kept(tx[cl], [r EXCEPT !.success = @ + 1])
        /\ \A e : Kept(tx[cl], afr_transaction_child_died(r, c, e))
    BY <1>3, AnsweredIs, Zenon
  <2>3. \/ Becomes(cl, AfterPreOp(r)) \/ Becomes(cl, AfterPostOp(r))
        \/ Becomes(cl, AfterFop([r EXCEPT !.success = @ + 1]))
        \/ \E e \in Errnos : \/ Becomes(cl, AfterPreOp(Failed(r, c, e)))
                             \/ Becomes(cl, AfterFop(afr_transaction_child_died(r, c, e)))
    BY Zenon DEF LiveReply, PreOp, FopOk, PostOp, PreOpFails, FopFails, PostOpFails
  <2> HIDE DEF r
  <2> QED
    BY <1>3, <2>1, <2>2, <2>3, Zenon
<1>5. PICK v : Becomes(cl, v) /\ (v = AfterPreOp(w) \/ v = AfterFop(w) \/ v = AfterPostOp(w))
  BY <1>4, Zenon
<1>6. v \in TxRec
  BY <1>3, <1>4, <1>5, AfterLive, Zenon
<1>7. PICK u : Kept(tx[cl], u) /\ (Alike(u, v) \/ (u.calls = {} /\ Onward(u, v)))
  BY <1>3, <1>4, <1>5, AfterLive, Zenon
<1> QED
  BY <1>1, <1>2, <1>5, <1>6, <1>7, LiveStep, ZenonT(30)
-----------------------------------------------------------------------------
(* The replies to the lock calls.  Transaction t waits for locks of child  *)
(* c0, r is t with the reply to lock k0, v what it becomes.                *)

\* The transaction of a reply to a lock call.
LockReply(t, r, c0, k0) ==
  /\ t \in TxRec /\ Fine(t) /\ t.phase = "lock" /\ <<c0, k0>> \in t.calls
  /\ Kept(t, r) /\ r.calls = t.calls \ {<<c0, k0>>}
  /\ r.errno = "ENOSYS" => c0 \in vol.no_locking

\* Transaction t holds lock l of child c once the reply is in.
Given(t, r, c, l, c0) ==
  \/ c \in t.locked
  \/ /\ c = c0
     /\ \E k \in DOMAIN t.op.locks : l.region = t.op.locks[k] /\ <<c, k>> \notin r.calls

LockOutcome(t, r, v, c0, k0) ==
  /\ v \in TxRec /\ v.op = t.op /\ v.up \subseteq r.up
  /\ v.phase # "done" => Fine(v)
  /\ \A c, l : IsOf(t, l) /\ c \notin vol.no_locking /\ Given(t, r, c, l, c0) =>
       v.phase # "done" /\ Owed(v, c, l)
  /\ afr_lock_server_count(t.op) = vol.n =>
       \A cl, c, k : Grant(cl, v, c, k) => Grant(cl, t, c, k) \/ (c = c0 /\ k = k0)

Asking(t, r, c0, k0) ==
  /\ t \in TxRec /\ t.phase = "lock" /\ afr_lock_server_count(t.op) # 0
  /\ c0 \in Children /\ k0 \in DOMAIN t.op.locks
  /\ \A call \in t.calls : call[1] = c0 /\ \E k \in DOMAIN t.op.locks : call = <<c0, k>>
  /\ \A c \in t.up : c \in t.locked \/ c0 <= c
  /\ \A c \in t.locked : c < c0
  /\ r \in TxRec /\ r.op = t.op /\ r.locked = t.locked /\ r.up \subseteq t.up
  /\ r.phase = "lock" /\ r.lost \subseteq r.calls
  /\ r.calls = t.calls \ {<<c0, k0>>}

\* All calls of the phase are to child c0, and lower children have been asked.
LEMMA LockReplyIs ==
  ASSUME NEW t, NEW r, NEW c0, NEW k0, LockReply(t, r, c0, k0)
  PROVE  Asking(t, r, c0, k0)
<1>1. /\ t \in TxRec /\ Fine(t) /\ t.phase = "lock" /\ <<c0, k0>> \in t.calls
      /\ Kept(t, r) /\ r.calls = t.calls \ {<<c0, k0>>}
  BY Zenon DEF LockReply
<1>2. PICK d \in Children : /\ t.calls \subseteq {d} \X DOMAIN t.op.locks
                            /\ \A c \in t.up : c \in t.locked \/ d <= c
                            /\ \A c \in t.locked : c < d
  BY <1>1, Zenon DEF Fine
<1>3. c0 = d /\ k0 \in DOMAIN t.op.locks
  BY <1>1, <1>2, Zenon
<1>4. \A call \in t.calls : call[1] = c0 /\ \E k \in DOMAIN t.op.locks : call = <<c0, k>>
  BY <1>2, <1>3
<1>5. afr_lock_server_count(t.op) # 0
  BY <1>1, Zenon DEF Fine
<1> QED
  BY <1>1, <1>2, <1>3, <1>4, <1>5, Zenon DEF Kept, Asking

\* Another reply is awaited.
LEMMA AfterLockWaits ==
  ASSUME NEW t, NEW r, NEW c0, NEW k0, LockReply(t, r, c0, k0), r.calls # {}
  PROVE  LockOutcome(t, r, r, c0, k0)
<1>0. Asking(t, r, c0, k0)
  BY LockReplyIs, Zenon
<1>1. /\ t \in TxRec /\ t.phase = "lock" /\ afr_lock_server_count(t.op) # 0
      /\ c0 \in Children /\ k0 \in DOMAIN t.op.locks
      /\ \A call \in t.calls : call[1] = c0 /\ \E k \in DOMAIN t.op.locks : call = <<c0, k>>
      /\ \A c \in t.up : c \in t.locked \/ c0 <= c
      /\ \A c \in t.locked : c < c0
      /\ r \in TxRec /\ r.op = t.op /\ r.locked = t.locked /\ r.up \subseteq t.up
      /\ r.phase = "lock" /\ r.lost \subseteq r.calls
      /\ r.calls = t.calls \ {<<c0, k0>>}
  BY <1>0, Zenon DEF Asking
<1>2. r.calls \subseteq {c0} \X DOMAIN r.op.locks /\ "lock" \in Phases
  <2>1. \A call \in r.calls : \E k \in DOMAIN r.op.locks : call = <<c0, k>>
    BY <1>1, Zenon
  <2> QED
    BY <2>1 DEF Phases
<1>3. Fine(r)
  <2>1. /\ r.calls # {} /\ r.calls \subseteq {c0} \X DOMAIN r.op.locks
        /\ r.errno = "ENOSYS" => c0 \in vol.no_locking
        /\ \A c \in r.up : c \in r.locked \/ c0 <= c
        /\ \A c \in r.locked : c < c0
    BY <1>1, <1>2, Zenon DEF LockReply
  <2>2. r.phase \in Phases /\ r.lost \subseteq r.calls /\ afr_lock_server_count(r.op) # 0
    BY <1>1, <1>2, Zenon
  <2> QED
    BY <1>1, <2>1, <2>2, Zenon DEF Fine
<1>4. ASSUME NEW c, NEW l, IsOf(t, l), Given(t, r, c, l, c0)
      PROVE  r.phase # "done" /\ Owed(r, c, l)
  <2>0. \A call \in r.calls : call[1] = c0
    BY <1>1, Zenon
  <2>1. IsOf(r, l) /\ (c \in r.locked \/ Partly(r, c, l))
    BY <1>1, <1>4, <2>0, Zenon DEF IsOf, Given, Partly
  <2>2. r.phase # "done" /\ r.phase # "unlock" /\ r.phase \notin {"preop", "fop", "postop"}
    BY <1>1, Zenon
  <2> QED
    BY <2>1, <2>2, Zenon DEF Owed
<1>5. ASSUME NEW cl, NEW c, NEW k, Grant(cl, r, c, k)
      PROVE  Grant(cl, t, c, k) \/ (c = c0 /\ k = k0)
  <2>1. /\ c \in t.up \cap child_up[cl] /\ k \in DOMAIN t.op.locks
        /\ \/ c \in t.locked
           \/ <<c, k>> \notin r.calls /\ \A call \in r.calls : call[1] = c
    <3>1. r.phase \notin {"preop", "fop", "postop"}
      BY <1>1, Zenon
    <3> QED
      BY <1>1, <1>5, <3>1, Zenon DEF Grant
  <2>2. CASE c \in t.locked
    BY <1>1, <2>1, <2>2, Zenon DEF Grant
  <2>3. CASE <<c, k>> \notin r.calls /\ \A call \in r.calls : call[1] = c
    <3>1. c = c0
      BY <1>1, <2>3, Zenon
    <3>2. <<c, k>> \notin t.calls \/ k = k0
      BY <1>1, <2>3, <3>1, Zenon
    <3>3. \A call \in t.calls : call[1] = c
      BY <1>1, <3>1, Zenon
    <3> QED
      BY <1>1, <2>1, <3>1, <3>2, <3>3, Zenon DEF Grant
  <2> QED
    BY <2>1, <2>2, <2>3, Zenon
<1> QED
  BY <1>1, <1>3, <1>4, <1>5, Zenon DEF LockOutcome

\* ENOSYS was the last answer: the locks taken so far are given back.
LEMMA AfterLockGivesUp ==
  ASSUME vol \in Setups, NEW t, NEW r, NEW c0, NEW k0, LockReply(t, r, c0, k0), r.calls = {},
         r.errno = "ENOSYS"
  PROVE  LockOutcome(t, r, afr_unlock(r), c0, k0)
<1>0. Asking(t, r, c0, k0)
  BY LockReplyIs, Zenon
<1>1. /\ r \in TxRec /\ r.op = t.op /\ r.locked = t.locked
      /\ r.lost \subseteq r.calls /\ afr_lock_server_count(r.op) # 0
  BY <1>0, Zenon DEF Asking
<1> DEFINE v == afr_unlock(r)
<1>2. Onward(r, v) /\ v.phase \notin Live
  BY <1>1, UnlockOnward, Zenon
<1> HIDE DEF v
<1>3. r.lost = {} /\ WantsLocks(r)
  BY <1>1, Zenon DEF WantsLocks
<1>4. /\ v.phase # "done" => Fine(v)
      /\ v.phase # "lock"
      /\ \A c \in r.locked : \A l : IsOf(r, l) => v.phase # "done" /\ Owed(v, c, l)
  BY <1>1, <1>2, <1>3, OnwardFine, Zenon
<1>5. v \in TxRec /\ v.op = t.op /\ v.up = r.up
  BY <1>1, <1>2, Zenon DEF Onward, SameTx
<1>6. c0 \in vol.no_locking
  BY Zenon DEF LockReply
<1>7. \A l : IsOf(t, l) <=> IsOf(r, l)
  BY <1>1, Zenon DEF IsOf
<1>8. \A c, l : IsOf(t, l) /\ c \notin vol.no_locking /\ Given(t, r, c, l, c0) =>
        v.phase # "done" /\ Owed(v, c, l)
  BY <1>1, <1>4, <1>6, <1>7, Zenon DEF Given
<1>9. \A cl, c, k : ~ Grant(cl, v, c, k)
  BY <1>2, <1>4, Zenon DEF Grant, Live
<1>10. LockOutcome(t, r, v, c0, k0)
  BY <1>4, <1>5, <1>8, <1>9, Zenon DEF LockOutcome
<1> QED
  BY <1>10, Zenon DEF v

\* A set of as many children as there are is all of them.
LEMMA AllChildren ==
  ASSUME vol \in Setups, NEW S \in SUBSET Children, Cardinality(S) = vol.n
  PROVE  S = Children
<1>1. vol.n \in Nat
  BY AfrAssumption, Zenon
<1>2. IsFiniteSet(Children) /\ Cardinality(Children) = vol.n
  <2> DEFINE n == vol.n
  <2>1. n \in Int /\ 1 \in Int /\ (IF 1 > n THEN 0 ELSE n - 1 + 1) = n
    BY <1>1
  <2> HIDE DEF n
  <2>2. IsFiniteSet(1 .. n) /\ Cardinality(1 .. n) = IF 1 > n THEN 0 ELSE n - 1 + 1
    BY <2>1, FS_Interval, Zenon
  <2> QED
    BY <2>1, <2>2, Zenon DEF Children, n
<1> QED
  BY <1>2, FS_Subset, Zenon

\* The lock is counted, whatever the answer was, and the next child is asked, or the
\* operation goes on.
LEMMA AfterLockNext ==
  ASSUME vol \in Setups, NEW t, NEW r, NEW c0, NEW k0, LockReply(t, r, c0, k0), r.calls = {},
         r.errno # "ENOSYS", NEW first, NEW q, q = [r EXCEPT !.locked = @ \cup {c0}]
  PROVE  LockOutcome(t, r, afr_lock_rec(q, c0 + 1, first), c0, k0)
<1>0. Asking(t, r, c0, k0)
  BY LockReplyIs, Zenon
<1>1. /\ t \in TxRec /\ t.phase = "lock" /\ afr_lock_server_count(t.op) # 0
      /\ c0 \in Children /\ k0 \in DOMAIN t.op.locks
      /\ \A call \in t.calls : call[1] = c0
      /\ \A c \in t.up : c \in t.locked \/ c0 <= c
      /\ \A c \in t.locked : c < c0
      /\ r \in TxRec /\ r.op = t.op /\ r.locked = t.locked /\ r.up \subseteq t.up
      /\ r.phase = "lock" /\ r.lost \subseteq r.calls
      /\ r.calls = t.calls \ {<<c0, k0>>}
  BY <1>0, Zenon DEF Asking
<1>2. /\ q \in TxRec /\ q.op = t.op /\ q.up = r.up /\ q.locked = t.locked \cup {c0} /\ q.lost = {}
      /\ q.errno = r.errno
  <2> DEFINE L == r.locked \cup {c0}
  <2>1. L \in SUBSET Children
    BY <1>1, Zenon DEF TxRec
  <2>2. q = [r EXCEPT !.locked = L]
    BY <1>1, Zenon DEF TxRec
  <2> HIDE DEF L
  <2>3. /\ q \in TxRec /\ q.op = r.op /\ q.up = r.up /\ q.locked = L /\ q.lost = r.lost
        /\ q.errno = r.errno
    BY <1>1, <2>1, <2>2, ZenonT(30) DEF TxRec
  <2>4. r.lost = {}
    BY <1>1, Zenon
  <2> QED
    BY <1>1, <2>3, <2>4, Zenon DEF L
<1> DEFINE v == afr_lock_rec(q, c0 + 1, first)
<1>3. /\ c0 \in Nat /\ c0 + 1 \in Int /\ \A c \in Children : c \in Nat
      /\ q.up \subseteq Children /\ q.op \in vol.ops
  BY <1>1, <1>2, SMTT(30) DEF Children, TxRec
<1>4. AsksNext(q, v, c0 + 1) \/ HasLocks(q, v, c0 + 1)
  BY <1>2, <1>3, LockRecIs, Zenon
<1> HIDE DEF v
<1>5. WantsLocks(q)
  BY <1>1, <1>2, Zenon DEF WantsLocks
<1>6. v \in TxRec /\ v.op = t.op /\ v.up = r.up /\ v.locked = t.locked \cup {c0} /\ v.lost = {}
      /\ v.errno = r.errno
  <2>1. v \in TxRec /\ SameTx(q, v)
    BY <1>4, Zenon DEF AsksNext, HasLocks, Onward
  <2> QED
    BY <1>2, <2>1, Zenon DEF SameTx
<1>7. \A l : (IsOf(t, l) <=> IsOf(q, l)) /\ (IsOf(t, l) <=> IsOf(v, l))
  BY <1>2, <1>6, Zenon DEF IsOf
<1>8. ASSUME NEW cl, NEW c, NEW k, c \in t.up \cap child_up[cl], k \in DOMAIN t.op.locks,
             c = c0 \/ c \in t.locked
      PROVE  Grant(cl, t, c, k) \/ (c = c0 /\ k = k0)
  <2>1. CASE c \in t.locked
    BY <1>1, <1>8, <2>1, Zenon DEF Grant
  <2>2. CASE c = c0 /\ k # k0
    <3>1. <<c, k>> \notin t.calls
      BY <1>1, <2>2
    <3>2. \A call \in t.calls : call[1] = c
      BY <1>1, <2>2, Zenon
    <3> QED
      BY <1>1, <1>8, <3>1, <3>2, Zenon DEF Grant
  <2> QED
    BY <1>8, <2>1, <2>2, Zenon
<1>9. CASE AsksNext(q, v, c0 + 1)
  <2>1. PICK d \in q.up : /\ d >= c0 + 1 /\ \A c \in q.up : c >= c0 + 1 => d <= c
                          /\ v.calls = {d} \X DOMAIN q.op.locks
    BY <1>9, Zenon DEF AsksNext
  <2>2. v.phase = "lock"
    BY <1>9, Zenon DEF AsksNext
  <2>3. 1 \in DOMAIN q.op.locks
    BY <1>3, LocksOfOp, Zenon
  <2>4. Fine(v)
    <3>1. v.calls # {} /\ v.calls \subseteq {d} \X DOMAIN v.op.locks /\ d \in Children
      <4>1. v.op = q.op /\ d \in Children
        BY <1>2, <1>3, <1>6, <2>1, Zenon
      <4>2. <<d, 1>> \in v.calls
        BY <2>1, <2>3, Zenon
      <4> QED
        BY <2>1, <4>1, <4>2, Zenon
    <3>2. \A c \in v.up : c \in v.locked \/ d <= c
      <4> SUFFICES ASSUME NEW c \in v.up, c # c0, c \notin t.locked PROVE d <= c
        BY <1>6, Zenon
      <4>1. c0 <= c /\ c \in q.up /\ c \in Nat
        BY <1>1, <1>2, <1>3, <1>6, Zenon
      <4>2. c >= c0 + 1
        BY <1>3, <4>1
      <4> QED
        BY <2>1, <4>1, <4>2, Zenon
    <3>3. "lock" \in Phases /\ v.lost \subseteq v.calls
      BY <1>6, Zenon DEF Phases
    <3>4. \A c \in v.locked : c < d
      <4> SUFFICES ASSUME NEW c \in v.locked PROVE c < d
        OBVIOUS
      <4>1. c \in Children /\ d \in Children
        BY <1>3, <1>6, <2>1, Zenon DEF TxRec
      <4>2. c \in Nat /\ d \in Nat /\ (c = c0 \/ c < c0)
        BY <1>1, <1>3, <1>6, <4>1, Zenon
      <4> QED
        BY <1>3, <2>1, <4>2
    <3> QED
      BY <1>1, <1>6, <2>2, <3>1, <3>2, <3>3, <3>4, Zenon DEF Fine
  <2>5. ASSUME NEW c, NEW l, IsOf(t, l), Given(t, r, c, l, c0)
        PROVE  v.phase # "done" /\ Owed(v, c, l)
    <3>1. v.phase # "done" /\ v.phase # "unlock" /\ v.phase \notin {"preop", "fop", "postop"}
      BY <2>2, Zenon
    <3>2. c \in v.locked
      BY <1>6, <2>5, Zenon DEF Given
    <3> QED
      BY <1>7, <2>5, <3>1, <3>2, Zenon DEF Owed
  <2>6. ASSUME NEW cl, NEW c, NEW k, Grant(cl, v, c, k)
        PROVE  Grant(cl, t, c, k) \/ (c = c0 /\ k = k0)
    <3>1. /\ c \in t.up \cap child_up[cl] /\ k \in DOMAIN t.op.locks
          /\ \/ c \in v.locked
             \/ <<c, k>> \notin v.calls /\ \A call \in v.calls : call[1] = c
      <4>1. v.phase \notin {"preop", "fop", "postop"}
        BY <2>2, Zenon
      <4> QED
        BY <1>1, <1>6, <2>6, <4>1, Zenon DEF Grant
    <3>2. CASE c \in v.locked
      BY <1>6, <1>8, <3>1, <3>2, Zenon
    <3>3. CASE <<c, k>> \notin v.calls /\ \A call \in v.calls : call[1] = c
      <4>1. <<d, 1>> \in v.calls
        BY <2>1, <2>3, Zenon
      <4>2. c = d
        BY <3>3, <4>1, Zenon
      <4> QED
        BY <1>2, <2>1, <3>1, <3>3, <4>2, Zenon
    <3> QED
      BY <3>1, <3>2, <3>3, Zenon
  <2>7. v.up \subseteq r.up
    BY <1>6, Zenon
  <2> QED
    BY <1>6, <2>4, <2>5, <2>6, <2>7, Zenon DEF LockOutcome, v
<1>10. CASE HasLocks(q, v, c0 + 1)
  <2>1. Onward(q, v)
    BY <1>10, Zenon DEF HasLocks
  <2>2. /\ v.phase # "done" => Fine(v)
        /\ v.phase # "lock"
        /\ \A c \in q.locked : \A l : IsOf(q, l) => v.phase # "done" /\ Owed(v, c, l)
    BY <1>2, <1>5, <2>1, OnwardFine, Zenon
  <2>3. ASSUME NEW c, NEW l, IsOf(t, l), Given(t, r, c, l, c0)
        PROVE  v.phase # "done" /\ Owed(v, c, l)
    <3>1. c \in q.locked
      BY <1>2, <2>3, Zenon DEF Given
    <3> QED
      BY <1>7, <2>2, <2>3, <3>1, Zenon
  <2>4. ASSUME afr_lock_server_count(t.op) = vol.n, NEW cl, NEW c, NEW k, Grant(cl, v, c, k)
        PROVE  Grant(cl, t, c, k) \/ (c = c0 /\ k = k0)
    <3>1. /\ c \in t.up \cap child_up[cl] /\ c \in q.up /\ k \in DOMAIN t.op.locks
          /\ v.phase \in Live
      BY <1>1, <1>2, <1>6, <2>2, <2>4, Zenon DEF Grant, Live
    <3>2. \/ \A x \in q.up : x < c0 + 1
          \/ Cardinality(q.locked) = vol.n
      BY <1>2, <1>10, <2>4, <3>1, Zenon DEF HasLocks
    <3>3. c = c0 \/ c \in t.locked
      <4>1. CASE \A x \in q.up : x < c0 + 1
        <5>1. c < c0 + 1 /\ c \in Nat /\ (c \in t.locked \/ c0 <= c)
          BY <1>1, <1>3, <3>1, <4>1, Zenon
        <5> QED
          BY <1>3, <5>1
      <4>2. CASE Cardinality(q.locked) = vol.n
        <5>1. q.locked \in SUBSET Children
          BY <1>2, Zenon DEF TxRec
        <5>2. q.locked = Children
          BY <4>2, <5>1, AllChildren, Zenon
        <5>3. c \in Children
          BY <1>3, <3>1, Zenon
        <5> QED
          BY <1>2, <5>2, <5>3, Zenon
      <4> QED
        BY <3>2, <4>1, <4>2, Zenon
    <3> QED
      BY <1>8, <3>1, <3>3, Zenon
  <2>5. v.up \subseteq r.up
    BY <1>6, Zenon
  <2> QED
    BY <1>6, <2>2, <2>3, <2>4, <2>5, Zenon DEF LockOutcome, v
<1> QED
  BY <1>4, <1>9, <1>10, Zenon

\* Where several clients run, every child locks, and an operation locks what it
\* changes.
Guarded ==
  \A s \in Setups :
    \/ Cardinality(s.clients) = 1
    \/ /\ \A m \in Modes : s.lock_servers[m] = s.n
       /\ \A op \in s.ops : op.cells \subseteq UNION {op.locks[k] : k \in DOMAIN op.locks}

\* Then the operations ask every child for their locks.
LEMMA GuardedLocks ==
  ASSUME Guarded, vol \in Setups, Several, NEW op \in vol.ops
  PROVE  /\ afr_lock_server_count(op) = vol.n /\ vol.n # 0
         /\ op.cells \subseteq UNION {op.locks[k] : k \in DOMAIN op.locks}
<1>1. /\ \A m \in Modes : vol.lock_servers[m] = vol.n
      /\ op.cells \subseteq UNION {op.locks[k] : k \in DOMAIN op.locks}
  BY Zenon DEF Guarded, Several
<1>2. op.type \in Modes \cup {"FLUSH", "RENAME"} /\ vol.n \in Nat \ {0}
  BY AfrAssumption, Zenon
<1>3. Mode(op) \in Modes
  BY <1>2, Zenon DEF Mode, Modes
<1>4. afr_lock_server_count(op) = vol.n
  BY <1>1, <1>3, Zenon DEF afr_lock_server_count
<1>5. vol.n # 0
  BY <1>2, Zenon
<1> QED
  BY <1>1, <1>4, <1>5, Zenon

\* Whatever a child answers to a lock call.
LEMMA LockStep ==
  ASSUME Shape, NEW cl \in Clients, NEW c0 \in Children, NEW k0 \in 1 .. 2, tx[cl] # Nothing,
         NEW r, LockReply(tx[cl], r, c0, k0), Becomes(cl, AfterLock(cl, r, c0)),
         UNCHANGED <<vol, child_up, badfd>>, reconnects' = reconnects,
         NEW new \in SUBSET LockRec, locks' = [locks EXCEPT ![c0] = locks[c0] \cup new],
         \A l \in new : /\ l.client = cl /\ l.region = tx[cl].op.locks[k0]
                        /\ Served(cl, tx[cl], c0),
         \/ c0 \notin r.up
         \/ Free(c0, tx[cl].op.locks[k0]) /\ \E l \in new : ~ l.stale
  PROVE  Shape' /\ (LocksAccounted => LocksAccounted') /\ (Guarded /\ Apart => Apart')
<1> DEFINE t == tx[cl]  v == AfterLock(cl, r, c0)
<1>1. vol \in Setups /\ cl \in vol.clients /\ t \in TxRec /\ t.op \in vol.ops
  BY Zenon DEF Shape, TxRec
<1>2. LockOutcome(t, r, v, c0, k0)
  <2>1. CASE r.calls # {}
    <3>1. v = r
      BY <2>1, Zenon DEF AfterLock, AllReturned
    <3> QED
      BY <2>1, <3>1, AfterLockWaits, Zenon
  <2>2. CASE r.calls = {} /\ r.errno = "ENOSYS"
    <3>1. v = afr_unlock(r)
      BY <2>2, Zenon DEF AfterLock, AllReturned
    <3> QED
      BY <1>1, <2>2, <3>1, AfterLockGivesUp, Zenon
  <2>3. CASE r.calls = {} /\ r.errno # "ENOSYS"
    <3> DEFINE q == [r EXCEPT !.locked = @ \cup {c0}]
    <3>1. v = afr_lock_rec(q, c0 + 1, First(cl))
      BY <2>3, Zenon DEF AfterLock, AllReturned
    <3> QED
      <4> HIDE DEF v
      <4>1. q = [r EXCEPT !.locked = @ \cup {c0}]
        OBVIOUS
      <4> HIDE DEF q
      <4>2. LockOutcome(t, r, afr_lock_rec(q, c0 + 1, First(cl)), c0, k0)
        BY <1>1, <2>3, <4>1, AfterLockNext, Zenon
      <4> QED
        BY <3>1, <4>2, Zenon
  <2> QED
    BY <2>1, <2>2, <2>3, Zenon
<1>3. Asking(t, r, c0, k0)
  BY LockReplyIs, Zenon
<1>4. Becomes(cl, v) /\ LockReply(t, r, c0, k0)
  OBVIOUS
<1> HIDE DEF v
<1>5. /\ v \in TxRec /\ v.op = t.op /\ v.up \subseteq r.up
      /\ v.phase # "done" => Fine(v)
      /\ \A c, l : IsOf(t, l) /\ c \notin vol.no_locking /\ Given(t, r, c, l, c0) =>
           v.phase # "done" /\ Owed(v, c, l)
  BY <1>2, Zenon DEF LockOutcome
<1>6. /\ \A c \in Children : c # c0 => locks'[c] = locks[c]
      /\ locks'[c0] = locks[c0] \cup new
      /\ locks' \in [Children -> SUBSET LockRec]
  BY Zenon DEF Shape
<1>7. Shape'
  BY <1>1, <1>4, <1>5, <1>6, ShapeMove, Zenon
<1>8. ASSUME LocksAccounted PROVE LocksAccounted'
  <2>1. ASSUME NEW c \in Children, NEW l \in locks'[c], ~ l.stale
        PROVE  \/ l.client # cl /\ l \in locks[c]
               \/ l.client = cl /\ v.phase # "done" /\ Served(cl, v, c) /\ Owed(v, c, l)
    <3>1. l \in locks[c] \/ (c = c0 /\ l \in new)
      BY <1>6, <2>1, Zenon
    <3>2. CASE l \in locks[c] /\ l.client # cl
      BY <3>2, Zenon
    <3>3. CASE l \in locks[c] /\ l.client = cl
      <4>1. Served(cl, t, c) /\ Owed(t, c, l)
        BY <1>8, <2>1, <3>3, Zenon DEF LocksAccounted
      <4>2. IsOf(t, l) /\ c \notin vol.no_locking
        BY <4>1, Zenon DEF Served, Owed
      <4>3. Given(t, r, c, l, c0)
        <5>1. t.phase = "lock" /\ <<c0, k0>> \in t.calls /\ r.calls \subseteq t.calls
          BY <1>4, Zenon DEF LockReply
        <5>2. c \in t.locked \/ Partly(t, c, l)
          BY <4>1, <5>1, Zenon DEF Owed
        <5>3. Partly(t, c, l) => c = c0
          <6> HIDE DEF t
          <6> QED
            BY <5>1, Zenon DEF Partly
        <5> QED
          BY <5>1, <5>2, <5>3, Zenon DEF Given, Partly
      <4>4. Served(cl, v, c)
        BY <1>5, <4>1, Zenon DEF Served
      <4> QED
        BY <1>5, <3>3, <4>2, <4>3, <4>4, Zenon
    <3>4. CASE c = c0 /\ l \in new
      <4>1. l.client = cl /\ l.region = t.op.locks[k0] /\ Served(cl, t, c0)
        BY <3>4, Zenon
      <4>2. IsOf(t, l) /\ c \notin vol.no_locking
        BY <1>3, <3>4, <4>1, Zenon DEF IsOf, Asking, Served
      <4>3. Served(cl, v, c)
        BY <1>5, <3>4, <4>1, Zenon DEF Served
      <4>4. Given(t, r, c, l, c0)
        <5>1. k0 \in DOMAIN t.op.locks /\ <<c0, k0>> \notin r.calls
          BY <1>3, Zenon DEF Asking
        <5> QED
          BY <3>4, <4>1, <5>1, Zenon DEF Given
      <4> QED
        BY <1>5, <3>4, <4>1, <4>2, <4>3, <4>4, Zenon
    <3> QED
      BY <3>1, <3>2, <3>3, <3>4, Zenon
  <2> QED
    BY <1>4, <1>5, <1>6, <1>8, <2>1, AccountMove, Zenon
<1>9. ASSUME Guarded, Apart PROVE Apart'
  <2>1. \A c \in Children : \A l \in locks[c] : l \in locks'[c]
    BY <1>6, Zenon
  <2>2. ASSUME Several, v.phase # "done", NEW c \in Children, NEW k \in 1 .. 2, Grant(cl, v, c, k)
        PROVE  /\ HeldNext(cl, c, v.op.locks[k])
               /\ \A n \in Clients, j \in 1 .. 2 : n # cl /\ Granted(n, c, j) =>
                    v.op.locks[k] \cap tx[n].op.locks[j] = {}
    <3>1. Grant(cl, t, c, k) \/ (c = c0 /\ k = k0)
      BY <1>1, <1>2, <1>9, <2>2, GuardedLocks, Zenon DEF LockOutcome
    <3>2. CASE Grant(cl, t, c, k)
      <4>1. Granted(cl, c, k)
        BY <3>2, Zenon DEF Granted
      <4>2. Held(cl, c, t.op.locks[k])
        BY <1>9, <2>2, <4>1, Zenon DEF Apart
      <4>3. HeldNext(cl, c, t.op.locks[k])
        BY <2>1, <4>2, Zenon DEF Held, HeldNext
      <4>4. \A n \in Clients, j \in 1 .. 2 : n # cl /\ Granted(n, c, j) =>
              t.op.locks[k] \cap tx[n].op.locks[j] = {}
        BY <1>9, <2>2, <4>1, Zenon DEF Apart
      <4> QED
        BY <1>5, <4>3, <4>4, Zenon
    <3>3. CASE c = c0 /\ k = k0
      <4>1. c0 \in r.up
        BY <1>5, <2>2, <3>3, Zenon DEF Grant
      <4>2. Free(c0, t.op.locks[k0])
        BY <4>1, Zenon
      <4>3. PICK l \in new : ~ l.stale
        BY <4>1, Zenon
      <4>4. l \in locks'[c0] /\ l.client = cl /\ l.region = t.op.locks[k0]
        BY <1>6, <4>3, Zenon
      <4>5. HeldNext(cl, c0, t.op.locks[k0])
        BY <4>3, <4>4, Zenon DEF HeldNext
      <4>6. ASSUME NEW n \in Clients, NEW j \in 1 .. 2, n # cl, Granted(n, c0, j)
            PROVE  t.op.locks[k0] \cap tx[n].op.locks[j] = {}
        <5>1. Held(n, c0, tx[n].op.locks[j])
          BY <1>9, <2>2, <4>6, Zenon DEF Apart
        <5>2. PICK m \in locks[c0] : m.region = tx[n].op.locks[j]
          BY <5>1, Zenon DEF Held
        <5>3. m.region \cap t.op.locks[k0] = {}
          BY <4>2, Zenon DEF Free
        <5> QED
          BY <5>2, <5>3, Zenon
      <4> QED
        BY <1>5, <3>3, <4>5, <4>6, Zenon
    <3> QED
      BY <3>1, <3>2, <3>3, Zenon
  <2>3. GrantsHeld(cl, v)
    BY <2>2, Zenon DEF GrantsHeld
  <2> QED
    BY <1>4, <1>5, <1>9, <2>1, <2>3, ApartMove, Zenon
<1> QED
  BY <1>7, <1>8, <1>9, Zenon

\* The calls of a transaction: who asked, and for what.
LEMMA PendingIs ==
  ASSUME Shape, NEW cl \in Clients, NEW c, NEW k, Pending(cl, c, k)
  PROVE  /\ tx[cl] # Nothing /\ tx[cl] \in TxRec /\ Fine(tx[cl]) /\ cl \in vol.clients
         /\ <<c, k>> \in tx[cl].calls
<1>1. tx[cl] # Nothing
  BY DEF Pending, Nothing
<1> QED
  BY <1>1, Zenon DEF Shape, Pending

\* Who answers ENOSYS does not lock; a child that executes a lock call does.
LEMMA WhoLocks ==
  ASSUME NEW cl, NEW c, NEW k, tx[cl].phase = "lock"
  PROVE  /\ Fails(cl, c, k, "ENOSYS") => c \in vol.no_locking
         /\ Reaches(cl, c, k) => Served(cl, tx[cl], c)
<1>1. Unsupported(c, tx[cl].phase) = IF c \in vol.no_locking THEN "ENOSYS" ELSE "none"
  BY Zenon DEF Unsupported
<1>2. Fails(cl, c, k, "ENOSYS") => c \in vol.no_locking
  BY <1>1, Zenon DEF Fails, NeverOpened
<1>3. Reaches(cl, c, k) => Served(cl, tx[cl], c)
  BY <1>1, Zenon DEF Reaches, Served, Disconnected, BadFd
<1> QED
  BY <1>2, <1>3, Zenon

\* afr_lock_cbk: the lock is granted, conflicts, or fails.
LEMMA LockReplyKeeps ==
  ASSUME Shape, NEW cl \in Clients, NEW c \in Children, NEW k \in 1 .. 2,
         \/ LockGranted(cl, c, k) \/ LockConflicts(cl, c, k)
         \/ \E e \in Errnos : LockFails(cl, c, k, e)
  PROVE  Shape' /\ (LocksAccounted => LocksAccounted') /\ (Guarded /\ Apart => Apart')
<1> DEFINE t == tx[cl]  r == Returned(cl, c, k)
           new == {[client |-> cl, region |-> t.op.locks[k], inode |-> InodeLock(t.op),
                    stale |-> FALSE]}
<1>1. /\ Pending(cl, c, k) /\ t.phase = "lock"
      /\ UNCHANGED <<vol, child_up, badfd>> /\ reconnects' = reconnects
  BY Zenon DEF LockGranted, LockConflicts, LockFails, bounds
<1>2. /\ t # Nothing /\ t \in TxRec /\ Fine(t) /\ cl \in vol.clients /\ <<c, k>> \in t.calls
  BY <1>1, PendingIs, Zenon
<1>3. /\ Kept(t, r) /\ r.calls = t.calls \ {<<c, k>>} /\ r.errno = t.errno /\ r.up = t.up
  <2>1. Kept(t, r) /\ TakenOff(t, r, c, k)
    BY <1>2, ReturnedIs, Zenon
  <2> HIDE DEF t, r
  <2> QED
    BY <2>1, Zenon DEF TakenOff
<1>4. \A call \in t.calls : call[1] = c /\ call[2] \in DOMAIN t.op.locks
  <2>1. PICK d : t.calls \subseteq {d} \X DOMAIN t.op.locks
    BY <1>1, <1>2, Zenon DEF Fine
  <2> HIDE DEF t
  <2> QED
    BY <1>2, <2>1, Zenon
<1>5. t.errno = "ENOSYS" => c \in vol.no_locking
  <2>1. PICK d : t.calls \subseteq {d} \X DOMAIN t.op.locks /\ (t.errno = "ENOSYS" => d \in vol.no_locking)
    BY <1>1, <1>2, Zenon DEF Fine
  <2>2. d = c
    <3> HIDE DEF t
    <3> QED
      BY <1>2, <2>1, Zenon
  <2> QED
    BY <2>1, <2>2, Zenon
<1>6. new \in SUBSET LockRec /\ t.op \in vol.ops
  <2>1. t.op \in vol.ops /\ k \in DOMAIN t.op.locks
    <3>1. t.op \in vol.ops
      BY <1>2, Zenon DEF TxRec
    <3>2. <<c, k>>[2] = k
      OBVIOUS
    <3> QED
      BY <1>2, <1>4, <3>1, <3>2, Zenon
  <2> HIDE DEF t
  <2>2. t.op.locks[k] \in UNION {{op.locks[i] : i \in DOMAIN op.locks} : op \in vol.ops}
    <3>1. t.op.locks[k] \in {t.op.locks[i] : i \in DOMAIN t.op.locks}
      BY <2>1, Zenon
    <3>2. {t.op.locks[i] : i \in DOMAIN t.op.locks} \in {{op.locks[i] : i \in DOMAIN op.locks} : op \in vol.ops}
      BY <2>1, Zenon
    <3> QED
      BY <3>1, <3>2, Zenon
  <2>3. InodeLock(t.op) \in BOOLEAN
    BY DEF InodeLock
  <2> QED
    BY <2>1, <2>2, <2>3 DEF LockRec
<1>7. CASE LockGranted(cl, c, k)
  <2>1. /\ Reaches(cl, c, k) /\ Free(c, t.op.locks[k])
        /\ Becomes(cl, AfterLock(cl, r, c))
        /\ locks' = [locks EXCEPT ![c] = locks[c] \cup new]
    BY <1>7, Zenon DEF LockGranted, LockCbk, AddLock
  <2>2. LockReply(t, r, c, k)
    BY <1>1, <1>2, <1>3, <1>5, Zenon DEF LockReply
  <2>3. Served(cl, t, c)
    BY <1>1, <2>1, WhoLocks, Zenon
  <2>4. \A l \in new : /\ l.client = cl /\ l.region = t.op.locks[k] /\ ~ l.stale
                       /\ Served(cl, t, c)
    BY <2>3
  <2>5. \E l \in new : ~ l.stale
    BY <2>4, Zenon
  <2> HIDE DEF new
  <2> QED
    BY <1>1, <1>2, <1>6, <2>1, <2>2, <2>4, <2>5, LockStep, Zenon
<1>8. CASE LockConflicts(cl, c, k)
  <2> DEFINE f == Failed(r, c, "0")
  <2>1. /\ Reaches(cl, c, k)
        /\ Becomes(cl, AfterLock(cl, f, c))
        /\ locks' = [locks EXCEPT ![c] = locks[c] \cup new]
    BY <1>8, Zenon DEF LockConflicts, LockCbk, AddLock
  <2>a. Kept(t, f) /\ Marked(r, f, c, "0")
    BY <1>3, FailedIs, Zenon
  <2> HIDE DEF f
  <2>2. Kept(t, f) /\ f.calls = r.calls /\ f.errno = "0" /\ f.up = r.up \ {c}
    BY <2>a, Zenon DEF Marked
  <2>3. c \notin f.up /\ f.errno # "ENOSYS"
    BY <2>2, Zenon
  <2>4. LockReply(t, f, c, k)
    BY <1>1, <1>2, <1>3, <2>2, <2>3, Zenon DEF LockReply
  <2>5. Served(cl, t, c)
    BY <1>1, <2>1, WhoLocks, Zenon
  <2>6. \A l \in new : /\ l.client = cl /\ l.region = t.op.locks[k]
                       /\ Served(cl, t, c)
    BY <2>5
  <2> HIDE DEF new
  <2> QED
    BY <1>1, <1>2, <1>6, <2>1, <2>3, <2>4, <2>6, LockStep, Zenon
<1>9. ASSUME NEW e \in Errnos, LockFails(cl, c, k, e)
      PROVE  Shape' /\ (LocksAccounted => LocksAccounted') /\ (Guarded /\ Apart => Apart')
  <2> DEFINE f == Failed(r, c, e)
  <2>1. /\ Fails(cl, c, k, e) /\ Becomes(cl, AfterLock(cl, f, c)) /\ locks' = locks
    BY <1>9, Zenon DEF LockFails, LockCbk, children
  <2>a. Kept(t, f) /\ Marked(r, f, c, e)
    BY <1>3, FailedIs, Zenon
  <2> HIDE DEF f
  <2>2. Kept(t, f) /\ f.calls = r.calls /\ f.errno = e /\ f.up = r.up \ {c}
    BY <2>a, Zenon DEF Marked
  <2>3. c \notin f.up
    BY <2>2, Zenon
  <2>4. f.errno = "ENOSYS" => c \in vol.no_locking
    BY <1>1, <2>1, <2>2, WhoLocks, Zenon
  <2>5. LockReply(t, f, c, k)
    BY <1>1, <1>2, <1>3, <2>2, <2>4, Zenon DEF LockReply
  <2> DEFINE none == {}
  <2>6. /\ none \in SUBSET LockRec /\ locks' = [locks EXCEPT ![c] = locks[c] \cup none]
        /\ \A l \in none : l.client = cl /\ l.region = t.op.locks[k] /\ Served(cl, t, c)
    BY <2>1, Zenon DEF Shape
  <2> HIDE DEF none
  <2>7. Becomes(cl, AfterLock(cl, f, c))
    BY <2>1, Zenon
  <2> QED
    BY <1>1, <1>2, <2>3, <2>5, <2>6, <2>7, LockStep, Zenon
<1> QED
  BY <1>7, <1>8, <1>9, Zenon
-----------------------------------------------------------------------------
(* The replies to the unlock calls, and the beginning of an operation.     *)

\* No server answers an unlock with an I/O error.
UnlockAnswered == \A s \in Setups : "unlock" \notin s.faults

\* After the step child c no longer has lock k of the client, which it could
\* have given back.
GivenBack(cl, c, k) ==
  \A l \in locks'[c] : ~ (/\ l.client = cl /\ ~ l.stale /\ l.region = tx[cl].op.locks[k]
                          /\ <<c, k>> \notin tx[cl].lost /\ Served(cl, tx[cl], c))

\* The lock is given back, or the call did not reach a child that has it.
LEMMA UnlockStep ==
  ASSUME Shape, NEW cl \in Clients, NEW c0 \in Children, NEW k0 \in 1 .. 2, Pending(cl, c0, k0),
         tx[cl].phase = "unlock", Becomes(cl, AfterUnlock(Returned(cl, c0, k0))),
         UNCHANGED <<vol, child_up, badfd>>, reconnects' = reconnects,
         locks' \in [Children -> SUBSET LockRec],
         \A c \in Children : \A l \in locks'[c] : l \in locks[c],
         \A c \in Children : \A l \in locks[c] : l.client # cl => l \in locks'[c]
  PROVE  /\ Shape'
         /\ Apart => Apart'
         /\ LocksAccounted /\ GivenBack(cl, c0, k0) => LocksAccounted'
<1> DEFINE t == tx[cl]  r == Returned(cl, c0, k0)  v == AfterUnlock(r)
<1>1. t # Nothing /\ t \in TxRec /\ Fine(t) /\ cl \in vol.clients
  BY PendingIs, Zenon
<1>2. Kept(t, r) /\ TakenOff(t, r, c0, k0)
  BY <1>1, ReturnedIs, Zenon
<1>3. Becomes(cl, v) /\ t.phase = "unlock"
  OBVIOUS
<1> HIDE DEF r, t
<1>4. /\ r \in TxRec /\ r.op = t.op /\ r.locked = t.locked /\ r.phase = "unlock"
      /\ r.lost \subseteq r.calls /\ r.calls = t.calls \ {<<c0, k0>>} /\ r.lost = t.lost \ {<<c0, k0>>}
  BY <1>2, <1>3, Zenon DEF Kept, TakenOff
<1>5. /\ v \in TxRec
      /\ r.calls # {} => v = r
      /\ v.phase # "done" => v = r
  BY <1>4, DoneIs, Zenon DEF AfterUnlock, AllReturned
<1> HIDE DEF v
<1>6. Fine(r)
  <2>1. "unlock" \in Phases /\ r.phase # "lock"
    BY <1>4, Zenon DEF Phases
  <2> QED
    BY <1>1, <1>4, <2>1, Zenon DEF Fine
<1>7. Shape'
  BY <1>1, <1>3, <1>5, <1>6, ShapeMove, Zenon
<1>8. ASSUME Apart PROVE Apart'
  <2>1. \A c, k : v.phase # "done" => ~ Grant(cl, v, c, k)
    <3>1. "unlock" \notin {"preop", "fop", "postop"} /\ "unlock" # "lock"
      OBVIOUS
    <3> QED
      BY <1>4, <1>5, <3>1, Zenon DEF Grant
  <2>2. GrantsHeld(cl, v)
    BY <2>1, Zenon DEF GrantsHeld
  <2> QED
    BY <1>3, <1>5, <1>8, <2>2, ApartMove, Zenon
<1>9. ASSUME LocksAccounted, GivenBack(cl, c0, k0)
      PROVE  LocksAccounted'
  <2>1. ASSUME NEW c \in Children, NEW l \in locks'[c], ~ l.stale
        PROVE  \/ l.client # cl /\ l \in locks[c]
               \/ l.client = cl /\ v.phase # "done" /\ Served(cl, v, c) /\ Owed(v, c, l)
    <3>1. SUFFICES ASSUME l.client = cl
                   PROVE  v.phase # "done" /\ Served(cl, v, c) /\ Owed(v, c, l)
      BY <2>1, Zenon
    <3>2. Served(cl, t, c) /\ Owed(t, c, l)
      BY <1>9, <2>1, <3>1, Zenon DEF LocksAccounted, t
    <3>3. PICK k \in DOMAIN t.op.locks : l.region = t.op.locks[k] /\ <<c, k>> \in t.calls \ t.lost
      BY <1>3, <3>2, Zenon DEF Owed
    <3>4. <<c, k>> # <<c0, k0>>
      <4>1. SUFFICES ASSUME c = c0, k = k0 PROVE FALSE
        BY Zenon
      <4>2. l.region = t.op.locks[k0] /\ <<c0, k0>> \notin t.lost /\ Served(cl, t, c0) /\ l \in locks'[c0]
        BY <3>2, <3>3, <4>1, Zenon
      <4> QED
        BY <1>9, <2>1, <3>1, <4>2, Zenon DEF GivenBack, t
    <3>5. <<c, k>> \in r.calls \ r.lost
      BY <1>4, <3>3, <3>4, Zenon
    <3>6. v = r
      BY <1>5, <3>5, Zenon
    <3>7. IsOf(r, l) /\ Served(cl, r, c)
      BY <1>4, <3>2, Zenon DEF Owed, IsOf, Served
    <3>8. Owed(r, c, l) /\ r.phase # "done"
      <4>1. r.phase # "lock" /\ r.phase \notin {"preop", "fop", "postop"} /\ r.phase # "done"
        BY <1>4, Zenon
      <4>2. \E i \in DOMAIN r.op.locks : l.region = r.op.locks[i] /\ <<c, i>> \in r.calls \ r.lost
        BY <1>4, <3>3, <3>5, Zenon
      <4> QED
        BY <3>7, <4>1, <4>2, Zenon DEF Owed
    <3> QED
      BY <3>6, <3>7, <3>8, Zenon
  <2> QED
    BY <1>3, <1>5, <1>9, <2>1, AccountMove, Zenon
<1> QED
  BY <1>7, <1>8, <1>9, Zenon

\* afr_unlock_common_cbk: the lock is given back, or the call fails.
LEMMA UnlockReplyKeeps ==
  ASSUME Shape, NEW cl \in Clients, NEW c \in Children, NEW k \in 1 .. 2,
         Unlock(cl, c, k) \/ \E e \in Errnos : UnlockFails(cl, c, k, e)
  PROVE  /\ Shape' /\ (Apart => Apart')
         /\ UnlockAnswered /\ LocksAccounted => LocksAccounted'
<1> DEFINE region == tx[cl].op.locks[k]
<1>1. /\ Pending(cl, c, k) /\ tx[cl].phase = "unlock" /\ Becomes(cl, AfterUnlock(Returned(cl, c, k)))
      /\ UNCHANGED <<vol, child_up, badfd>> /\ reconnects' = reconnects
  BY Zenon DEF Unlock, UnlockFails, bounds
<1>2. locks \in [Children -> SUBSET LockRec] /\ vol \in Setups
  BY Zenon DEF Shape
<1>3. CASE Unlock(cl, c, k)
  <2>1. locks' = [locks EXCEPT ![c] = {l \in locks[c] : l.client # cl \/ l.stale \/ l.region # region}]
    BY <1>3, Zenon DEF Unlock
  <2> HIDE DEF region
  <2>2. /\ locks' \in [Children -> SUBSET LockRec]
        /\ \A x \in Children : \A l \in locks'[x] : l \in locks[x]
        /\ \A x \in Children : \A l \in locks[x] : l.client # cl => l \in locks'[x]
        /\ \A l \in locks'[c] : ~ (l.client = cl /\ ~ l.stale /\ l.region = region)
    BY <1>2, <2>1, Zenon
  <2>3. GivenBack(cl, c, k)
    BY <2>2, Zenon DEF region, GivenBack
  <2> QED
    BY <1>1, <2>2, <2>3, UnlockStep, Zenon
<1>4. ASSUME NEW e \in Errnos, UnlockFails(cl, c, k, e)
      PROVE  /\ Shape' /\ (Apart => Apart')
             /\ UnlockAnswered /\ LocksAccounted => LocksAccounted'
  <2>1. locks' = locks /\ Fails(cl, c, k, e)
    BY <1>4, Zenon DEF UnlockFails, children
  <2>2. /\ locks' \in [Children -> SUBSET LockRec]
        /\ \A x \in Children : \A l \in locks'[x] : l \in locks[x]
        /\ \A x \in Children : \A l \in locks[x] : l.client # cl => l \in locks'[x]
    BY <1>2, <2>1, Zenon
  <2>3. UnlockAnswered => GivenBack(cl, c, k)
    <3>1. Unsupported(c, tx[cl].phase) = "none"
      BY <1>1, Zenon DEF Unsupported
    <3>2. UnlockAnswered => tx[cl].phase \notin vol.faults
      BY <1>1, <1>2, ZenonT(30) DEF UnlockAnswered
    <3>3. UnlockAnswered => Disconnected(cl, c, k) \/ BadFd(cl, c)
      BY <2>1, <3>1, <3>2, Zenon DEF Fails, NeverOpened, BadFd
    <3>4. Disconnected(cl, c, k) => c \notin child_up[cl] \/ <<c, k>> \in tx[cl].lost
      BY Zenon DEF Disconnected
    <3> QED
      BY <3>3, <3>4, Zenon DEF BadFd, Served, GivenBack
  <2> QED
    BY <1>1, <2>2, <2>3, UnlockStep, Zenon
<1> QED
  BY <1>3, <1>4, ZenonT(30)

\* A client without a transaction is idle.
LEMMA IdleIs ==
  ASSUME Shape, NEW cl \in Clients
  PROVE  tx[cl].phase = "idle" <=> tx[cl] = Nothing
<1>1. tx[cl] # Nothing => tx[cl].phase \in Phases
  BY Zenon DEF Shape, Fine
<1>2. "idle" \notin Phases /\ Nothing.phase = "idle"
  BY Zenon DEF Phases, Nothing
<1> QED
  BY <1>1, <1>2, Zenon

\* A client without a transaction holds no lock.
LEMMA IdleHoldsNone ==
  ASSUME LocksAccounted, NEW c \in Children, NEW l \in locks[c], ~ l.stale
  PROVE  tx[l.client] # Nothing
  BY Zenon DEF LocksAccounted

\* An operation begins with no lock, and asks the first live child for its own.
LEMMA StartKeeps ==
  ASSUME Shape, NEW cl \in Clients, NEW op \in vol.ops, Start(cl, op)
  PROVE  Shape' /\ (LocksAccounted => LocksAccounted') /\ (Guarded /\ Apart => Apart')
<1> DEFINE t == LocalInit(cl, op)  v == afr_lock_rec(t, 1, First(cl))
<1>1. /\ cl \in vol.clients /\ tx[cl].phase = "idle" /\ Becomes(cl, v)
      /\ UNCHANGED <<vol, child_up, badfd>> /\ locks' = locks /\ reconnects' = reconnects
  BY Zenon DEF Start, children
<1>2. tx[cl] = Nothing
  BY <1>1, IdleIs, ZenonT(30)
<1>3. /\ t \in TxRec /\ t.op = op /\ t.up = child_up[cl] /\ t.locked = {} /\ t.lost = {}
      /\ t.errno = "none"
  <2>1. child_up[cl] \in SUBSET Children /\ NoCount \in [Children -> Int]
    BY SMTT(30) DEF Shape, NoCount
  <2> QED
    BY <2>1, Zenon DEF LocalInit, TxRec, Phases
<1>4. vol \in Setups /\ 1 \in Int /\ \A c \in Children : c \in Nat /\ c >= 1
  BY DEF Shape, Children
<1>5. AsksNext(t, v, 1) \/ HasLocks(t, v, 1)
  <2> HIDE DEF t
  <2> QED
    BY <1>3, <1>4, LockRecIs, Zenon
<1> HIDE DEF v, t
<1>6. Cardinality(t.locked) = 0
  BY <1>3, FS_EmptySet, Zenon
<1>7. v \in TxRec /\ v.op = op /\ v.locked = {} /\ v.lost = {} /\ v.errno = "none" /\ v.up = t.up
  <2>1. v \in TxRec /\ SameTx(t, v)
    BY <1>5, Zenon DEF AsksNext, HasLocks, Onward
  <2> QED
    BY <1>3, <2>1, Zenon DEF SameTx
<1>8. 1 \in DOMAIN op.locks
  BY <1>4, LocksOfOp, Zenon
<1>9. ASSUME AsksNext(t, v, 1)
      PROVE  Fine(v) /\ \A c, k : ~ Grant(cl, v, c, k)
  <2>1. PICK d \in t.up : /\ \A c \in t.up : c >= 1 => d <= c
                          /\ v.calls = {d} \X DOMAIN t.op.locks
    BY <1>9, Zenon DEF AsksNext
  <2>2. v.phase = "lock" /\ afr_lock_server_count(op) # 0
    BY <1>3, <1>6, <1>9, Zenon DEF AsksNext
  <2>3. <<d, 1>> \in v.calls /\ v.calls = {d} \X DOMAIN v.op.locks
    BY <1>3, <1>7, <1>8, <2>1, Zenon
  <2>4. t.up \subseteq Children
    BY <1>3, Zenon DEF TxRec
  <2>5. Fine(v)
    <3>1. v.calls # {} /\ v.calls \subseteq {d} \X DOMAIN v.op.locks /\ d \in Children
      BY <2>3, <2>4, Zenon
    <3>2. \A c \in v.up : c \in v.locked \/ d <= c
      BY <1>4, <1>7, <2>1, <2>4, Zenon
    <3>3. v.phase \in Phases /\ v.lost \subseteq v.calls /\ v.errno # "ENOSYS"
      BY <1>7, <2>2, Zenon DEF Phases
    <3> QED
      BY <1>7, <2>2, <3>1, <3>2, <3>3, Zenon DEF Fine
  <2>6. ASSUME NEW c, NEW k, Grant(cl, v, c, k) PROVE FALSE
    <3>1. /\ k \in DOMAIN v.op.locks
          /\ <<c, k>> \notin v.calls /\ \A call \in v.calls : call[1] = c
      <4>1. v.phase \notin {"preop", "fop", "postop"} /\ c \notin v.locked
        BY <1>7, <2>2, Zenon
      <4> QED
        BY <2>6, <4>1, Zenon DEF Grant
    <3>2. c = d
      BY <2>3, <3>1, Zenon
    <3> QED
      BY <2>3, <3>1, <3>2, Zenon
  <2> QED
    BY <2>5, <2>6, Zenon
<1>10. ASSUME HasLocks(t, v, 1)
       PROVE  /\ v.phase # "done" => Fine(v)
              /\ Guarded /\ Several => \A c, k : ~ Grant(cl, v, c, k)
  <2>1. Onward(t, v) /\ WantsLocks(t)
    BY <1>3, <1>10, Zenon DEF HasLocks, WantsLocks
  <2>2. (v.phase # "done" => Fine(v)) /\ v.phase # "lock"
    BY <1>3, <2>1, OnwardFine, Zenon
  <2>3. ASSUME Guarded, Several, NEW c, NEW k, Grant(cl, v, c, k) PROVE FALSE
    <3>1. v.phase \in Live /\ c \in t.up
      BY <1>7, <2>2, <2>3, Zenon DEF Grant, Live
    <3>2. afr_lock_server_count(t.op) # 0
      BY <1>3, <1>4, <2>3, GuardedLocks, Zenon
    <3>3. \A x \in t.up : x < 1
      BY <1>6, <1>10, <3>1, <3>2, Zenon DEF HasLocks
    <3>4. c \in Children /\ c < 1
      BY <1>3, <3>1, <3>3, Zenon DEF TxRec
    <3> QED
      BY <1>4, <3>4
  <2> QED
    BY <2>2, <2>3, Zenon
<1>11. locks' \in [Children -> SUBSET LockRec]
  BY <1>1, Zenon DEF Shape
<1>12. Shape'
  BY <1>1, <1>5, <1>7, <1>9, <1>10, <1>11, ShapeMove, Zenon
<1>13. ASSUME LocksAccounted PROVE LocksAccounted'
  <2>1. ASSUME NEW c \in Children, NEW l \in locks'[c], ~ l.stale
        PROVE  l.client # cl /\ l \in locks[c]
    BY <1>1, <1>2, <1>13, <2>1, IdleHoldsNone, Zenon
  <2>2. \A c \in Children : \A l \in locks'[c] : ~ l.stale =>
          \/ l.client # cl /\ l \in locks[c]
          \/ l.client = cl /\ v.phase # "done" /\ Served(cl, v, c) /\ Owed(v, c, l)
    BY <2>1, Zenon
  <2>3. Becomes(cl, v) /\ UNCHANGED <<vol, child_up, badfd>>
    BY <1>1, Zenon
  <2> QED
    BY <1>7, <1>11, <1>13, <2>2, <2>3, AccountMove, Zenon
<1>14. ASSUME Guarded, Apart PROVE Apart'
  <2>1. GrantsHeld(cl, v)
    BY <1>5, <1>9, <1>10, <1>14, Zenon DEF GrantsHeld
  <2>2. \A c \in Children : \A l \in locks[c] : l.client # cl => l \in locks'[c]
    BY <1>1, Zenon
  <2> QED
    BY <1>1, <1>7, <1>14, <2>1, <2>2, ApartMove, Zenon
<1> QED
  BY <1>12, <1>13, <1>14, Zenon
-----------------------------------------------------------------------------
(* Connections, and the steps that leave the transactions alone.           *)

\* A connection that is lost takes the locks on it along.
LEMMA DroppedLocks ==
  ASSUME Shape, NEW cl \in Clients, NEW c \in Children, Drop(cl, c)
  PROVE  /\ locks' \in [Children -> SUBSET LockRec]
         /\ \A x \in Children : x # c => locks'[x] = locks[x]
         /\ \A l \in locks'[c] : ~ l.stale => l \in locks[c] /\ l.client # cl
         /\ \A l \in locks[c] : l.client # cl => l \in locks'[c]
<1>1. PICK ks : Executed(cl, c, ks)
  BY Zenon DEF Drop
<1> DEFINE gone(m) == /\ ks # {} /\ tx[cl].phase = "unlock" /\ m.client = cl /\ ~ m.stale
                      /\ \E k \in ks : m.region = tx[cl].op.locks[k]
           dying(l) == [l EXCEPT !.stale = @ \/ l.client = cl]
           rest == {m \in locks[c] : ~ gone(m)}
<1>2. locks' = [locks EXCEPT ![c] = {dying(l) : l \in rest}]
  BY <1>1, Zenon DEF Executed
<1>3. locks \in [Children -> SUBSET LockRec] /\ rest \subseteq locks[c] /\ locks[c] \subseteq LockRec
  BY Zenon DEF Shape
<1>4. \A l \in locks[c] : l.client # cl => l \in rest
  BY Zenon
<1> HIDE DEF rest
<1>5. \A l \in LockRec : /\ dying(l) \in LockRec
                         /\ ~ dying(l).stale => l.client # cl
                         /\ l.client # cl => dying(l) = l
  <2> SUFFICES ASSUME NEW l \in LockRec
               PROVE  /\ dying(l) \in LockRec
                      /\ ~ dying(l).stale => l.client # cl
                      /\ l.client # cl => dying(l) = l
    OBVIOUS
  <2>1. l.stale \in BOOLEAN /\ dying(l) = [l EXCEPT !.stale = l.stale \/ l.client = cl]
    BY Zenon DEF LockRec
  <2>2. (l.stale \/ l.client = cl) \in BOOLEAN
    OBVIOUS
  <2> DEFINE b == l.stale \/ l.client = cl
  <2>3. (l.client = cl => b) /\ (l.client # cl => b = l.stale)
    BY <2>1, Zenon
  <2>4. dying(l) = [l EXCEPT !.stale = b] /\ b \in BOOLEAN
    BY <2>1, <2>2, Zenon
  <2> HIDE DEF b
  <2>5. dying(l) \in LockRec /\ dying(l).stale = b
    BY <2>4, Zenon DEF LockRec
  <2>6. b = l.stale => dying(l) = l
    BY <2>4, Zenon DEF LockRec
  <2> QED
    BY <2>3, <2>5, <2>6, Zenon
<1> HIDE DEF dying
<1>6. {dying(l) : l \in rest} \in SUBSET LockRec
  BY <1>3, <1>5, Zenon
<1>7. /\ locks' \in [Children -> SUBSET LockRec] /\ locks'[c] = {dying(l) : l \in rest}
      /\ \A x \in Children : x # c => locks'[x] = locks[x]
  BY <1>2, <1>3, <1>6, ZenonT(30)
<1>8. ASSUME NEW l \in locks'[c], ~ l.stale PROVE l \in locks[c] /\ l.client # cl
  <2>1. PICK m \in rest : l = dying(m)
    BY <1>7, Zenon
  <2>2. m \in locks[c] /\ m \in LockRec
    BY <1>3, Zenon
  <2> QED
    BY <1>5, <1>8, <2>1, <2>2, Zenon
<1>9. ASSUME NEW l \in locks[c], l.client # cl PROVE l \in locks'[c]
  <2>1. l \in rest /\ l = dying(l)
    BY <1>3, <1>4, <1>5, <1>9, Zenon
  <2> QED
    BY <1>7, <2>1, Zenon
<1> QED
  BY <1>7, <1>8, <1>9, Zenon

\* The transaction learns which of its calls were on the connection.
LosesCalls(t, u, c) ==
  /\ u.lost = t.lost \cup {call \in t.calls : call[1] = c}
  /\ u.phase = t.phase /\ u.op = t.op /\ u.up = t.up /\ u.locked = t.locked
  /\ u.calls = t.calls /\ u.errno = t.errno

\* Nothing else of it changes, and the other transactions do not change.
LEMMA DroppedTx ==
  ASSUME Shape, NEW cl \in Clients, NEW c \in Children, Drop(cl, c)
  PROVE  /\ DOMAIN tx' = Clients
         /\ \A m \in Clients : m # cl => tx'[m] = tx[m]
         /\ tx[cl] = Nothing => tx'[cl] = Nothing
         /\ tx[cl] # Nothing => /\ tx'[cl] \in TxRec /\ Fine(tx'[cl]) /\ tx'[cl] # Nothing
                                /\ LosesCalls(tx[cl], tx'[cl], c)
<1> DEFINE t == tx[cl]  L == t.lost \cup {call \in t.calls : call[1] = c}
           u == [t EXCEPT !.lost = L]
<1>1. t.phase = "idle" <=> t = Nothing
  BY IdleIs, Zenon
<1>2. DOMAIN tx = Clients
  BY Zenon DEF Shape
<1>3. CASE t = Nothing
  BY <1>1, <1>2, <1>3, Zenon DEF Drop
<1>4. CASE t # Nothing
  <2>1. t \in TxRec /\ Fine(t)
    BY <1>4, Zenon DEF Shape
  <2>2. tx' = [tx EXCEPT ![cl].lost = @ \cup {call \in t.calls : call[1] = c}]
    BY <1>1, <1>4, Zenon DEF Drop, OnChild
  <2>3. tx' = [tx EXCEPT ![cl] = u]
    BY <1>2, <2>1, <2>2, Zenon DEF TxRec
  <2>4. /\ L \in SUBSET (Children \X (1 .. 2)) /\ L \subseteq t.calls
    BY <2>1, Zenon DEF TxRec, Fine
  <2>5. tx'[cl] = u /\ DOMAIN tx' = Clients /\ \A m \in Clients : m # cl => tx'[m] = tx[m]
    <3> HIDE DEF u
    <3> QED
      BY <1>2, <2>3, Zenon
  <2> HIDE DEF L, t
  <2>6. /\ u \in TxRec /\ u.lost = L /\ u.phase = t.phase /\ u.op = t.op /\ u.up = t.up
        /\ u.locked = t.locked /\ u.calls = t.calls /\ u.errno = t.errno
    BY <2>1, <2>4, Zenon DEF TxRec
  <2> HIDE DEF u
  <2>8. Fine(u)
    BY <2>1, <2>4, <2>6, Zenon DEF Fine
  <2>9. LosesCalls(t, u, c)
    BY <2>6, Zenon DEF LosesCalls, L
  <2> QED
    BY <1>4, <2>5, <2>6, <2>8, <2>9, Busy, Zenon DEF t
<1> QED
  BY <1>3, <1>4, Zenon

\* A step that leaves the volume alone keeps the types if its variables stay
\* typed and the transactions fine.
LEMMA ShapeSame ==
  ASSUME Shape, vol' = vol, reconnects' \in Nat, updates' \in Nat,
         child_up' \in [Clients -> SUBSET Children], badfd' \in FdStates,
         locks' \in [Children -> SUBSET LockRec], DOMAIN tx' = Clients,
         \A m \in Clients : tx'[m] # Nothing =>
           m \in vol.clients /\ tx'[m] \in TxRec /\ Fine(tx'[m])
  PROVE  Shape'
<1>1. /\ Children' = Children /\ TxRec' = TxRec /\ LockRec' = LockRec /\ Nothing' = Nothing
      /\ \A t : Fine(t)' <=> Fine(t)
  BY SameTypes, Zenon DEF Nothing
<1>2. \A m \in Clients : tx'[m] # Nothing => m \in vol'.clients /\ tx'[m] \in TxRec' /\ Fine(tx[m])'
  BY <1>1, SameTypes, Zenon DEF Fine
<1>3. vol' \in Setups
  BY Zenon DEF Shape
<1>4. FdStates' = FdStates
  BY <1>1, Zenon DEF FdStates
<1> QED
  BY <1>1, <1>2, <1>3, <1>4, Zenon DEF Shape

\* The account of the locks and what was granted, of the next state.
LEMMA NextAre ==
  ASSUME vol' = vol
  PROVE  /\ LocksAccounted' <=>
              \A c \in Children : \A l \in locks'[c] : ~ l.stale =>
                /\ tx'[l.client] # Nothing
                /\ /\ c \in child_up'[l.client] /\ c \notin vol.no_locking
                   /\ tx'[l.client].op.fd => badfd'[l.client][c] = "none"
                /\ Owed(tx'[l.client], c, l)
         /\ Apart' <=>
              (reconnects' = 0 /\ Cardinality(vol.clients) # 1 =>
                 /\ \A m \in Clients, c \in Children, k \in 1 .. 2 :
                      Granted(m, c, k)' => HeldNext(m, c, tx'[m].op.locks[k])
                 /\ \A m, n \in Clients, c \in Children, i, j \in 1 .. 2 :
                      m # n /\ Granted(m, c, i)' /\ Granted(n, c, j)' =>
                        tx'[m].op.locks[i] \cap tx'[n].op.locks[j] = {})
<1>1. Children' = Children /\ Nothing' = Nothing
  BY SameTypes, Zenon DEF Nothing
<1>2. \A m, c, l : Owed(tx[m], c, l)' <=> Owed(tx'[m], c, l)
  BY Zenon DEF Owed, IsOf
<1>3. LocksAccounted' <=>
        \A c \in Children : \A l \in locks'[c] : ~ l.stale =>
          /\ tx'[l.client] # Nothing
          /\ /\ c \in child_up'[l.client] /\ c \notin vol.no_locking
             /\ tx'[l.client].op.fd => badfd'[l.client][c] = "none"
          /\ Owed(tx'[l.client], c, l)
  BY <1>1, <1>2, Zenon DEF LocksAccounted, Served
<1>4. \A m, c, k : Held(m, c, tx[m].op.locks[k])' <=> HeldNext(m, c, tx'[m].op.locks[k])
  BY Zenon DEF Held, HeldNext
<1>5. Several' <=> reconnects' = 0 /\ Cardinality(vol.clients) # 1
  BY Zenon DEF Several
<1> QED
  BY <1>1, <1>3, <1>4, <1>5, Zenon DEF Apart

\* A connection is lost.
LEMMA DropKeeps ==
  ASSUME Shape, NEW cl \in Clients, NEW c \in Children, Drop(cl, c)
  PROVE  Shape' /\ (LocksAccounted => LocksAccounted') /\ (Apart => Apart')
<1>1. /\ locks' \in [Children -> SUBSET LockRec]
      /\ \A x \in Children : x # c => locks'[x] = locks[x]
      /\ \A l \in locks'[c] : ~ l.stale => l \in locks[c] /\ l.client # cl
      /\ \A l \in locks[c] : l.client # cl => l \in locks'[c]
  BY DroppedLocks, Zenon
<1>2. /\ DOMAIN tx' = Clients
      /\ \A m \in Clients : m # cl => tx'[m] = tx[m]
      /\ tx[cl] = Nothing => tx'[cl] = Nothing
      /\ tx[cl] # Nothing => /\ tx'[cl] \in TxRec /\ Fine(tx'[cl]) /\ tx'[cl] # Nothing
                             /\ LosesCalls(tx[cl], tx'[cl], c)
  BY DroppedTx, Zenon
<1>3. /\ vol' = vol /\ updates' = updates /\ reconnects' = reconnects
      /\ child_up' = [child_up EXCEPT ![cl] = child_up[cl] \ {c}]
      /\ badfd' = [badfd EXCEPT ![cl][c] = IF badfd[cl][c] = "none" THEN "EINVAL"
                                            ELSE badfd[cl][c]]
  BY Zenon DEF Drop, Shape, FdStates
<1>4. /\ child_up \in [Clients -> SUBSET Children] /\ badfd \in FdStates
      /\ updates \in Nat /\ reconnects \in Nat
  BY Zenon DEF Shape
<1>5. /\ child_up' \in [Clients -> SUBSET Children] /\ badfd' \in FdStates
      /\ \A m \in Clients : m # cl => child_up'[m] = child_up[m] /\ badfd'[m] = badfd[m]
      /\ child_up'[cl] = child_up[cl] \ {c}
      /\ \A d \in Children : d # c => badfd'[cl][d] = badfd[cl][d]
  BY <1>3, <1>4, Zenon DEF FdStates
<1>6. Shape'
  <2>1. ASSUME NEW m \in Clients, tx'[m] # Nothing
        PROVE  m \in vol.clients /\ tx'[m] \in TxRec /\ Fine(tx'[m])
    <3>a. tx[m] # Nothing => m \in vol.clients /\ tx[m] \in TxRec /\ Fine(tx[m])
      BY Zenon DEF Shape
    <3>1. CASE m # cl
      <4>1. tx'[m] = tx[m]
        BY <1>2, <3>1, Zenon
      <4> QED
        BY <2>1, <3>a, <4>1, Zenon
    <3>2. CASE m = cl
      BY <1>2, <2>1, <3>2, Zenon DEF Shape
    <3> QED
      BY <3>1, <3>2, Zenon
  <2>2. updates' \in Nat /\ reconnects' \in Nat
    BY <1>3, <1>4, Zenon
  <2>3. vol' = vol
    BY <1>3, Zenon
  <2> QED
    BY <1>1, <1>2, <1>5, <2>1, <2>2, <2>3, ShapeSame, Zenon
<1>7. ASSUME LocksAccounted PROVE LocksAccounted'
  <2>1. ASSUME NEW x \in Children, NEW l \in locks'[x], ~ l.stale
        PROVE  /\ tx'[l.client] # Nothing
               /\ /\ x \in child_up'[l.client] /\ x \notin vol.no_locking
                  /\ tx'[l.client].op.fd => badfd'[l.client][x] = "none"
               /\ Owed(tx'[l.client], x, l)
    <3>1. l \in locks[x] /\ (x = c => l.client # cl)
      BY <1>1, <2>1, Zenon
    <3>2. /\ tx[l.client] # Nothing /\ Served(l.client, tx[l.client], x)
          /\ Owed(tx[l.client], x, l)
      BY <1>7, <2>1, <3>1, Zenon DEF LocksAccounted
    <3>3. l.client \in Clients
      BY <1>1 DEF LockRec
    <3>4. CASE l.client # cl
      BY <1>2, <1>5, <3>2, <3>3, <3>4, Zenon DEF Served
    <3>5. CASE l.client = cl
      <4>1. x # c /\ tx'[cl] # Nothing /\ LosesCalls(tx[cl], tx'[cl], c)
        BY <1>2, <3>1, <3>2, <3>5, Zenon
      <4> DEFINE t == tx[cl]  u == tx'[cl]
      <4>2. Served(cl, t, x) /\ Owed(t, x, l)
        BY <3>2, <3>5, Zenon
      <4>3. LosesCalls(t, u, c)
        BY <4>1, Zenon
      <4> HIDE DEF t, u
      <4>4. /\ u.lost = t.lost \cup {call \in t.calls : call[1] = c}
            /\ u.phase = t.phase /\ u.op = t.op /\ u.locked = t.locked /\ u.calls = t.calls
        BY <4>3, ZenonT(30) DEF LosesCalls
      <4>5. \A k : <<x, k>> \in t.calls \ t.lost => <<x, k>> \in u.calls \ u.lost
        BY <4>1, <4>4, Zenon
      <4>6. Owed(u, x, l)
        <5>1. IsOf(u, l)
          BY <4>2, <4>4, Zenon DEF Owed, IsOf
        <5>2. u.phase = "unlock" =>
                \E k \in DOMAIN u.op.locks : l.region = u.op.locks[k] /\ <<x, k>> \in u.calls \ u.lost
          BY <4>2, <4>4, <4>5, ZenonT(30) DEF Owed
        <5> QED
          BY <4>2, <4>4, <5>1, <5>2, Zenon DEF Owed, Partly
      <4>7. /\ x \in child_up'[cl] /\ x \notin vol.no_locking
            /\ u.op.fd => badfd'[cl][x] = "none"
        <5>1. x \in child_up[cl] /\ x \notin vol.no_locking /\ (u.op.fd => badfd[cl][x] = "none")
          BY <4>2, <4>4, Zenon DEF Served
        <5> QED
          BY <1>5, <4>1, <5>1, Zenon
      <4> QED
        BY <3>5, <4>1, <4>6, <4>7, Zenon DEF u
    <3> QED
      BY <3>4, <3>5, Zenon
  <2> QED
    BY <1>3, <2>1, NextAre, Zenon
<1>8. ASSUME Apart PROVE Apart'
  <2>1. ASSUME NEW m \in Clients, NEW x \in Children, NEW k, Granted(m, x, k)'
        PROVE  Granted(m, x, k) /\ tx'[m].op = tx[m].op /\ (m = cl => x # c)
    <3>1. tx'[m] # Nothing
      BY <2>1, Zenon DEF Granted, Nothing
    <3>2. CASE m # cl
      <4>1. tx'[m] = tx[m] /\ child_up'[m] = child_up[m]
        BY <1>2, <1>5, <3>2, Zenon
      <4> QED
        BY <2>1, <3>1, <3>2, <4>1, Zenon DEF Granted, Grant, Nothing
    <3>3. CASE m = cl
      <4> DEFINE t == tx[cl]  u == tx'[cl]
      <4>1. t # Nothing /\ LosesCalls(t, u, c)
        BY <1>2, <3>1, <3>3, Zenon
      <4>2. x \in child_up'[cl]
        BY <2>1, <3>3, Zenon DEF Granted, Grant
      <4>3. x # c /\ x \in child_up[cl]
        BY <1>5, <4>2, Zenon
      <4>4. /\ x \in u.up /\ k \in DOMAIN u.op.locks
            /\ \/ u.phase \in {"preop", "fop", "postop"}
               \/ u.phase = "lock" /\ x \in u.locked
               \/ u.phase = "lock" /\ <<x, k>> \notin u.calls /\ \A call \in u.calls : call[1] = x
        BY <2>1, <3>3, Zenon DEF Granted, Grant
      <4> HIDE DEF t, u
      <4>5. u.phase = t.phase /\ u.op = t.op /\ u.up = t.up /\ u.locked = t.locked /\ u.calls = t.calls
        BY <4>1, Zenon DEF LosesCalls
      <4>6. Grant(cl, t, x, k)
        BY <4>3, <4>4, <4>5, Zenon DEF Grant
      <4> QED
        BY <3>3, <4>1, <4>3, <4>5, <4>6, Zenon DEF Granted, t, u
    <3> QED
      BY <3>2, <3>3, Zenon
  <2>2. SUFFICES ASSUME Several
                 PROVE  /\ \A m \in Clients, x \in Children, k \in 1 .. 2 :
                             Granted(m, x, k)' => HeldNext(m, x, tx'[m].op.locks[k])
                        /\ \A m, n \in Clients, x \in Children, i, j \in 1 .. 2 :
                             m # n /\ Granted(m, x, i)' /\ Granted(n, x, j)' =>
                               tx'[m].op.locks[i] \cap tx'[n].op.locks[j] = {}
    <3>1. reconnects' = 0 /\ Cardinality(vol.clients) # 1 => Several
      BY <1>3, Zenon DEF Several
    <3>2. vol' = vol
      BY <1>3, Zenon
    <3> QED
      BY <2>2, <3>1, <3>2, NextAre, ZenonT(30)
  <2>3. ASSUME NEW m \in Clients, NEW x \in Children, NEW k \in 1 .. 2, Granted(m, x, k)'
        PROVE  HeldNext(m, x, tx'[m].op.locks[k])
    <3>1. Granted(m, x, k) /\ tx'[m].op = tx[m].op /\ (m = cl => x # c)
      BY <2>1, <2>3, Zenon
    <3>2. Held(m, x, tx[m].op.locks[k])
      BY <1>8, <2>2, <3>1, Zenon DEF Apart
    <3>3. PICK l \in locks[x] : l.client = m /\ ~ l.stale /\ l.region = tx[m].op.locks[k]
      BY <3>2, Zenon DEF Held
    <3>4. l \in locks'[x]
      BY <1>1, <3>1, <3>3, Zenon
    <3> QED
      BY <3>1, <3>3, <3>4, Zenon DEF HeldNext
  <2>4. ASSUME NEW m \in Clients, NEW n \in Clients, NEW x \in Children, NEW i \in 1 .. 2,
               NEW j \in 1 .. 2, m # n, Granted(m, x, i)', Granted(n, x, j)'
        PROVE  tx'[m].op.locks[i] \cap tx'[n].op.locks[j] = {}
    <3>1. /\ Granted(m, x, i) /\ tx'[m].op = tx[m].op
          /\ Granted(n, x, j) /\ tx'[n].op = tx[n].op
      BY <2>1, <2>4, Zenon
    <3>2. tx[m].op.locks[i] \cap tx[n].op.locks[j] = {}
      BY <1>8, <2>2, <2>4, <3>1, Zenon DEF Apart
    <3> QED
      BY <3>1, <3>2, Zenon
  <2> QED
    BY <2>3, <2>4, Zenon
<1> QED
  BY <1>6, <1>7, <1>8, Zenon

\* A connection comes back, the file is opened again, the server cleans up
\* after a connection, a client crashes, or nothing happens.
LEMMA OthersKeep ==
  ASSUME Shape,
         \/ \E cl \in Clients, c \in Children : Reconnect(cl, c)
         \/ \E cl \in Clients : Reopen(cl) \/ Crash(cl)
         \/ \E c \in Children : Cleanup(c)
         \/ Rest \/ UNCHANGED vars
  PROVE  Shape' /\ (LocksAccounted => LocksAccounted') /\ (Apart => Apart')
<1>1. vol' = vol /\ tx' = tx /\ updates' = updates
  BY Zenon DEF Reconnect, Reopen, Crash, Cleanup, Rest, vars, children, bounds
<1>2. /\ child_up \in [Clients -> SUBSET Children] /\ badfd \in FdStates
      /\ updates \in Nat /\ reconnects \in Nat /\ locks \in [Children -> SUBSET LockRec]
      /\ DOMAIN tx = Clients
      /\ \A m \in Clients : tx[m] # Nothing => m \in vol.clients /\ tx[m] \in TxRec /\ Fine(tx[m])
  BY Zenon DEF Shape
<1>3. /\ child_up' \in [Clients -> SUBSET Children]
      /\ \A m \in Clients : child_up[m] \subseteq child_up'[m]
      /\ \/ child_up' = child_up /\ reconnects' = reconnects
         \/ reconnects' = reconnects + 1
  <2>1. CASE \E cl \in Clients, c \in Children : Reconnect(cl, c)
    BY <1>2, <2>1 DEF Reconnect
  <2>2. CASE ~ \E cl \in Clients, c \in Children : Reconnect(cl, c)
    <3>1. child_up' = child_up /\ reconnects' = reconnects
      BY <2>2, Zenon DEF Reopen, Crash, Cleanup, Rest, vars, children, bounds
    <3> QED
      BY <1>2, <3>1, Zenon
  <2> QED
    BY <2>1, <2>2, Zenon
<1>4. /\ badfd' \in FdStates
      /\ \A m \in Clients : tx[m] # Nothing => badfd'[m] = badfd[m]
  <2>1. CASE \E cl \in Clients : Reopen(cl)
    <3>1. PICK cl \in Clients : Reopen(cl)
      BY <2>1, Zenon
    <3>2. tx[cl] = Nothing /\ badfd' = [badfd EXCEPT ![cl] = OpenedOn(child_up[cl])]
      BY <3>1, IdleIs, Zenon DEF Reopen
    <3> QED
      BY <1>2, <3>2, Zenon DEF FdStates, OpenedOn
  <2>2. CASE ~ \E cl \in Clients : Reopen(cl)
    <3>1. badfd' = badfd
      BY <2>2, Zenon DEF Reconnect, Crash, Cleanup, Rest, vars, children, bounds
    <3> QED
      BY <1>2, <3>1, Zenon
  <2> QED
    BY <2>1, <2>2, Zenon
<1>5. /\ locks' \in [Children -> SUBSET LockRec]
      /\ \A c \in Children : \A l : ~ l.stale => (l \in locks'[c] <=> l \in locks[c])
  <2>1. CASE \E c \in Children : Cleanup(c)
    <3>1. PICK c \in Children : locks' = [locks EXCEPT ![c] = {l \in locks[c] : ~ l.stale \/ l.inode}]
      BY <2>1, Zenon DEF Cleanup
    <3> QED
      BY <1>2, <3>1, Zenon
  <2>2. CASE ~ \E c \in Children : Cleanup(c)
    <3>1. locks' = locks
      BY <2>2, Zenon DEF Reconnect, Reopen, Crash, Rest, vars, children, bounds
    <3> QED
      BY <1>2, <3>1, Zenon
  <2> QED
    BY <2>1, <2>2, ZenonT(30)
<1>6. Shape'
  <2>1. reconnects' \in Nat /\ updates' \in Nat
    BY <1>1, <1>2, <1>3
  <2>2. /\ DOMAIN tx' = Clients /\ vol' = vol
        /\ \A m \in Clients : tx'[m] # Nothing =>
             m \in vol.clients /\ tx'[m] \in TxRec /\ Fine(tx'[m])
    BY <1>1, <1>2, Zenon
  <2> QED
    BY <1>3, <1>4, <1>5, <2>1, <2>2, ShapeSame, ZenonT(30)
<1>7. ASSUME LocksAccounted PROVE LocksAccounted'
  <2>1. ASSUME NEW c \in Children, NEW l \in locks'[c], ~ l.stale
        PROVE  /\ tx'[l.client] # Nothing
               /\ /\ c \in child_up'[l.client] /\ c \notin vol.no_locking
                  /\ tx'[l.client].op.fd => badfd'[l.client][c] = "none"
               /\ Owed(tx'[l.client], c, l)
    <3>1. l \in locks[c]
      BY <1>5, <2>1, Zenon
    <3>2. /\ tx[l.client] # Nothing /\ Served(l.client, tx[l.client], c)
          /\ Owed(tx[l.client], c, l)
      BY <1>7, <2>1, <3>1, Zenon DEF LocksAccounted
    <3>3. l.client \in Clients
      BY <1>5 DEF LockRec
    <3>4. /\ c \in child_up'[l.client] /\ c \notin vol.no_locking
          /\ tx[l.client].op.fd => badfd'[l.client][c] = "none"
      BY <1>3, <1>4, <3>2, <3>3, Zenon DEF Served
    <3> QED
      BY <1>1, <3>2, <3>4, Zenon
  <2>2. vol' = vol
    BY <1>1, Zenon
  <2> QED
    BY <2>1, <2>2, NextAre, Zenon
<1>8. ASSUME Apart PROVE Apart'
  <2>0. vol' = vol
    BY <1>1, Zenon
  <2>1. CASE reconnects' = reconnects + 1
    <3>1. reconnects' # 0
      BY <1>2, <2>1
    <3> QED
      BY <2>0, <3>1, NextAre, Zenon
  <2>2. CASE child_up' = child_up /\ reconnects' = reconnects
    <3>1. \A m, x, k : Granted(m, x, k)' <=> Granted(m, x, k)
      BY <1>1, <2>2 DEF Granted, Grant, Nothing
    <3>2. SUFFICES ASSUME Several
                   PROVE  /\ \A m \in Clients, x \in Children, k \in 1 .. 2 :
                               Granted(m, x, k)' => HeldNext(m, x, tx'[m].op.locks[k])
                          /\ \A m, n \in Clients, x \in Children, i, j \in 1 .. 2 :
                               m # n /\ Granted(m, x, i)' /\ Granted(n, x, j)' =>
                                 tx'[m].op.locks[i] \cap tx'[n].op.locks[j] = {}
      <4>1. reconnects' = 0 /\ Cardinality(vol.clients) # 1 => Several
        BY <2>2, Zenon DEF Several
      <4> QED
        BY <2>0, <3>2, <4>1, NextAre, ZenonT(30)
    <3>3. ASSUME NEW m \in Clients, NEW x \in Children, NEW k \in 1 .. 2, Granted(m, x, k)'
          PROVE  HeldNext(m, x, tx'[m].op.locks[k])
      <4>1. Held(m, x, tx[m].op.locks[k])
        BY <1>8, <3>1, <3>2, <3>3, Zenon DEF Apart
      <4>2. PICK l \in locks[x] : l.client = m /\ ~ l.stale /\ l.region = tx[m].op.locks[k]
        BY <4>1, Zenon DEF Held
      <4>3. l \in locks'[x]
        BY <1>5, <4>2, Zenon
      <4> QED
        BY <1>1, <4>2, <4>3, Zenon DEF HeldNext
    <3>4. ASSUME NEW m \in Clients, NEW n \in Clients, NEW x \in Children, NEW i \in 1 .. 2,
                 NEW j \in 1 .. 2, m # n, Granted(m, x, i)', Granted(n, x, j)'
          PROVE  tx'[m].op.locks[i] \cap tx'[n].op.locks[j] = {}
      <4>1. tx[m].op.locks[i] \cap tx[n].op.locks[j] = {}
        BY <1>8, <3>1, <3>2, <3>4, Zenon DEF Apart
      <4> QED
        BY <1>1, <4>1, Zenon
    <3> QED
      BY <3>3, <3>4, Zenon
  <2> QED
    BY <1>3, <2>1, <2>2, Zenon
<1> QED
  BY <1>6, <1>7, <1>8, ZenonT(30)
-----------------------------------------------------------------------------
(* The theorems.                                                           *)

\* Nothing is locked at the beginning.
LEMMA InitKeeps ==
  ASSUME Init
  PROVE  Shape /\ LocksAccounted /\ Apart
<1>1. /\ vol \in Setups /\ child_up = [cl \in Clients |-> Children]
      /\ tx = [cl \in Clients |-> Nothing] /\ badfd = [cl \in Clients |-> OpenedOn(Children)]
      /\ locks = [c \in Children |-> {}] /\ updates = 0 /\ reconnects = 0
  BY Zenon DEF Init
<1>2. \A cl \in Clients : tx[cl] = Nothing
  BY <1>1, Zenon
<1>3. Shape
  BY <1>1, <1>2, Zenon DEF Shape, FdStates, OpenedOn
<1>4. LocksAccounted
  BY <1>1, Zenon DEF LocksAccounted
<1>5. Apart
  BY <1>2, Zenon DEF Apart, Granted
<1> QED
  BY <1>3, <1>4, <1>5, Zenon

\* Every step keeps the types, the account of the locks if unlocks are
\* answered, and what was granted apart if the volume is guarded.
LEMMA NextKeeps ==
  ASSUME Shape, [Next]_vars
  PROVE  /\ Shape'
         /\ UnlockAnswered /\ LocksAccounted => LocksAccounted'
         /\ Guarded /\ Apart => Apart'
<1>1. CASE \E cl \in Clients : \E op \in vol.ops : Start(cl, op)
  BY <1>1, StartKeeps, Zenon
<1>2. CASE \E cl \in Clients : \E c \in Children, k \in 1 .. 2 : Reply(cl, c, k)
  <2>1. PICK cl \in Clients, c \in Children, k \in 1 .. 2 : Reply(cl, c, k)
    BY <1>2, Zenon
  <2>2. \/ LiveReply(cl, c, k)
        \/ \/ LockGranted(cl, c, k) \/ LockConflicts(cl, c, k)
           \/ \E e \in Errnos : LockFails(cl, c, k, e)
        \/ Unlock(cl, c, k) \/ \E e \in Errnos : UnlockFails(cl, c, k, e)
    BY <2>1, Zenon DEF Reply, LiveReply
  <2> QED
    BY <2>2, LiveReplyKeeps, LockReplyKeeps, UnlockReplyKeeps, Zenon
<1>3. CASE \E cl \in Clients : \E c \in Children : Drop(cl, c)
  BY <1>3, DropKeeps, Zenon
<1>4. CASE \/ \E cl \in Clients, c \in Children : Reconnect(cl, c)
           \/ \E cl \in Clients : Reopen(cl) \/ Crash(cl)
           \/ \E c \in Children : Cleanup(c)
           \/ Rest \/ UNCHANGED vars
  BY <1>4, OthersKeep, Zenon
<1> QED
  BY <1>1, <1>2, <1>3, <1>4, Zenon DEF Next

\* If no child answers an unlock with an I/O error, an operation that is over
\* has given back every lock it holds on a child it is connected to, whatever
\* was granted, refused, lost or not supported on the way (afr_lock_rec,
\* afr_unlock).
THEOREM LocksGivenBack ==
  ASSUME UnlockAnswered
  PROVE  Spec => []NoLockLeft
<1>1. Init => Shape /\ LocksAccounted
  BY InitKeeps, Zenon
<1>2. Shape /\ LocksAccounted /\ [Next]_vars => (Shape /\ LocksAccounted)'
  BY NextKeeps, Zenon
<1>3. Shape /\ LocksAccounted => NoLockLeft
  <2>1. SUFFICES ASSUME Shape, LocksAccounted, NEW cl \in Clients, tx[cl].phase = "idle",
                        NEW c \in Children, NEW l \in locks[c], l.client = cl, ~ l.stale
                 PROVE  FALSE
    BY Zenon DEF NoLockLeft
  <2> QED
    BY <2>1, IdleIs, IdleHoldsNone, Zenon
<1> QED
  BY <1>1, <1>2, <1>3, PTL DEF Spec

\* If every child locks and operations lock what they change, or only one
\* client runs, two clients never perform operations on the same cell at the
\* same time on a child both reach, as long as LocksKept (afr_lock_rec takes the
\* locks before the fop, afr_unlock gives them back after it).
THEOREM LocksKeepWritersApart ==
  ASSUME Guarded
  PROVE  Spec => []WritersExclude
<1>1. Init => Shape /\ Apart
  BY InitKeeps, Zenon
<1>2. Shape /\ Apart /\ [Next]_vars => (Shape /\ Apart)'
  BY NextKeeps, Zenon
<1>3. Shape /\ Apart => WritersExclude
  <2>1. SUFFICES ASSUME Shape, Apart, LocksKept, NEW c \in Children, NEW m \in Clients, NEW n \in Clients,
                        m # n, tx[m].phase = "fop", c \in tx[m].up \cap child_up[m],
                        tx[n].phase = "fop", c \in tx[n].up \cap child_up[n],
                        NEW x \in tx[m].op.cells, x \in tx[n].op.cells
                 PROVE  FALSE
    BY Zenon DEF WritersExclude
  <2>2. tx[m] # Nothing /\ tx[n] # Nothing
    BY <2>1 DEF Nothing
  <2>3. /\ m \in vol.clients /\ n \in vol.clients /\ vol \in Setups
        /\ tx[m].op \in vol.ops /\ tx[n].op \in vol.ops
    BY <2>1, <2>2, Zenon DEF Shape, TxRec
  <2>4. Cardinality(vol.clients) # 1
    <3>1. SUFFICES ASSUME Cardinality(vol.clients) = 1 PROVE FALSE
      BY Zenon
    <3>2. IsFiniteSet(vol.clients)
      BY <2>3, AfrAssumption, Zenon
    <3>3. PICK y : vol.clients = {y}
      BY <3>1, <3>2, FS_Singleton, Zenon
    <3> QED
      BY <2>1, <2>3, <3>3, Zenon
  <2>5. Several
    BY <2>1, <2>4, Zenon DEF LocksKept, Several
  <2>a. \A op \in vol.ops : x \in op.cells => \E k \in DOMAIN op.locks : x \in op.locks[k]
    <3> SUFFICES ASSUME NEW op \in vol.ops, x \in op.cells
                 PROVE  \E k \in DOMAIN op.locks : x \in op.locks[k]
      OBVIOUS
    <3>1. op.cells \subseteq UNION {op.locks[k] : k \in DOMAIN op.locks}
      BY <2>3, <2>5, GuardedLocks, Zenon
    <3> QED
      BY <3>1, Zenon
  <2>6. PICK i \in DOMAIN tx[m].op.locks : x \in tx[m].op.locks[i]
    BY <2>1, <2>3, <2>a, Zenon
  <2>7. PICK j \in DOMAIN tx[n].op.locks : x \in tx[n].op.locks[j]
    BY <2>1, <2>3, <2>a, Zenon
  <2>8. i \in 1 .. 2 /\ j \in 1 .. 2
    BY <2>3, LocksOfOp, Zenon
  <2>9. Granted(m, c, i) /\ Granted(n, c, j)
    BY <2>1, <2>2, <2>6, <2>7, Zenon DEF Granted, Grant
  <2>10. tx[m].op.locks[i] \cap tx[n].op.locks[j] = {}
    BY <2>1, <2>5, <2>8, <2>9, Zenon DEF Apart
  <2> QED
    BY <2>6, <2>7, <2>10, Zenon
<1> QED
  BY <1>1, <1>2, <1>3, PTL DEF Spec

\* An operation asks a child for one lock.  Only where a single client runs may it
\* ask for two at once, for names that differ.
OneAtATime ==
  \A s \in Setups : \A op \in s.ops :
    \/ DOMAIN op.locks = 1 .. 1
    \/ Cardinality(s.clients) = 1 /\ op.locks[1] \cap op.locks[2] = {}

\* A set of children has a last one.
LEMMA LastChild ==
  ASSUME vol \in Setups, NEW S \in SUBSET Children, S # {}
  PROVE  \E x \in S : \A y \in S : y <= x
<1>1. vol.n \in Nat
  BY AfrAssumption, Zenon
<1> DEFINE T == {vol.n - y : y \in S}
<1>2. T \in SUBSET Nat /\ T # {}
  <2>1. \A y \in S : vol.n - y \in Nat
    BY <1>1 DEF Children
  <2> QED
    BY <2>1, Zenon
<1> HIDE DEF T
<1>3. Min(T) \in T /\ \A j \in T : Min(T) <= j
  BY <1>2, MinIsLeast, Zenon
<1>4. PICK x \in S : Min(T) = vol.n - x
  BY <1>3, Zenon DEF T
<1>5. ASSUME NEW y \in S PROVE y <= x
  <2>1. vol.n - y \in T
    BY Zenon DEF T
  <2>2. vol.n - x <= vol.n - y
    BY <1>3, <1>4, <2>1, Zenon
  <2>3. x \in Int /\ y \in Int
    BY DEF Children
  <2> QED
    BY <1>1, <2>2, <2>3, SMTT(30)
<1> QED
  BY <1>5, Zenon

\* Client cl waits for locks of child d, and has locks only of children below it.
AsksChild(cl, d) ==
  /\ tx[cl] # Nothing /\ tx[cl].phase = "lock"
  /\ \A call \in tx[cl].calls : \E k \in DOMAIN tx[cl].op.locks : call = <<d, k>>
  /\ tx[cl].calls # {} /\ \A c \in tx[cl].locked : c < d

\* A client that waits asks one child, and whom it waits for has a lock there.
LEMMA WaiterAsks ==
  ASSUME Shape, LocksAccounted, NEW cl \in Clients, NEW m, WaitsFor(cl, m)
  PROVE  \E d \in Children : /\ AsksChild(cl, d) /\ cl \in vol.clients /\ tx[cl].op \in vol.ops
                             /\ \E k \in DOMAIN tx[cl].op.locks : \E l \in locks[d] :
                                  /\ <<d, k>> \in tx[cl].calls
                                  /\ l.region \cap tx[cl].op.locks[k] # {}
                                  /\ Owed(tx[m], d, l)
<1>1. tx[cl].phase = "lock"
  BY Zenon DEF WaitsFor
<1>2. tx[cl] # Nothing
  BY <1>1 DEF Nothing
<1>3. cl \in vol.clients /\ tx[cl] \in TxRec /\ Fine(tx[cl])
  BY <1>2, Zenon DEF Shape
<1>4. PICK d \in Children : /\ tx[cl].calls # {}
                            /\ tx[cl].calls \subseteq {d} \X DOMAIN tx[cl].op.locks
                            /\ \A c \in tx[cl].locked : c < d
  BY <1>1, <1>3, Zenon DEF Fine
<1>5. \A call \in tx[cl].calls : \E k \in DOMAIN tx[cl].op.locks : call = <<d, k>>
  BY <1>4
<1>6. AsksChild(cl, d) /\ tx[cl].op \in vol.ops
  BY <1>1, <1>2, <1>3, <1>4, <1>5, Zenon DEF AsksChild, TxRec
<1>7. PICK call \in tx[cl].calls : \E l \in locks[call[1]] :
             l.client = m /\ ~ l.stale /\ l.region \cap tx[cl].op.locks[call[2]] # {}
  BY Zenon DEF WaitsFor
<1>8. PICK k \in DOMAIN tx[cl].op.locks : call = <<d, k>>
  BY <1>5, ZenonT(30)
<1>9. PICK l \in locks[d] : l.client = m /\ ~ l.stale /\ l.region \cap tx[cl].op.locks[k] # {}
  BY <1>7, <1>8, Zenon
<1>10. Owed(tx[m], d, l)
  BY <1>9, Zenon DEF LocksAccounted
<1> QED
  BY <1>3, <1>6, <1>7, <1>8, <1>9, <1>10, Zenon

\* If no child answers an unlock with an I/O error and clients that run beside each
\* other ask for one lock at a time, clients never wait for each other in a circle:
\* the children are asked in their order, so who waits at the last child waits for
\* nobody who waits (afr_lock_rec).
THEOREM LocksNeverCircle ==
  ASSUME UnlockAnswered, OneAtATime
  PROVE  Spec => []NoCircularWait
<1>1. Init => Shape /\ LocksAccounted
  BY InitKeeps, Zenon
<1>2. Shape /\ LocksAccounted /\ [Next]_vars => (Shape /\ LocksAccounted)'
  BY NextKeeps, Zenon
<1>3. Shape /\ LocksAccounted => NoCircularWait
  <2>1. SUFFICES ASSUME Shape, LocksAccounted, NEW S \in SUBSET vol.clients, S # {},
                        \A cl \in S : \E m \in S : WaitsFor(cl, m)
                 PROVE  FALSE
    BY Zenon DEF NoCircularWait
  <2>2. vol \in Setups /\ S \subseteq Clients
    BY <2>1, AfrAssumption, Zenon DEF Shape
  <2> DEFINE D == {d \in Children : \E cl \in S : AsksChild(cl, d)}
  <2>3. \A cl \in S : \E d \in D : AsksChild(cl, d)
    BY <2>1, <2>2, WaiterAsks, Zenon
  <2>4. D \in SUBSET Children /\ D # {}
    BY <2>1, <2>3, Zenon
  <2>5. PICK d \in D : \A y \in D : y <= d
    BY <2>2, <2>4, LastChild, Zenon
  <2>6. PICK cl \in S : AsksChild(cl, d)
    BY <2>5, Zenon
  <2>7. PICK m \in S : WaitsFor(cl, m)
    BY <2>1, Zenon
  <2>a. PICK e \in Children, k \in DOMAIN tx[cl].op.locks :
               /\ AsksChild(cl, e) /\ <<e, k>> \in tx[cl].calls
               /\ \E l \in locks[e] : /\ l.region \cap tx[cl].op.locks[k] # {}
                                     /\ Owed(tx[m], e, l)
    BY <2>1, <2>2, <2>7, WaiterAsks, Zenon
  <2>8. PICK l \in locks[e] : /\ AsksChild(cl, e) /\ <<e, k>> \in tx[cl].calls
                              /\ l.region \cap tx[cl].op.locks[k] # {}
                              /\ Owed(tx[m], e, l)
    BY <2>a, Zenon
  <2>9. e = d
    <3>1. \E j : <<e, k>> = <<d, j>>
      BY <2>6, <2>8, Zenon DEF AsksChild
    <3> QED
      BY <3>1, Zenon
  <2>10. PICK f \in D : AsksChild(m, f)
    BY <2>3, Zenon
  <2>11. f <= d /\ f \in Int /\ d \in Int
    BY <2>5, SMTT(30) DEF Children
  <2>12. ~ (d < f)
    BY <2>11
  <2>13. Partly(tx[m], d, l)
    <3>1. tx[m].phase = "lock" /\ (d \in tx[m].locked => d < f)
      BY <2>10, Zenon DEF AsksChild
    <3> QED
      BY <2>8, <2>9, <2>12, <3>1, Zenon DEF Owed
  <2>14. PICK i \in DOMAIN tx[m].op.locks : /\ l.region = tx[m].op.locks[i]
                                            /\ <<d, i>> \notin tx[m].calls
    BY <2>13, Zenon DEF Partly
  <2>15. PICK j \in DOMAIN tx[m].op.locks : <<d, j>> \in tx[m].calls
    <3>1. PICK call \in tx[m].calls : TRUE
      BY <2>10, Zenon DEF AsksChild
    <3>2. PICK j \in DOMAIN tx[m].op.locks : call = <<f, j>>
      BY <2>10, <3>1, Zenon DEF AsksChild
    <3>3. call[1] = d
      BY <2>13, <3>1, Zenon DEF Partly
    <3>4. f = d
      BY <3>2, <3>3, Zenon
    <3> QED
      BY <3>1, <3>2, <3>4, Zenon
  <2>16. i # j
    BY <2>14, <2>15, Zenon
  <2>17. /\ tx[m].op \in vol.ops /\ tx[cl].op \in vol.ops
         /\ m \in vol.clients /\ cl \in vol.clients
    BY <2>1, <2>2, <2>7, WaiterAsks, Zenon
  <2>18. DOMAIN tx[m].op.locks # 1 .. 1
    BY <2>16
  <2>19. Cardinality(vol.clients) = 1 /\ tx[m].op.locks[1] \cap tx[m].op.locks[2] = {}
    BY <2>2, <2>17, <2>18, ZenonT(30) DEF OneAtATime
  <2>20. m = cl
    <3>1. IsFiniteSet(vol.clients)
      BY <2>2, AfrAssumption, Zenon
    <3>2. PICK y : vol.clients = {y}
      BY <2>19, <3>1, FS_Singleton, Zenon
    <3> QED
      BY <2>17, <3>2, Zenon
  <2>21. i \in 1 .. 2 /\ k \in 1 .. 2
    BY <2>2, <2>8, <2>14, <2>17, LocksOfOp, Zenon
  <2>22. i # k
    BY <2>8, <2>9, <2>14, <2>20, Zenon
  <2>23. tx[m].op.locks[i] \cap tx[m].op.locks[k] # {}
    BY <2>8, <2>14, <2>20, Zenon
  <2> QED
    BY <2>19, <2>21, <2>22, <2>23, SMTT(30)
<1> QED
  BY <1>1, <1>2, <1>3, PTL DEF Spec
=============================================================================
