------------------------- MODULE WriteBehindProofs -------------------------
(***************************************************************************)
(* Proof that write-behind never glues requests that are not adjacent into *)
(* one writev, for every number of writes, every aggregate and window size *)
(* and every order of replies, as long as one thread delivers the writes.  *)
(***************************************************************************)
EXTENDS WriteBehind, FiniteSetTheorems, TLAPS

\* Request k starts where the request before it ends.
Adjacent(k) == log[k].off = log[k - 1].off + log[k - 1].len

\* S is a run of consecutive, adjacent requests.
Run(S) ==
  /\ \A i, j \in S : \A k \in Ids : i <= k /\ k <= j => k \in S
  /\ \A i \in S : i - 1 \in S => Adjacent(i)

Unsent == queue \ stack_wound

\* Requests and calls have the shape the proof relies on.
Shape ==
  /\ log \in Seq([off : Nat, len : Nat])
  /\ offset \in Nat
  /\ queue \subseteq Ids
  /\ stack_wound \subseteq Ids
  /\ got_reply \subseteq stack_wound
  /\ pc \in [Threads -> Threadpc]
  /\ winds \in [Threads -> SUBSET stack_wound]
  /\ DOMAIN arg = Threads
  /\ wire \in Seq(Message)
  /\ \A n \in DOMAIN wire : wire[n].op = "writev" => wire[n].ids \subseteq stack_wound

\* The requests not sent yet are the tail of the log, adjacent to each other
\* and to the offset the file expects next.
TailAdjacent ==
  /\ \A i \in Unsent : \A j \in Ids : i <= j => j \in Unsent
  /\ \A i \in Unsent : i - 1 \in Unsent => Adjacent(i)
  /\ log # <<>> => offset = log[Len(log)].off + log[Len(log)].len

WriteArg == [op : {"writev"}, off : Nat, len : Nat]
CallArg == [op : Calls \cup {"bg_flush"}, ids : SUBSET Ids]

\* What a thread carries between its steps; one about to enqueue either
\* continues the tail or starts a new one.
ThreadsConsistent ==
  \A t \in Threads :
    /\ pc[t] \in {"direct", "flush_all", "flush_unwind", "flush_sync", "enqueue"} =>
         t \in Callers /\ arg[t] \in WriteArg
    /\ pc[t] \in {"flush_unwind", "flush_sync"} => Unsent = {}
    /\ pc[t] = "enqueue" => Unsent = {} \/ arg[t].off = offset
    /\ pc[t] \in {"sync_all", "call"} => arg[t] \in CallArg

WindsAreRuns == \A t \in Threads : Run(winds[t])

IInv == Shape /\ TailAdjacent /\ ThreadsConsistent /\ WindsAreRuns /\ BatchContiguous
-----------------------------------------------------------------------------
(* Lemmas about sequences, sets of naturals and batches.                   *)

\* The elements of a sequence.
LEMMA ElementOfSeq ==
  ASSUME NEW S, NEW s \in Seq(S), NEW n \in 1 .. Len(s)
  PROVE  s[n] \in S
  OBVIOUS

\* Appending to a sequence (the log, the wire) leaves what it holds.
LEMMA AppendProperties ==
  ASSUME NEW S, NEW s \in Seq(S), NEW e \in S
  PROVE  /\ Append(s, e) \in Seq(S) /\ Len(Append(s, e)) = Len(s) + 1
         /\ \A i \in 1 .. Len(s) : Append(s, e)[i] = s[i]
         /\ Append(s, e)[Len(s) + 1] = e
  OBVIOUS

\* Changing one place of a sequence (the reply on the wire) leaves the others.
LEMMA ExceptSeq ==
  ASSUME NEW S, NEW s \in Seq(S), NEW i \in 1 .. Len(s), NEW e \in S
  PROVE  /\ [s EXCEPT ![i] = e] \in Seq(S) /\ Len([s EXCEPT ![i] = e]) = Len(s)
         /\ \A j \in 1 .. Len(s) : [s EXCEPT ![i] = e][j] = IF j = i THEN e ELSE s[j]
  OBVIOUS

\* A non-empty set of naturals has a least element, the one Min chooses.
LEMMA MinIsLeast ==
  ASSUME NEW S \in SUBSET Nat, S # {}
  PROVE  Min(S) \in S /\ \A j \in S : Min(S) <= j
<1>1. \E x \in S : \A y \in S : ~ (<<y, x>> \in OpToRel(<, Nat))
  BY NatLessThanWellFounded, WFMin, Zenon
<1>2. PICK x \in S : \A y \in S : ~ (<<y, x>> \in OpToRel(<, Nat))
  BY <1>1, Zenon
<1>3. \A y \in S : x <= y
  <2>1. SUFFICES ASSUME NEW y \in S, ~ (x <= y) PROVE FALSE
    OBVIOUS
  <2>2. <<y, x>> \in Nat \X Nat /\ y < x
    BY <2>1
  <2>3. <<y, x>> \in OpToRel(<, Nat)
    BY <2>2, Zenon DEF OpToRel
  <2>4. QED BY <2>3, <1>2, Zenon
<1>4. QED BY <1>3, Zenon DEF Min

\* wb_sync takes a non-empty prefix of its winds list.
LEMMA BatchIsPrefix ==
  ASSUME NEW n \in Nat, NEW S \in SUBSET (1 .. n), S # {}
  PROVE  /\ Batch(S) \subseteq S
         /\ Batch(S) # {}
         /\ \A i \in S, j \in Batch(S) : i <= j => i \in Batch(S)
<1>i. S \subseteq Int
  OBVIOUS
<1>0. IsFiniteSet(1 .. n)
  BY FS_Interval
<1>1. IsFiniteSet(S)
  BY <1>0, FS_Subset, Zenon
<1>2. ASSUME NEW i \in S, NEW j \in Batch(S), i <= j
      PROVE  i \in Batch(S)
  <2> DEFINE I == {k \in S : k <= i}
             J == {k \in S : k <= j}
  <2>1. j \in S /\ Cardinality(J) <= MaxVector
    BY Zenon DEF Batch
  <2>2. I \in SUBSET J
    <3>1. ASSUME NEW k \in I PROVE k \in J
      <4>1. k \in Int /\ i \in Int /\ j \in Int /\ k <= i /\ i <= j
        BY <1>i, <1>2, <2>1, Zenon
      <4>2. k <= j
        BY <4>1
      <4>3. QED BY <4>2, Zenon
    <3>2. QED BY <3>1, Zenon
  <2>a. J \in SUBSET S
    OBVIOUS
  <2>3. IsFiniteSet(J)
    BY <1>1, <2>a, FS_Subset, Zenon
  <2>b. IsFiniteSet(I)
    BY <2>2, <2>3, FS_Subset, Zenon
  <2>4. Cardinality(I) <= Cardinality(J) /\ Cardinality(I) \in Nat /\ Cardinality(J) \in Nat
    BY <2>2, <2>3, <2>b, FS_Subset, FS_CardinalityType, Zenon
  <2>5. Cardinality(I) <= MaxVector
    BY <2>1, <2>4, WBAssumption
  <2>6. QED BY <2>5, Zenon DEF Batch
<1>3. Batch(S) # {}
  <2>1. Min(S) \in S /\ \A j \in S : Min(S) <= j
    BY MinIsLeast
  <2>2. {k \in S : k <= Min(S)} = {Min(S)}
    <3>1. ASSUME NEW k \in S, k <= Min(S) PROVE k = Min(S)
      <4>1. k \in Int /\ Min(S) \in Int /\ Min(S) <= k
        BY <1>i, <2>1, Zenon
      <4>2. QED BY <3>1, <4>1
    <3>2. Min(S) <= Min(S)
      BY <2>1, Zenon
    <3>3. QED BY <2>1, <3>1, <3>2, Zenon
  <2>3. Cardinality({k \in S : k <= Min(S)}) = 1
    <3> HIDE DEF Min
    <3> QED BY <2>2, FS_Singleton, Zenon
  <2>4. Min(S) \in Batch(S)
    BY <2>1, <2>3, WBAssumption DEF Batch
  <2>5. QED BY <2>4, Zenon
<1>4. QED BY <1>2, <1>3, Zenon DEF Batch
-----------------------------------------------------------------------------
(* The invariant is inductive: one lemma per group of actions.             *)

\* A file nobody has written to satisfies the invariant.
LEMMA InitIInv == Init => IInv
<1> SUFFICES ASSUME Init PROVE IInv
  OBVIOUS
<1>1. Ids = {} /\ DOMAIN wire = {}
  BY DEF Init, Ids
<1>2. Shape
  BY <1>1 DEF Init, Shape, Threadpc
<1>3. TailAdjacent /\ WindsAreRuns /\ BatchContiguous
  BY <1>1, Zenon DEF Init, TailAdjacent, Unsent, WindsAreRuns, Run, BatchContiguous
<1>4. ThreadsConsistent
  BY Zenon DEF Init, ThreadsConsistent
<1>5. QED BY <1>2, <1>3, <1>4, Zenon DEF IInv

\* Steps that leave the request list alone and add at most one call to the
\* wire that is not a batch, or answer one.
QuietWire ==
  \/ wire' = wire
  \/ \E op \in Calls \cup {"direct", "bg_flush"}, ids \in SUBSET Ids, off \in Nat :
       wire' = Append(wire, Call(op, ids, off))
  \/ \E n \in DOMAIN wire, r \in {"ok", "err"} : wire' = [wire EXCEPT ![n].reply = r]

\* A step that is quiet in that sense keeps the invariant.
LEMMA QuietStep ==
  ASSUME IInv, QuietWire, UNCHANGED <<offset, log, queue, stack_wound, winds>>,
         got_reply' \subseteq stack_wound, pc' \in [Threads -> Threadpc], DOMAIN arg' = Threads,
         ThreadsConsistent'
  PROVE  IInv'
<1> USE DEF IInv
<1>0. Ids' = Ids
  BY Zenon DEF Ids
<1>w. wire \in Seq(Message) /\ DOMAIN wire = 1 .. Len(wire) /\ Len(wire) \in Nat
  BY DEF Shape
<1>1. /\ wire' \in Seq(Message)
      /\ \A n \in DOMAIN wire' : wire'[n].op = "writev" =>
           n \in DOMAIN wire /\ wire[n].op = "writev"
             /\ wire'[n].ids = wire[n].ids /\ wire'[n].off = wire[n].off
  <2>1. CASE wire' = wire
    BY <2>1, Zenon DEF Shape
  <2>2. ASSUME NEW op \in Calls \cup {"direct", "bg_flush"}, NEW ids \in SUBSET Ids,
               NEW off \in Nat, wire' = Append(wire, Call(op, ids, off))
        PROVE  <1>1
    <3>1. Call(op, ids, off) \in Message /\ Call(op, ids, off).op # "writev"
      BY Zenon DEF Call, Calls, Message
    <3>2. /\ Append(wire, Call(op, ids, off)) \in Seq(Message)
          /\ DOMAIN Append(wire, Call(op, ids, off)) = 1 .. Len(wire) + 1
          /\ \A n \in 1 .. Len(wire) : Append(wire, Call(op, ids, off))[n] = wire[n]
          /\ Append(wire, Call(op, ids, off))[Len(wire) + 1] = Call(op, ids, off)
      BY <3>1, <1>w, AppendProperties
    <3>3. \A n \in DOMAIN wire' : n \in 1 .. Len(wire) \/ n = Len(wire) + 1
      BY <2>2, <3>2, <1>w
    <3>4. QED BY <2>2, <3>1, <3>2, <3>3, <1>w, Zenon
  <2>3. ASSUME NEW n \in DOMAIN wire, NEW r \in {"ok", "err"}, 
               wire' = [wire EXCEPT ![n].reply = r]
        PROVE  <1>1
    <3>1. wire[n] \in Message
      BY <1>w, ElementOfSeq, Zenon
    <3>2. [wire[n] EXCEPT !.reply = r] \in Message
      BY <3>1, Zenon DEF Message
    <3>3. wire' \in Seq(Message)
      <4>1. wire' = [wire EXCEPT ![n] = [wire[n] EXCEPT !.reply = r]]
        BY <2>3, Zenon
      <4>2. QED BY <4>1, <3>2, <1>w, ExceptSeq, Zenon
    <3>4. QED BY <2>3, <3>1, <3>3, <1>w, Zenon DEF Message
  <2>4. QED BY <2>1, <2>2, <2>3, Zenon DEF QuietWire
<1>2. Shape'
  BY <1>0, <1>1, Zenon DEF Shape, Message
<1>3. TailAdjacent' /\ WindsAreRuns'
  BY <1>0, Zenon DEF TailAdjacent, Unsent, WindsAreRuns, Run, Adjacent
<1>4. BatchContiguous'
  BY <1>0, <1>1 DEF BatchContiguous
<1>5. QED BY <1>2, <1>3, <1>4, Zenon

\* A critical section that takes all or none of the unsent requests for thread
\* t and frees only requests already sent keeps the invariant.
LEMMA TakeStep ==
  ASSUME IInv, NEW t \in Threads, NEW w, w = {} \/ w = Unsent,
         queue' \subseteq queue, queue \ stack_wound \subseteq queue',
         stack_wound' = stack_wound \cup w, winds' = [winds EXCEPT ![t] = w],
         UNCHANGED <<offset, log, wire, got_reply>>,
         pc' \in [Threads -> Threadpc], DOMAIN arg' = Threads, ThreadsConsistent'
  PROVE  IInv'
<1> USE DEF IInv
<1>0. Ids' = Ids
  BY Zenon DEF Ids
<1>1. w \subseteq Ids /\ Unsent' = Unsent \ w /\ (Unsent' = {} \/ Unsent' = Unsent)
  BY Zenon DEF Unsent, Shape
<1>2. Shape'
  <2>1. winds' \in [Threads -> SUBSET stack_wound']
    BY Zenon DEF Shape
  <2>2. QED BY <2>1, <1>0, <1>1, Zenon DEF Shape, Message
<1>3. TailAdjacent'
  BY <1>0, <1>1, Zenon DEF TailAdjacent, Adjacent
<1>4. WindsAreRuns'
  <2>1. Run(w)
    BY <1>1, Zenon DEF Run, TailAdjacent
  <2>2. ASSUME NEW u \in Threads PROVE Run(winds[u])'
    <3>1. winds'[u] = w \/ winds'[u] = winds[u]
      BY Zenon DEF Shape
    <3>2. QED BY <3>1, <2>1, <1>0, Zenon DEF WindsAreRuns, Run, Adjacent
  <2>3. QED BY <2>2, Zenon DEF WindsAreRuns
<1>5. BatchContiguous'
  BY Zenon DEF BatchContiguous
<1>6. QED BY <1>2, <1>3, <1>4, <1>5, Zenon

\* wb_sync sends a prefix of its winds list as one contiguous write.
LEMMA SyncStep ==
  ASSUME IInv, NEW t \in Threads, winds[t] # {},
         wire' = Append(wire, Call("writev", Batch(winds[t]), log[Min(Batch(winds[t]))].off)),
         winds' = [winds EXCEPT ![t] = @ \ Batch(winds[t])],
         UNCHANGED <<offset, log, queue, stack_wound, got_reply, pc, arg>>
  PROVE  IInv'
<1> USE DEF IInv
<1> DEFINE S == winds[t]
           b == Batch(winds[t])
           m == Call("writev", b, log[Min(b)].off)
<1>0. Ids' = Ids /\ Unsent' = Unsent
  BY Zenon DEF Ids, Unsent
<1>1. /\ Len(log) \in Nat /\ DOMAIN log = Ids /\ Ids = 1 .. Len(log)
      /\ S \subseteq stack_wound /\ S \subseteq Ids /\ Run(S)
      /\ log \in Seq([off : Nat, len : Nat])
  <2>1. log \in Seq([off : Nat, len : Nat])
    BY Zenon DEF Shape
  <2>2. Len(log) \in Nat /\ DOMAIN log = Ids /\ Ids = 1 .. Len(log)
    BY <2>1 DEF Ids
  <2>3. S \subseteq stack_wound /\ S \subseteq Ids
    BY Zenon DEF Shape
  <2>4. QED BY <2>1, <2>2, <2>3, Zenon DEF WindsAreRuns
<1>2. /\ b \subseteq S
      /\ b # {}
      /\ \A i \in S, j \in b : i <= j => i \in b
  <2>1. Len(log) \in Nat /\ S \in SUBSET (1 .. Len(log)) /\ S # {}
    BY <1>1, Zenon
  <2> HIDE DEF S
  <2>2. /\ Batch(S) \subseteq S
        /\ Batch(S) # {}
        /\ \A i \in S, j \in Batch(S) : i <= j => i \in Batch(S)
    BY <2>1, BatchIsPrefix, Zenon
  <2>3. QED BY <2>2, Zenon DEF S
<1> HIDE DEF b
<1>3. Min(b) \in b /\ \A j \in b : Min(b) <= j
  <2>1. \A n \in Nat : 1 .. n \subseteq Nat
    OBVIOUS
  <2>2. b \subseteq 1 .. Len(log)
    BY <1>1, <1>2, Zenon
  <2>3. b \in SUBSET Nat
    BY <1>1, <2>1, <2>2, Zenon
  <2>4. QED BY <2>3, <1>2, MinIsLeast, Zenon
<1>m. Min(b) \in Ids
  BY <1>1, <1>2, <1>3, Zenon
<1> HIDE DEF Min
<1>4. \A i \in b : i > Min(b) => i - 1 \in b /\ Adjacent(i)
  <2>1. SUFFICES ASSUME NEW i \in b, i > Min(b) PROVE i - 1 \in b /\ Adjacent(i)
    OBVIOUS
  <2>2. i \in Int /\ Min(b) \in Int /\ i \in S /\ Min(b) \in S /\ i \in Ids
    BY <1>1, <1>2, <1>3
  <2>3. i - 1 \in Ids /\ Min(b) <= i - 1 /\ i - 1 <= i
    <3>1. \A n \in Nat : \A x, y \in 1 .. n :
            y > x => y - 1 \in 1 .. n /\ x <= y - 1 /\ y - 1 <= y
      OBVIOUS
    <3>2. QED BY <3>1, <2>1, <2>2, <1>m, <1>1, Zenon
  <2>4. i - 1 \in S
    BY <2>2, <2>3, <1>1, Zenon DEF Run
  <2>5. i - 1 \in b
    BY <2>3, <2>4, <1>2, Zenon
  <2>6. QED BY <2>2, <2>4, <2>5, <1>1, Zenon DEF Run
<1>5. m \in Message /\ m.op = "writev" /\ m.ids = b /\ m.off = log[Min(b)].off
  <2>1. log[Min(b)] \in [off : Nat, len : Nat]
    BY <1>1, <1>m, ElementOfSeq, Zenon
  <2>2. QED BY <2>1, <1>1, <1>2, Zenon DEF Call, Message
<1> HIDE DEF m
<1>w. wire \in Seq(Message) /\ DOMAIN wire = 1 .. Len(wire) /\ Len(wire) \in Nat
  BY DEF Shape
<1>6. /\ wire' \in Seq(Message)
      /\ DOMAIN wire' = 1 .. Len(wire) + 1
      /\ \A n \in 1 .. Len(wire) : wire'[n] = wire[n]
      /\ wire'[Len(wire) + 1] = m
  <2>1. wire' = Append(wire, m)
    BY Zenon DEF m, b
  <2>2. QED BY <2>1, <1>5, <1>w, AppendProperties
<1>7. \A n \in DOMAIN wire' : (n \in DOMAIN wire /\ wire'[n] = wire[n]) \/ wire'[n] = m
  BY <1>6, <1>w
<1>8. Shape'
  <2>1. winds' \in [Threads -> SUBSET stack_wound]
    BY Zenon DEF Shape
  <2>2. \A n \in DOMAIN wire' : wire'[n].op = "writev" => wire'[n].ids \subseteq stack_wound
    BY <1>7, <1>5, <1>2, <1>1, Zenon DEF Shape
  <2>3. QED BY <2>1, <2>2, <1>0, <1>6, Zenon DEF Shape, Message
<1>9. TailAdjacent' /\ ThreadsConsistent'
  BY <1>0, Zenon DEF TailAdjacent, Adjacent, ThreadsConsistent, CallArg
<1>10. WindsAreRuns'
  <2>1. Run(S \ b)
    <3>1. ASSUME NEW i \in S \ b, NEW j \in S \ b, NEW k \in Ids, i <= k, k <= j
          PROVE  k \in S \ b
      BY <3>1, <1>1, <1>2, Zenon DEF Run
    <3>2. QED BY <3>1, <1>1, Zenon DEF Run
  <2>2. ASSUME NEW u \in Threads PROVE Run(winds[u])'
    <3>1. winds'[u] = S \ b \/ winds'[u] = winds[u]
      BY Zenon DEF Shape, b
    <3>2. QED BY <3>1, <2>1, <1>0, Zenon DEF WindsAreRuns, Run, Adjacent
  <2>3. QED BY <2>2, Zenon DEF WindsAreRuns
<1>11. BatchContiguous'
  <2>1. SUFFICES ASSUME NEW n \in DOMAIN wire', wire'[n].op = "writev"
                 PROVE  /\ wire'[n].ids # {}
                        /\ log[Min(wire'[n].ids)].off = wire'[n].off
                        /\ \A i \in wire'[n].ids : i > Min(wire'[n].ids) =>
                             /\ i - 1 \in wire'[n].ids
                             /\ log[i].off = log[i - 1].off + log[i - 1].len
    BY Zenon DEF BatchContiguous
  <2>2. CASE wire'[n] = m
    BY <2>2, <1>5, <1>4, <1>2, Zenon DEF Adjacent
  <2>3. CASE n \in DOMAIN wire /\ wire'[n] = wire[n]
    BY <2>1, <2>3, Zenon DEF BatchContiguous
  <2>4. QED BY <2>2, <2>3, <1>7, Zenon
<1>12. QED BY <1>8, <1>9, <1>10, <1>11, Zenon

\* wb_enqueue by the only thread that writes: the new request continues the
\* unsent tail or starts a new one.
LEMMA EnqueueStep ==
  ASSUME IInv, NEW t \in Callers, Callers = {t}, Enqueue(t)
  PROVE  IInv'
<1> USE DEF IInv
<1> DEFINE r == [off |-> arg[t].off, len |-> arg[t].len]
           k == Len(log) + 1
<1>1. t \in Threads /\ pc[t] = "enqueue" /\ arg[t] \in WriteArg
      /\ (Unsent = {} \/ arg[t].off = offset)
  BY Zenon DEF Threads, Enqueue, ThreadsConsistent
<1>2. r \in [off : Nat, len : Nat] /\ r.off = arg[t].off /\ r.len = arg[t].len
  BY <1>1, Zenon DEF WriteArg
<1>l. log \in Seq([off : Nat, len : Nat]) /\ DOMAIN log = Ids /\ Ids = 1 .. Len(log)
      /\ Len(log) \in Nat
  BY DEF Shape, Ids
<1>3. /\ log' \in Seq([off : Nat, len : Nat])
      /\ Len(log') = k
      /\ \A i \in Ids : log'[i] = log[i]
      /\ log'[k] = r
  <2> HIDE DEF r
  <2> QED BY <1>2, <1>l, AppendProperties DEF Enqueue, r
<1>4. Ids' = 1 .. k /\ Ids' = Ids \cup {k} /\ k \notin Ids
  BY <1>3, <1>l, SMTT(30) DEF Ids
<1>5. Unsent' = Unsent \cup {k} /\ Unsent \subseteq Ids
  BY <1>4, Zenon DEF Enqueue, Unsent, Shape
<1>6. \A i \in Ids : i - 1 \in Ids => (Adjacent(i)' <=> Adjacent(i))
  BY <1>3, Zenon DEF Adjacent
<1>7. Shape'
  <2>1. offset' \in Nat
    BY <1>2 DEF Enqueue
  <2>2. wire' \in Seq(Message') /\ \A n \in DOMAIN wire' : wire'[n] \in Message'
    <3>1. Message \subseteq Message'
      BY <1>4, Zenon DEF Message
    <3>2. wire' = wire /\ wire \in Seq(Message)
      BY Zenon DEF Enqueue, Shape
    <3>3. QED BY <3>1, <3>2
  <2>3. pc' \in [Threads -> Threadpc] /\ DOMAIN arg' = Threads
    BY Zenon DEF Enqueue, Goto, Shape, Threadpc
  <2>4. queue' \subseteq Ids' /\ stack_wound' \subseteq Ids' /\ got_reply' \subseteq stack_wound'
        /\ winds' \in [Threads -> SUBSET stack_wound']
    BY <1>4, Zenon DEF Enqueue, Shape
  <2>5. \A n \in DOMAIN wire' : wire'[n].op = "writev" => wire'[n].ids \subseteq stack_wound'
    BY Zenon DEF Enqueue, Shape
  <2>6. QED BY <1>3, <2>1, <2>2, <2>3, <2>4, <2>5, Zenon DEF Shape
<1>8. TailAdjacent'
  <2>1. \A i \in Unsent' : \A j \in Ids' : i <= j => j \in Unsent'
    BY <1>4, <1>5, <1>l, SMTT(30) DEF TailAdjacent
  <2>2. ASSUME NEW i \in Unsent', i - 1 \in Unsent' PROVE Adjacent(i)'
    <3>1. CASE i \in Unsent
      <4>1. i - 1 \in Unsent
        BY <2>2, <3>1, <1>5, <1>l, SMTT(30)
      <4>2. QED BY <3>1, <4>1, <1>5, <1>6, Zenon DEF TailAdjacent
    <3>2. CASE i = k
      <4>0. k - 1 = Len(log) /\ k - 1 # k
        <5>1. \A x \in Nat : (x + 1) - 1 = x /\ (x + 1) - 1 # x + 1
          OBVIOUS
        <5>2. QED BY <5>1, <1>l, Zenon
      <4>1. k - 1 = Len(log) /\ Len(log) \in Unsent
        BY <4>0, <2>2, <3>2, <1>5, Zenon
      <4>2. log # <<>> /\ arg[t].off = offset /\ Len(log) \in Ids
        BY <4>1, <1>1, <1>5, <1>l
      <4>3. offset = log[Len(log)].off + log[Len(log)].len
        BY <4>2, Zenon DEF TailAdjacent
      <4>4. QED BY <3>2, <4>1, <4>2, <4>3, <1>2, <1>3, Zenon DEF Adjacent
    <3>3. QED BY <3>1, <3>2, <1>5, Zenon
  <2>3. offset' = log'[Len(log')].off + log'[Len(log')].len
    BY <1>2, <1>3, Zenon DEF Enqueue
  <2>4. QED BY <2>1, <2>2, <2>3, Zenon DEF TailAdjacent
<1>9. ThreadsConsistent'
  <2>1. ASSUME NEW u \in Threads PROVE /\ u = t => pc'[u] = "process"
                                       /\ u # t => pc'[u] = pc[u] /\ arg'[u] = arg[u]
    BY Zenon DEF Enqueue, Goto, Shape
  <2>2. \A u \in Threads : u # t => u \notin Callers
    OBVIOUS
  <2>3. CallArg \subseteq CallArg'
    BY <1>4, Zenon DEF CallArg
  <2>4. QED BY <2>1, <2>2, <2>3, Zenon DEF ThreadsConsistent
<1>10. WindsAreRuns'
  <2>1. ASSUME NEW u \in Threads PROVE Run(winds[u])'
    <3>1. winds'[u] = winds[u] /\ winds[u] \subseteq Ids /\ Run(winds[u])
      BY Zenon DEF Enqueue, Shape, WindsAreRuns
    <3>2. ASSUME NEW i \in winds[u], NEW j \in winds[u], NEW l \in Ids', i <= l, l <= j
          PROVE  l \in winds[u]
      BY <3>1, <3>2, <1>4, <1>l DEF Run
    <3>3. ASSUME NEW i \in winds[u], i - 1 \in winds[u] PROVE Adjacent(i)'
      BY <3>1, <3>3, <1>6, Zenon DEF Run
    <3>4. QED BY <3>1, <3>2, <3>3, Zenon DEF Run
  <2>2. QED BY <2>1, Zenon DEF WindsAreRuns
<1>11. BatchContiguous'
  <2>1. ASSUME NEW n \in DOMAIN wire, wire[n].op = "writev"
        PROVE  wire[n].ids \subseteq Ids
    BY <2>1, Zenon DEF Shape
  <2>2. wire' = wire
    BY Zenon DEF Enqueue
  <2>3. ASSUME NEW n \in DOMAIN wire, wire[n].op = "writev"
        PROVE  Min(wire[n].ids) \in Ids
    <3>1. wire[n].ids # {} /\ wire[n].ids \in SUBSET Nat
      BY <2>1, <2>3, <1>l DEF BatchContiguous
    <3>2. QED BY <3>1, <2>1, <2>3, MinIsLeast, Zenon
  <2> HIDE DEF Min
  <2>4. QED BY <2>1, <2>2, <2>3, <1>3, SMTT(30) DEF BatchContiguous
<1>12. QED BY <1>7, <1>8, <1>9, <1>10, <1>11, Zenon

\* The process step and the flush_all step of wb_process_queue.
LEMMA ProcessStep ==
  ASSUME IInv, NEW t \in Threads, NEW agg, NEW from, NEW next,
         \/ from = "process" /\ next = "unwind"
         \/ from = "flush_all" /\ next = "flush_unwind" /\ agg = 0,
         pc[t] = from, ProcessQueue(t, agg, next), UNCHANGED <<offset, wire, arg>>
  PROVE  IInv'
<1> DEFINE w == MarkWinds(CleanupQueue, agg)
<1>0. Shape /\ ThreadsConsistent /\ Ids' = Ids
  BY Zenon DEF IInv, ProcessQueue, Ids
<1>1. queue' \subseteq queue /\ queue \ stack_wound \subseteq queue'
  BY <1>0, Zenon DEF ProcessQueue, CleanupQueue, Shape
<1>2. (w = {} \/ w = Unsent) /\ (agg = 0 => w = Unsent)
  BY <1>0, Zenon DEF MarkWinds, CleanupQueue, Unsent, Shape
<1>3. stack_wound' = stack_wound \cup w /\ winds' = [winds EXCEPT ![t] = w]
      /\ UNCHANGED <<log, got_reply>> /\ pc' = [pc EXCEPT ![t] = next]
  BY Zenon DEF ProcessQueue
<1> HIDE DEF w
<1>4. pc' \in [Threads -> Threadpc] /\ \A u \in Threads : pc'[u] = pc[u] \/ (u = t /\ pc'[u] = next)
  BY <1>0, <1>3, Zenon DEF Shape, Threadpc
<1>5. Unsent' = Unsent \ w /\ (Unsent = {} => Unsent' = {}) /\ (agg = 0 => Unsent' = {})
  BY <1>1, <1>2, <1>3, Zenon DEF Unsent
<1>6. ThreadsConsistent'
  BY <1>0, <1>4, <1>5, Zenon DEF ThreadsConsistent, CallArg
<1>7. QED BY <1>0, <1>1, <1>2, <1>3, <1>4, <1>6, TakeStep, Zenon DEF Shape

\* wb_sync_all takes everything that is unsent.
LEMMA SyncAllStep ==
  ASSUME IInv, NEW t \in Threads, NEW op \in Calls, SyncAll(t, op)
  PROVE  IInv'
<1> DEFINE w == MarkWinds(queue, SyncAllSize)
<1>0. Shape /\ ThreadsConsistent /\ Ids' = Ids
  BY Zenon DEF IInv, SyncAll, Ids
<1>1. w = Unsent
  BY Zenon DEF MarkWinds, Unsent, SyncAllSize
<1>2. stack_wound' = stack_wound \cup w /\ winds' = [winds EXCEPT ![t] = w]
      /\ UNCHANGED <<offset, log, wire, queue, got_reply>> /\ pc' = [pc EXCEPT ![t] = "sync_all"]
  BY Zenon DEF SyncAll, Goto, file
<1>3. /\ DOMAIN arg' = Threads
      /\ arg'[t] \in CallArg
      /\ \A u \in Threads : u # t => arg'[u] = arg[u]
  BY <1>0, Zenon DEF SyncAll, Shape, CallArg, Calls
<1> HIDE DEF w
<1>4. pc' \in [Threads -> Threadpc]
      /\ \A u \in Threads : (u # t /\ pc'[u] = pc[u]) \/ (u = t /\ pc'[u] = "sync_all")
  BY <1>0, <1>2, Zenon DEF Shape, Threadpc
<1>5. Unsent' = {}
  BY <1>1, <1>2, Zenon DEF Unsent
<1>6. ThreadsConsistent'
  BY <1>0, <1>3, <1>4, <1>5 DEF ThreadsConsistent, CallArg
<1>7. QED BY <1>0, <1>1, <1>2, <1>3, <1>4, <1>6, TakeStep, Zenon DEF Unsent

\* The steps that touch neither the request list nor a winds list.
LEMMA QuietActions ==
  ASSUME IInv, NEW c, Callers = {c}, NEW t \in Threads,
         \/ \E f \in OpenFlags : Open(f) \/ Create(f)
         \/ \E off \in Offsets, len \in Lengths : t \in Callers /\ Writev(t, off, len)
         \/ WritevDirect(t) \/ WindCall(t)
         \/ StackUnwind(t, "flush_unwind", "flush_sync") \/ StackUnwind(t, "unwind", "sync")
         \/ Sync(t, "flush_sync", "enqueue") /\ winds[t] = {}
         \/ Sync(t, "sync_all", "call") /\ winds[t] = {}
         \/ Sync(t, "sync", "idle") /\ winds[t] = {}
         \/ \E n \in DOMAIN wire, r \in {"ok", "err"} :
              SyncCbk(n, r) \/ PassCbk(n, r) \/ ReportCbk(n, r)
         \/ SyncCbkRet
         \/ Release
  PROVE  IInv'
<1>0. Shape /\ ThreadsConsistent
  BY Zenon DEF IInv
<1>p. Poller \in Threads
  BY Zenon DEF Threads
<1>t. pc \in [Threads -> Threadpc] /\ DOMAIN arg = Threads /\ got_reply \subseteq stack_wound
  BY <1>0, Zenon DEF Shape
<1> DEFINE Keeps == UNCHANGED <<offset, log, queue, stack_wound, winds>>
           Typed == pc' \in [Threads -> Threadpc] /\ DOMAIN arg' = Threads
<1>q. ASSUME Keeps, Typed, QuietWire, got_reply' \subseteq stack_wound, ThreadsConsistent'
      PROVE  IInv'
  BY <1>q, QuietStep, Zenon
<1>u. ASSUME Keeps PROVE Ids' = Ids /\ Unsent' = Unsent /\ CallArg' = CallArg
  BY <1>u, Zenon DEF Ids, Unsent, CallArg
<1>1. CASE \E f \in OpenFlags : Open(f) \/ Create(f)
  <2>1. Keeps /\ UNCHANGED <<pc, arg, wire, got_reply>>
    BY <1>1, Zenon DEF Open, Create, reqs, thread
  <2>2. QuietWire /\ ThreadsConsistent'
    BY <2>1, <1>0, <1>u, Zenon DEF QuietWire, ThreadsConsistent
  <2>3. QED BY <2>1, <2>2, <1>q, <1>t, Zenon
<1>2. ASSUME NEW off \in Offsets, NEW len \in Lengths, t \in Callers, Writev(t, off, len)
      PROVE  IInv'
  <2>1. Keeps /\ UNCHANGED <<wire, got_reply>> /\ QuietWire
    BY <1>2, Zenon DEF Writev, reqs, QuietWire
  <2>2. /\ arg' = [arg EXCEPT ![t] = [op |-> "writev", off |-> off, len |-> len]]
        /\ \E next \in {"direct", "enqueue", "flush_all"} : 
             /\ pc' = [pc EXCEPT ![t] = next]
             /\ next = "enqueue" => off = offset
    BY <1>2, Zenon DEF Writev, Goto, OffsetExpected
  <2>3. [op |-> "writev", off |-> off, len |-> len] \in WriteArg
    BY WBAssumption, Zenon DEF WriteArg
  <2>4. Typed
    BY <2>2, <1>t, Zenon DEF Threadpc
  <2>5. ThreadsConsistent'
    BY <2>1, <2>2, <2>3, <1>0, <1>2, <1>t, <1>u, Zenon DEF ThreadsConsistent
  <2>6. QED BY <2>1, <2>4, <2>5, <1>q, <1>t, Zenon
<1>3. CASE WritevDirect(t)
  <2>1. Keeps /\ UNCHANGED got_reply /\ pc[t] = "direct"
        /\ pc' = [pc EXCEPT ![t] = "idle"] /\ arg' = [arg EXCEPT ![t] = NoArg]
    BY <1>3, Zenon DEF WritevDirect, Goto, reqs, file
  <2>2. QuietWire
    <3>1. arg[t].off \in Nat
      BY <2>1, <1>0, Zenon DEF ThreadsConsistent, WriteArg
    <3>2. QED BY <3>1, <1>3, Zenon DEF WritevDirect, QuietWire
  <2>3. Typed /\ ThreadsConsistent'
    BY <2>1, <1>0, <1>t, <1>u, Zenon DEF ThreadsConsistent, Threadpc
  <2>4. QED BY <2>1, <2>2, <2>3, <1>q, <1>t, Zenon
<1>4. CASE WindCall(t)
  <2>1. Keeps /\ UNCHANGED got_reply /\ pc[t] = "call"
        /\ pc' = [pc EXCEPT ![t] = "idle"] /\ arg' = [arg EXCEPT ![t] = NoArg]
    BY <1>4, Zenon DEF WindCall, Goto, reqs, file
  <2>2. QuietWire
    <3>1. arg[t].op \in Calls \cup {"direct", "bg_flush"} /\ arg[t].ids \in SUBSET Ids
      BY <2>1, <1>0, Zenon DEF ThreadsConsistent, CallArg
    <3>2. QED BY <3>1, <1>4, Zenon DEF WindCall, QuietWire
  <2>3. Typed /\ ThreadsConsistent'
    BY <2>1, <1>0, <1>t, <1>u, Zenon DEF ThreadsConsistent, Threadpc
  <2>4. QED BY <2>1, <2>2, <2>3, <1>q, <1>t, Zenon
<1>5. CASE \/ StackUnwind(t, "flush_unwind", "flush_sync") \/ StackUnwind(t, "unwind", "sync")
           \/ Sync(t, "flush_sync", "enqueue") /\ winds[t] = {}
           \/ Sync(t, "sync_all", "call") /\ winds[t] = {}
           \/ Sync(t, "sync", "idle") /\ winds[t] = {}
  <2>1. /\ Keeps /\ UNCHANGED <<got_reply, arg, wire>>
        /\ \E from, next \in Threadpc :
             /\ <<from, next>> \in {<<"flush_unwind", "flush_sync">>, <<"unwind", "sync">>,
                                   <<"flush_sync", "enqueue">>, <<"sync_all", "call">>,
                                   <<"sync", "idle">>}
             /\ pc[t] = from
             /\ pc' = [pc EXCEPT ![t] = next]
    BY <1>5, Zenon DEF StackUnwind, Sync, Goto, reqs, file, Threadpc
  <2>2. Typed /\ QuietWire
    BY <2>1, <1>t, Zenon DEF QuietWire
  <2>3. ThreadsConsistent'
    BY <2>1, <1>0, <1>t, <1>u, Zenon DEF ThreadsConsistent
  <2>4. QED BY <2>1, <2>2, <2>3, <1>q, <1>t, Zenon
<1>6. ASSUME NEW n \in DOMAIN wire, NEW r \in {"ok", "err"}, SyncCbk(n, r)
      PROVE  IInv'
  <2>1. Keeps /\ pc' = [pc EXCEPT ![Poller] = "sync_ret"] /\ arg' = [arg EXCEPT ![Poller] = [op |-> r]]
        /\ QuietWire
    BY <1>6, Zenon DEF SyncCbk, Answer, Goto, file, QuietWire
  <2>2. got_reply' \subseteq stack_wound
    BY <1>6, <1>0, Zenon DEF SyncCbk, Shape
  <2>3. Typed /\ ThreadsConsistent'
    BY <2>1, <1>0, <1>p, <1>t, <1>u, Zenon DEF ThreadsConsistent, Threadpc
  <2>4. QED BY <2>1, <2>2, <2>3, <1>q, Zenon
<1>7. ASSUME NEW n \in DOMAIN wire, NEW r \in {"ok", "err"}, PassCbk(n, r) \/ ReportCbk(n, r)
      PROVE  IInv'
  <2>1. Keeps /\ UNCHANGED <<pc, arg, got_reply>> /\ QuietWire
    BY <1>7, Zenon DEF PassCbk, ReportCbk, Answer, Reported, file, reqs, thread, QuietWire
  <2>2. ThreadsConsistent'
    BY <2>1, <1>0, <1>u, Zenon DEF ThreadsConsistent
  <2>3. QED BY <2>1, <2>2, <1>q, <1>t, Zenon
<1>8. CASE SyncCbkRet
  <2>1. Keeps /\ UNCHANGED <<got_reply, wire>> /\ QuietWire
        /\ pc' = [pc EXCEPT ![Poller] = "process"] /\ arg' = [arg EXCEPT ![Poller] = NoArg]
    BY <1>8, Zenon DEF SyncCbkRet, Goto, file, reqs, QuietWire
  <2>2. Typed /\ ThreadsConsistent'
    BY <2>1, <1>0, <1>p, <1>t, <1>u, Zenon DEF ThreadsConsistent, Threadpc
  <2>3. QED BY <2>1, <2>2, <1>q, <1>t, Zenon
<1>9. CASE Release
  <2>1. Keeps /\ UNCHANGED <<pc, arg, got_reply, wire>> /\ QuietWire
    BY <1>9, Zenon DEF Release, file, reqs, thread, QuietWire
  <2>2. ThreadsConsistent'
    BY <2>1, <1>0, <1>u, Zenon DEF ThreadsConsistent
  <2>3. QED BY <2>1, <2>2, <1>q, <1>t, Zenon
<1>10. QED BY <1>1, <1>2, <1>3, <1>4, <1>5, <1>6, <1>7, <1>8, <1>9, Zenon

\* Every step of a file with one writing thread keeps the invariant.
LEMMA NextIInv ==
  ASSUME NEW c, Callers = {c}, IInv, [Next]_vars
  PROVE  IInv'
<1>0. c \in Callers /\ c \in Threads
  BY Zenon DEF Threads
<1>1. CASE \/ \E f \in OpenFlags : Open(f) \/ Create(f)
           \/ ReplyStep \/ Release
  BY <1>0, <1>1, QuietActions, Zenon DEF ReplyStep
<1>2. ASSUME NEW t \in Callers, CallerCalls(t) PROVE IInv'
  <2>1. t \in Threads
    BY Zenon DEF Threads
  <2>2. QED BY <1>2, <2>1, QuietActions, SyncAllStep, Zenon DEF CallerCalls
<1>3. ASSUME NEW t \in Threads, NEW from, NEW next, Sync(t, from, next), winds[t] # {}
      PROVE  IInv'
  BY <1>3, SyncStep, Zenon DEF Sync, file, reqs
<1>4. ASSUME NEW t \in Callers, CallerInside(t) PROVE IInv'
  <2>1. t \in Threads /\ Callers = {t}
    BY Zenon DEF Threads
  <2>2. CASE WritevFlushAll(t)
    BY <2>1, <2>2, ProcessStep, Zenon DEF WritevFlushAll, file
  <2>3. CASE Enqueue(t)
    BY <2>1, <2>3, EnqueueStep, Zenon
  <2>4. CASE WritevDirect(t) \/ WindCall(t) \/ StackUnwind(t, "flush_unwind", "flush_sync")
    BY <2>1, <2>4, QuietActions, Zenon
  <2>5. CASE Sync(t, "flush_sync", "enqueue") \/ Sync(t, "sync_all", "call")
    <3>1. CASE winds[t] = {}
      BY <2>1, <2>5, <3>1, QuietActions, Zenon
    <3>2. QED BY <2>1, <2>5, <3>1, <1>3, Zenon
  <2>6. QED BY <1>4, <2>2, <2>3, <2>4, <2>5, Zenon DEF CallerInside
<1>5. ASSUME NEW t \in Threads, QueueStep(t) PROVE IInv'
  <2>1. CASE Process(t)
    BY <2>1, ProcessStep, Zenon DEF Process, file
  <2>2. CASE StackUnwind(t, "unwind", "sync")
    BY <2>2, QuietActions, Zenon
  <2>3. CASE Sync(t, "sync", "idle")
    <3>1. CASE winds[t] = {}
      BY <2>3, <3>1, QuietActions, Zenon
    <3>2. QED BY <2>3, <3>1, <1>3, Zenon
  <2>4. QED BY <1>5, <2>1, <2>2, <2>3, Zenon DEF QueueStep
<1>6. CASE UNCHANGED vars
  <2>1. UNCHANGED <<offset, log, queue, stack_wound, winds, got_reply, pc, arg, wire>>
    BY <1>6, Zenon DEF vars, file, reqs, thread
  <2>2. Ids' = Ids /\ Unsent' = Unsent /\ Message' = Message /\ CallArg' = CallArg
    BY <2>1, Zenon DEF Ids, Unsent, Message, CallArg
  <2>3. Shape' /\ ThreadsConsistent'
    BY <2>1, <2>2, Zenon DEF IInv, Shape, ThreadsConsistent
  <2>4. TailAdjacent' /\ WindsAreRuns'
    BY <2>1, <2>2, Zenon DEF IInv, TailAdjacent, WindsAreRuns, Run, Adjacent
  <2>5. BatchContiguous'
    BY <2>1, Zenon DEF IInv, BatchContiguous
  <2>6. QED BY <2>3, <2>4, <2>5, Zenon DEF IInv
<1>7. QED BY <1>1, <1>2, <1>4, <1>5, <1>6, Zenon DEF Next, Idle

\* wb_sync never sends, as one writev, requests that do not follow each other
\* without a gap: whatever the sizes, the offsets, the order of the replies and
\* the interleaving with the poll thread, if one thread delivers the writes.
THEOREM BatchesContiguous ==
  ASSUME NEW c, Callers = {c}
  PROVE  Spec => []BatchContiguous
<1>1. Init => IInv
  BY InitIInv, Zenon
<1>2. IInv /\ [Next]_vars => IInv'
  BY NextIInv, Zenon
<1>3. IInv => BatchContiguous
  BY Zenon DEF IInv
<1>4. QED BY <1>1, <1>2, <1>3, PTL DEF Spec
-----------------------------------------------------------------------------
(* Type correctness, for any number of calling threads.                    *)

\* What a thread carries while it is inside a call.
ArgsTyped ==
  /\ DOMAIN arg = Threads
  /\ \A t \in Threads :
       /\ pc[t] \in {"direct", "flush_all", "flush_unwind", "flush_sync", "enqueue"} =>
            arg[t] \in WriteArg
       /\ pc[t] \in {"sync_all", "call"} => arg[t] \in CallArg

TInv == TypeOK /\ ArgsTyped

\* Calls and replies keep the wire a sequence of messages.
LEMMA WireTyped ==
  ASSUME wire \in Seq(Message),
         \/ wire' = wire
         \/ \E m \in Message : wire' = Append(wire, m)
         \/ \E n \in DOMAIN wire, r \in {"ok", "err"} : wire' = [wire EXCEPT ![n].reply = r]
  PROVE  wire' \in Seq(Message)
<1>1. ASSUME NEW m \in Message, wire' = Append(wire, m) PROVE wire' \in Seq(Message)
  BY <1>1, AppendProperties, Zenon
<1>2. ASSUME NEW n \in DOMAIN wire, NEW r \in {"ok", "err"}, wire' = [wire EXCEPT ![n].reply = r]
      PROVE  wire' \in Seq(Message)
  <2>1. wire[n] \in Message
    BY ElementOfSeq
  <2>2. [wire[n] EXCEPT !.reply = r] \in Message
    BY <2>1, Zenon DEF Message
  <2>3. n \in 1 .. Len(wire)
    OBVIOUS
  <2>4. wire' = [wire EXCEPT ![n] = [wire[n] EXCEPT !.reply = r]]
    BY <1>2, Zenon
  <2>5. QED BY <2>2, <2>3, <2>4, ExceptSeq, Zenon
<1>3. QED BY <1>1, <1>2, Zenon

\* The requests some answered writev carried are requests of the log.
LEMMA FailedAreRequests ==
  ASSUME wire \in Seq(Message)
  PROVE  Failed \subseteq Ids
<1>1. ASSUME NEW n \in DOMAIN wire PROVE wire[n].ids \subseteq Ids
  <2>1. wire[n] \in Message
    BY ElementOfSeq
  <2>2. QED BY <2>1, Zenon DEF Message
<1>2. QED BY <1>1, Zenon DEF Failed, AnsweredWith

\* wb_stack_unwind adds a result to some frames.
LEMMA UnwindTyped ==
  ASSUME acks \in Seq(Seq(BOOLEAN)), NEW U, NEW E,
         acks' = [i \in DOMAIN acks |-> IF i \in U THEN Append(acks[i], i \notin E) ELSE acks[i]]
  PROVE  acks' \in Seq(Seq(BOOLEAN)) /\ Len(acks') = Len(acks)
<1>1. Len(acks) \in Nat /\ DOMAIN acks = 1 .. Len(acks)
  OBVIOUS
<1>2. ASSUME NEW i \in 1 .. Len(acks) PROVE acks'[i] \in Seq(BOOLEAN)
  <2>1. (i \notin E) \in BOOLEAN
    BY Zenon
  <2>2. acks[i] \in Seq(BOOLEAN)
    BY <1>1
  <2>3. Append(acks[i], i \notin E) \in Seq(BOOLEAN)
    BY <2>1, <2>2, AppendProperties, Zenon
  <2>4. acks'[i] = IF i \in U THEN Append(acks[i], i \notin E) ELSE acks[i]
    BY <1>1, <1>2, Zenon
  <2>5. QED BY <2>2, <2>3, <2>4, Zenon
<1>3. DOMAIN acks' = 1 .. Len(acks)
  BY <1>1, Zenon
<1>4. acks' \in [1 .. Len(acks) -> Seq(BOOLEAN)]
  <2>1. acks' = [i \in 1 .. Len(acks) |-> acks'[i]]
    BY <1>1, Zenon
  <2>2. QED BY <2>1, <1>2, Zenon
<1>5. QED BY <1>1, <1>4

\* Every step that does not enqueue keeps the types.
LEMMA TypesKept ==
  ASSUME TInv, NEW t \in Threads,
         \/ \E f \in OpenFlags : Open(f) \/ Create(f)
         \/ \E off \in Offsets, len \in Lengths : Writev(t, off, len)
         \/ \E op \in Calls : SyncAll(t, op)
         \/ WritevDirect(t) \/ WritevFlushAll(t) \/ WindCall(t) \/ Process(t)
         \/ StackUnwind(t, "flush_unwind", "flush_sync") \/ StackUnwind(t, "unwind", "sync")
         \/ Sync(t, "flush_sync", "enqueue") \/ Sync(t, "sync_all", "call")
         \/ Sync(t, "sync", "idle")
         \/ ReplyStep \/ Release
  PROVE  TInv'
<1>0. TypeOK /\ ArgsTyped /\ Failed \subseteq Ids /\ wire \in Seq(Message) /\ Poller \in Threads
  BY FailedAreRequests, Zenon DEF TInv, TypeOK, Threads
<1>i. log' = log
  BY Zenon DEF Open, Create, Writev, SyncAll, WritevDirect, WritevFlushAll, WindCall, Process,
         ProcessQueue, StackUnwind, Sync, ReplyStep, SyncCbk, PassCbk, ReportCbk, SyncCbkRet,
         Release, reqs
<1>j. Ids' = Ids /\ Message' = Message /\ CallArg' = CallArg
  BY <1>i, Zenon DEF Ids, Message, CallArg
<1>1. CASE \E f \in OpenFlags : Open(f) \/ Create(f)
  BY <1>0, <1>1, <1>j, Zenon DEF TInv, TypeOK, ArgsTyped, Open, Create, OpenDisables, reqs, thread
<1>2. ASSUME NEW off \in Offsets, NEW len \in Lengths, Writev(t, off, len) PROVE TInv'
  <2>1. disable_till' \in Nat
    <3>1. len \in Nat /\ disable_till \in Nat
      BY <1>0, WBAssumption, Zenon DEF TypeOK
    <3>2. LeftToDisable(len) \in Nat
      BY <3>1, SMTT(30) DEF LeftToDisable
    <3>3. QED BY <3>1, <3>2, <1>2, Zenon DEF Writev
  <2>2. [op |-> "writev", off |-> off, len |-> len] \in WriteArg
    BY WBAssumption, Zenon DEF WriteArg
  <2>3. pc' \in [Threads -> Threadpc] /\ ArgsTyped'
    BY <1>0, <1>2, <1>j, <2>2, Zenon DEF Writev, Goto, TypeOK, ArgsTyped, Threadpc
  <2>4. QED BY <1>0, <1>2, <1>j, <2>1, <2>3, Zenon DEF Writev, TInv, TypeOK, reqs
<1>3. ASSUME NEW op \in Calls, SyncAll(t, op) PROVE TInv'
  <2>1. MarkWinds(queue, SyncAllSize) \subseteq Ids
    BY <1>0, Zenon DEF TypeOK, MarkWinds
  <2>2. ArgsTyped' /\ pc' \in [Threads -> Threadpc]
    BY <1>0, <1>3, <1>j, Zenon DEF SyncAll, Goto, TypeOK, ArgsTyped, Threadpc, CallArg, Calls
  <2>3. QED BY <1>0, <1>3, <1>j, <2>1, <2>2, Zenon DEF SyncAll, TInv, TypeOK, file
<1>4. CASE WritevDirect(t) \/ WindCall(t)
  <2>1. \E m \in Message : wire' = Append(wire, m)
    BY <1>0, <1>4, Zenon DEF WritevDirect, WindCall, ArgsTyped, WriteArg, CallArg, Call, Message, Calls
  <2>2. wire' \in Seq(Message)
    BY <1>0, <2>1, WireTyped, Zenon
  <2>3. ArgsTyped' /\ pc' \in [Threads -> Threadpc]
    BY <1>0, <1>4, <1>j, Zenon DEF WritevDirect, WindCall, Goto, TypeOK, ArgsTyped, Threadpc
  <2>4. QED BY <1>0, <1>4, <1>j, <2>2, <2>3, Zenon DEF WritevDirect, WindCall, TInv, TypeOK, file, reqs
<1>5. CASE WritevFlushAll(t) \/ Process(t)
  <2>1. PICK agg, from, next : /\ <<from, next>> \in {<<"flush_all", "flush_unwind">>,
                                                     <<"process", "unwind">>}
                               /\ pc[t] = from /\ ProcessQueue(t, agg, next)
                               /\ UNCHANGED <<status, flags, file, op_ret, acks, wire, told, arg>>
    BY <1>5 DEF WritevFlushAll, Process
  <2>2. CleanupQueue \subseteq Ids /\ MarkWinds(CleanupQueue, agg) \subseteq Ids
    BY <1>0, Zenon DEF TypeOK, CleanupQueue, MarkWinds
  <2>3. MarkUnwinds(CleanupQueue) \subseteq Ids
    BY <2>2, Zenon DEF MarkUnwinds, MarkUnwindTill
  <2>4. ArgsTyped' /\ pc' \in [Threads -> Threadpc]
    BY <1>0, <1>j, <2>1, Zenon DEF ProcessQueue, TypeOK, ArgsTyped, Threadpc
  <2>5. QED BY <1>0, <1>j, <2>1, <2>2, <2>3, <2>4, Zenon DEF ProcessQueue, TInv, TypeOK, file
<1>6. CASE StackUnwind(t, "flush_unwind", "flush_sync") \/ StackUnwind(t, "unwind", "sync")
  <2>1. acks' \in Seq(Seq(BOOLEAN)) /\ Len(acks') = Len(log')
    <3>1. acks \in Seq(Seq(BOOLEAN)) /\ Len(acks) = Len(log)
      BY <1>0, Zenon DEF TypeOK
    <3>2. acks' = [i \in DOMAIN acks |-> IF i \in unwinds[t]
                     THEN Append(acks[i], i \notin frame_err) ELSE acks[i]]
      BY <1>6, Zenon DEF StackUnwind
    <3>3. acks' \in Seq(Seq(BOOLEAN)) /\ Len(acks') = Len(acks)
      BY <3>1, <3>2, UnwindTyped, Zenon
    <3>4. QED BY <1>i, <3>1, <3>3, Zenon
  <2>2. ArgsTyped' /\ pc' \in [Threads -> Threadpc]
    BY <1>0, <1>6, <1>j, Zenon DEF StackUnwind, Goto, TypeOK, ArgsTyped, Threadpc
  <2>3. QED BY <1>0, <1>6, <1>j, <2>1, <2>2, Zenon DEF StackUnwind, TInv, TypeOK, file, reqs
<1>7. CASE Sync(t, "flush_sync", "enqueue") \/ Sync(t, "sync_all", "call") \/ Sync(t, "sync", "idle")
  <2>1. ArgsTyped' /\ pc' \in [Threads -> Threadpc]
    BY <1>0, <1>7, <1>j, ZenonT(30) DEF Sync, Goto, TypeOK, ArgsTyped, Threadpc
  <2>2. winds' \in [Threads -> SUBSET Ids]
    BY <1>0, <1>7, Zenon DEF Sync, TypeOK
  <2>3. wire' \in Seq(Message)
    <3>1. CASE winds[t] = {}
      BY <1>0, <1>7, <3>1, Zenon DEF Sync
    <3>2. CASE winds[t] # {}
      <4> DEFINE b == Batch(winds[t])
      <4>1. /\ Len(log) \in Nat /\ log \in Seq([off : Nat, len : Nat])
            /\ winds[t] \in SUBSET (1 .. Len(log))
        BY <1>0 DEF TypeOK, Ids
      <4>2. b \subseteq winds[t] /\ b # {}
        BY <4>1, <3>2, BatchIsPrefix, Zenon
      <4> HIDE DEF b
      <4>3. Min(b) \in b
        <5>1. \A n \in Nat : 1 .. n \subseteq Nat
          OBVIOUS
        <5>2. b \subseteq 1 .. Len(log)
          BY <4>1, <4>2, Zenon
        <5>3. b \in SUBSET Nat
          BY <4>1, <5>1, <5>2, Zenon
        <5>4. QED BY <5>3, <4>2, MinIsLeast, Zenon
      <4> HIDE DEF Min
      <4>4. log[Min(b)] \in [off : Nat, len : Nat]
        BY <4>1, <4>2, <4>3, ElementOfSeq, Zenon
      <4>5. Call("writev", b, log[Min(b)].off) \in Message
        BY <4>1, <4>2, <4>4, Zenon DEF Call, Message, Ids
      <4>6. wire' = Append(wire, Call("writev", b, log[Min(b)].off))
        BY <1>7, <3>2, Zenon DEF Sync, b
      <4>7. QED BY <1>0, <4>5, <4>6, WireTyped, Zenon
    <3>3. QED BY <3>1, <3>2, Zenon
  <2>4. QED BY <1>0, <1>7, <1>j, <2>1, <2>2, <2>3, Zenon DEF Sync, TInv, TypeOK, file, reqs
<1>8. ASSUME NEW n \in DOMAIN wire, NEW r \in {"ok", "err"},
             SyncCbk(n, r) \/ PassCbk(n, r) \/ ReportCbk(n, r)
      PROVE  TInv'
  <2>1. \E s \in {"ok", "err"} : wire' = [wire EXCEPT ![n].reply = s]
    BY <1>8, Zenon DEF SyncCbk, PassCbk, ReportCbk, Answer, Reported
  <2>2. wire' \in Seq(Message)
    BY <1>0, <2>1, WireTyped, Zenon
  <2>3. wire[n].ids \subseteq Ids
    <3>1. wire[n] \in Message
      BY <1>0, ElementOfSeq
    <3>2. QED BY <3>1, Zenon DEF Message
  <2>4. ArgsTyped' /\ pc' \in [Threads -> Threadpc]
    BY <1>0, <1>8, <1>j, Zenon DEF SyncCbk, PassCbk, ReportCbk, Goto, TypeOK, ArgsTyped, Threadpc, thread
  <2>5. QED BY <1>0, <1>8, <1>j, <2>2, <2>3, <2>4, Zenon
            DEF SyncCbk, PassCbk, ReportCbk, TInv, TypeOK, file, reqs, thread
<1>9. CASE SyncCbkRet
  <2>1. ArgsTyped' /\ pc' \in [Threads -> Threadpc]
    BY <1>0, <1>9, <1>j, Zenon DEF SyncCbkRet, Goto, TypeOK, ArgsTyped, Threadpc
  <2>2. QED BY <1>0, <1>9, <1>j, <2>1, Zenon DEF SyncCbkRet, RememberedRet, TInv, TypeOK, file, reqs
<1>10. CASE Release
  BY <1>0, <1>10, <1>j, Zenon DEF Release, TInv, TypeOK, ArgsTyped, file, reqs, thread
<1>11. QED BY <1>1, <1>2, <1>3, <1>4, <1>5, <1>6, <1>7, <1>8, <1>9, <1>10, Zenon DEF ReplyStep

\* wb_enqueue keeps the types although it extends the set of requests.
LEMMA EnqueueTyped ==
  ASSUME TInv, NEW t \in Threads, Enqueue(t)
  PROVE  TInv'
<1>0. TypeOK /\ ArgsTyped /\ pc[t] = "enqueue"
  BY Zenon DEF TInv, Enqueue
<1> DEFINE r == [off |-> arg[t].off, len |-> arg[t].len]
<1>1. r \in [off : Nat, len : Nat] /\ arg[t].off + arg[t].len \in Nat
  <2>1. arg[t] \in WriteArg
    BY <1>0, Zenon DEF ArgsTyped
  <2>2. arg[t].off \in Nat /\ arg[t].len \in Nat
    BY <2>1, Zenon DEF WriteArg
  <2>3. r \in [off : Nat, len : Nat]
    BY <2>2, Zenon
  <2>4. \A x, y \in Nat : x + y \in Nat
    OBVIOUS
  <2>5. QED BY <2>2, <2>3, <2>4, Zenon
<1>l. log \in Seq([off : Nat, len : Nat]) /\ Len(log) \in Nat
  BY <1>0 DEF TypeOK
<1>2. log' \in Seq([off : Nat, len : Nat]) /\ Len(log') = Len(log) + 1
  <2>1. log' = Append(log, r)
    BY Zenon DEF Enqueue
  <2> HIDE DEF r
  <2>2. QED BY <1>1, <1>l, <2>1, AppendProperties, Zenon
<1>3. Ids \subseteq Ids' /\ Len(log) + 1 \in Ids'
  <2>1. \A n \in Nat : 1 .. n \subseteq 1 .. n + 1 /\ n + 1 \in 1 .. n + 1
    OBVIOUS
  <2>2. QED BY <1>2, <1>l, <2>1, Zenon DEF Ids
<1>4. Message \subseteq Message' /\ CallArg \subseteq CallArg'
  BY <1>3, Zenon DEF Message, CallArg
<1>5. wire' \in Seq(Message')
  <2>1. wire' = wire /\ wire \in Seq(Message)
    BY <1>0, Zenon DEF Enqueue, TypeOK
  <2>2. QED BY <2>1, <1>4, SMTT(30)
<1>6. ArgsTyped' /\ pc' \in [Threads -> Threadpc]
  BY <1>0, <1>4, Zenon DEF Enqueue, Goto, TypeOK, ArgsTyped, Threadpc
<1>7. /\ winds' \in [Threads -> SUBSET Ids'] /\ unwinds' \in [Threads -> SUBSET Ids']
      /\ queue' \subseteq Ids' /\ offset' \in Nat
  BY <1>0, <1>1, <1>3, Zenon DEF Enqueue, TypeOK
<1>8. /\ stack_wound' \subseteq Ids' /\ write_behind' \subseteq Ids' /\ got_reply' \subseteq Ids'
      /\ frame_err' \subseteq Ids' /\ told' \subseteq Ids'
  BY <1>0, <1>3, Zenon DEF Enqueue, TypeOK
<1>9. UNCHANGED <<status, flags, disabled, disable_till, op_ret>>
  BY Zenon DEF Enqueue
<1>a. acks' \in Seq(Seq(BOOLEAN)) /\ Len(acks') = Len(log')
  <2>1. acks' = Append(acks, <<>>) /\ acks \in Seq(Seq(BOOLEAN)) /\ Len(acks) = Len(log)
    BY <1>0, Zenon DEF Enqueue, TypeOK
  <2>2. <<>> \in Seq(BOOLEAN)
    OBVIOUS
  <2>3. Append(acks, <<>>) \in Seq(Seq(BOOLEAN)) /\ Len(Append(acks, <<>>)) = Len(acks) + 1
    BY <2>1, <2>2, AppendProperties, Zenon
  <2>4. QED BY <1>2, <2>1, <2>3, Zenon
<1>10. QED BY <1>0, <1>2, <1>5, <1>6, <1>7, <1>8, <1>9, <1>a, ZenonT(30) DEF TInv, TypeOK

\* At first the types are right.
LEMMA InitTInv == Init => TInv
<1> SUFFICES ASSUME Init PROVE TInv
  OBVIOUS
<1>1. acks \in Seq(Seq(BOOLEAN)) /\ Len(acks) = Len(log) /\ wire \in Seq(Message)
  BY DEF Init
<1>2. ArgsTyped /\ pc \in [Threads -> Threadpc]
  BY Zenon DEF Init, ArgsTyped, Threadpc
<1>3. log \in Seq([off : Nat, len : Nat])
  BY DEF Init
<1>4. winds \in [Threads -> SUBSET Ids] /\ unwinds \in [Threads -> SUBSET Ids]
  BY Zenon DEF Init
<1>5. DisableTill \in Nat
  BY WBAssumption, Zenon
<1>6. QED BY <1>1, <1>2, <1>3, <1>4, <1>5, Zenon DEF Init, TInv, TypeOK

\* Every step keeps the types.
LEMMA NextTInv == TInv /\ [Next]_vars => TInv'
<1> SUFFICES ASSUME TInv, [Next]_vars PROVE TInv'
  OBVIOUS
<1>0. Callers \subseteq Threads /\ Poller \in Threads
  BY Zenon DEF Threads
<1>1. CASE \/ \E f \in OpenFlags : Open(f) \/ Create(f)
           \/ ReplyStep \/ Release
  BY <1>0, <1>1, TypesKept, Zenon
<1>2. ASSUME NEW t \in Callers, CallerCalls(t) \/ CallerInside(t) PROVE TInv'
  BY <1>0, <1>2, TypesKept, EnqueueTyped, Zenon DEF CallerCalls, CallerInside
<1>3. ASSUME NEW t \in Threads, QueueStep(t) PROVE TInv'
  BY <1>3, TypesKept, Zenon DEF QueueStep
<1>4. CASE UNCHANGED vars
  <2>1. UNCHANGED <<status, flags, disabled, disable_till, offset, op_ret, log, queue, stack_wound,
                    write_behind, got_reply, frame_err, acks, wire, told, pc, winds, unwinds, arg>>
    BY <1>4, Zenon DEF vars, file, reqs, thread
  <2>2. QED BY <2>1, Zenon DEF TInv, TypeOK, ArgsTyped, Ids, Message, CallArg
<1>5. QED BY <1>1, <1>2, <1>3, <1>4, Zenon DEF Next, Idle

\* The state of a file keeps its types, whatever the threads do.
THEOREM TypeCorrect == Spec => []TypeOK
<1>1. TInv => TypeOK
  BY Zenon DEF TInv
<1>2. QED BY <1>1, InitTInv, NextTInv, PTL DEF Spec
=============================================================================
