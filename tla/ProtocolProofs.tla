-------------------------- MODULE ProtocolProofs --------------------------
(***************************************************************************)
(* What is proved of Protocol for any mix of calls, any number of          *)
(* descriptors and any number of lost transports: a call is answered at    *)
(* most once, and the parents' view agrees with the channels when these    *)
(* agree.  The second part is about values of the state, not steps: the    *)
(* places a call can be in, what the descriptors, the calls and the queues *)
(* have to do with each other (Desc), and the changes that keep it.  The   *)
(* proofs of ProtocolStepProofs and ProtocolDescriptorProofs rest on it.   *)
(***************************************************************************)
EXTENDS Protocol, TLAPS

\* The saved frames of a channel are calls that are out, made on that channel: the
\* two ways to answer a call (a reply, the cleanup) start from a saved frame, and the
\* frame is gone afterwards.
SavedOut ==
    /\ call = [c \in Calls |-> call[c]]
    /\ saved \in [Channels -> SUBSET Calls]
    /\ \A ch \in Channels : \A c \in saved[ch] :
          call[c].status = "out" /\ gf_fops[call[c].op].channel = ch

\* The client's connections are typed, and the view agrees with them.
ViewInv ==
    /\ conn \in [Channels -> [connected : BOOLEAN, trans : Nat]]
    /\ ViewSound

\* Answering one call, whose frame is off every list, leaves the other calls alone
\* (client_<fop>_cbk).
LEMMA AnsweredEffect ==
    ASSUME NEW cl, cl = [c \in Calls |-> cl[c]], NEW fl, NEW c \in Calls,
           NEW status, NEW slot, NEW gen, Answered(cl, fl, c, status, slot, gen)
    PROVE  /\ call' = [d \in Calls |-> call'[d]]
           /\ \A d \in Calls \ {c} : call'[d] = cl[d]
  BY Zenon DEF Answered

\* A new call is saved on the channel of its fop or answered at once; the others and
\* their frames stay as they are (protocol_client_xfer).
LEMMA XferEffect ==
    ASSUME SavedOut, NEW c \in Calls, NEW op, NEW f, NEW slot, NEW gen, NEW fl,
           gf_fops[op].channel \in Channels, call[c] = NoCall,
           protocol_client_xfer(Made(c, op, f, slot, gen), fl, c)
    PROVE  SavedOut' /\ \A d \in Calls \ {c} : call'[d] = call[d]
  <1> DEFINE cl == Made(c, op, f, slot, gen)
             ch == gf_fops[cl[c].op].channel
  <1>1. /\ cl = [d \in Calls |-> cl[d]] /\ cl[c].status = "out" /\ cl[c].op = op
        /\ \A d \in Calls \ {c} : cl[d] = call[d]
    BY Zenon DEF SavedOut, Made
  <1>2. ch \in Channels
    BY <1>1, Zenon
  <1>3. \A e \in Channels : c \notin saved[e]
    BY DEF SavedOut, NoCall
  <1> HIDE DEF cl
  <1>4. CASE conn[ch].connected /\ CanSubmit(conn[ch].trans)
    <2>1. /\ saved' = [saved EXCEPT ![ch] = @ \cup {c}] /\ call' = cl
      BY <1>4, Zenon DEF protocol_client_xfer, cl
    <2>2. saved \in [Channels -> SUBSET Calls]
      BY Zenon DEF SavedOut
    <2>3. saved' \in [Channels -> SUBSET Calls]
      BY <2>1, <2>2, <1>2, Zenon
    <2>4. ASSUME NEW e \in Channels, NEW d \in saved'[e]
          PROVE  cl[d].status = "out" /\ gf_fops[cl[d].op].channel = e
      <3>1. CASE d = c
        <4>1. e = ch
          BY <3>1, <2>1, <2>2, <1>2, <1>3, Zenon
        <4> QED  BY <4>1, <3>1, <1>1, Zenon
      <3>2. CASE d # c
        <4>1. d \in saved[e] /\ d \in Calls
          BY <3>2, <2>1, <2>2, <1>2, Zenon
        <4> QED  BY <4>1, <3>2, <1>1 DEF SavedOut
      <3> QED  BY <3>1, <3>2, Zenon
    <2> QED  BY <2>1, <2>3, <2>4, <1>1 DEF SavedOut
  <1>5. CASE ~(conn[ch].connected /\ CanSubmit(conn[ch].trans))
    <2>1. Answered(cl, fl, c, "notconn", 0, 0) /\ saved' = saved
      BY <1>5, Zenon DEF protocol_client_xfer, cl
    <2>2. /\ call' = [d \in Calls |-> call'[d]] /\ \A d \in Calls \ {c} : call'[d] = cl[d]
      BY <2>1, <1>1, AnsweredEffect, Zenon
    <2> QED  BY <2>1, <2>2, <1>1, <1>3 DEF SavedOut
  <1> QED  BY <1>4, <1>5, Zenon

\* The channel of a fop is one of the two.
LEMMA ChannelOfFop == \A op \in Fops : gf_fops[op].channel \in Channels
  BY EndsAgree, Zenon DEF Channels

\* What a client step that makes a call does to the calls and the frames.
LEMMA CallEffect ==
    ASSUME mix \in Mixes, SavedOut, NEW c \in Calls, NEW op \in mix.ops,
           CallPath(c, op) \/ \E f \in Fds : CallFd(c, op, f)
    PROVE  SavedOut' /\ call[c] = NoCall /\ \A d \in Calls \ {c} : call'[d] = call[d]
  <1>1. op \in Fops
    BY ConstantsAssumption, Zenon DEF ConstantsAssumption
  <1>2. gf_fops[op].channel \in Channels
    BY <1>1, ChannelOfFop, Zenon
  <1>3. call[c] = NoCall
    BY Zenon DEF CallPath, CallFd, NewCall
  <1>4. CASE CallPath(c, op)
    <2>1. \E f, fl : protocol_client_xfer(Made(c, op, f, 0, 0), fl, c)
      BY <1>4, Zenon DEF CallPath
    <2> QED  BY <2>1, <1>2, <1>3, XferEffect, Zenon
  <1>5. ASSUME NEW f \in Fds, CallFd(c, op, f)
        PROVE  SavedOut' /\ \A d \in Calls \ {c} : call'[d] = call[d]
    <2>1. CASE file[f].slot = 0
      <3> DEFINE cl == Made(c, op, f, file[f].slot, file[f].gen)
      <3>1. call' = [cl EXCEPT ![c].status = "badfd"] /\ saved' = saved
        BY <1>5, <2>1, Zenon DEF CallFd
      <3>2. call' = [d \in Calls |-> call'[d]] /\ \A d \in Calls \ {c} : call'[d] = call[d]
        BY <3>1, Zenon DEF SavedOut, Made
      <3>3. \A ch \in Channels : c \notin saved[ch]
        BY <1>3 DEF SavedOut, NoCall
      <3>4. \A ch \in Channels : \A d \in saved'[ch] : d \in saved[ch] /\ call'[d] = call[d]
        BY <3>1, <3>2, <3>3 DEF SavedOut
      <3>5. saved' \in [Channels -> SUBSET Calls]
        BY <3>1, Zenon DEF SavedOut
      <3>6. \A ch \in Channels : \A d \in saved'[ch] :
               call'[d].status = "out" /\ gf_fops[call'[d].op].channel = ch
        BY <3>4 DEF SavedOut
      <3> QED  BY <3>2, <3>5, <3>6, Zenon DEF SavedOut
    <2>2. CASE file[f].slot # 0
      <3>1. protocol_client_xfer(Made(c, op, f, file[f].slot, file[f].gen), file, c)
        BY <1>5, <2>2, Zenon DEF CallFd
      <3> QED  BY <3>1, <1>2, <1>3, XferEffect, Zenon
    <2> QED  BY <2>1, <2>2, Zenon
  <1> QED  BY <1>3, <1>4, <1>5, Zenon

\* A reply answers the one call whose frame it takes off the list.
LEMMA PollinEffect ==
    ASSUME SavedOut, NEW ch \in Channels, protocol_client_pollin(ch)
    PROVE  /\ SavedOut'
           /\ \A c \in Calls : call[c].status # "out" => call'[c] = call[c]
  <1> DEFINE m == Head(trans[conn[ch].trans].rep)
  <1>1. CASE m.kind # "setvolume" /\ m.kind = "reply" /\ m.c \in saved[ch]
    <2>1. /\ saved' = [saved EXCEPT ![ch] = @ \ {m.c}]
          /\ Answered(call, file, m.c, m.status, m.slot, m.gen)
      BY <1>1, Zenon DEF protocol_client_pollin, lookup_frame
    <2>2. m.c \in Calls /\ call[m.c].status = "out" /\ gf_fops[call[m.c].op].channel = ch
      BY <1>1, Zenon DEF SavedOut
    <2>3. /\ call' = [d \in Calls |-> call'[d]] /\ \A d \in Calls \ {m.c} : call'[d] = call[d]
      BY <2>1, <2>2, AnsweredEffect, Zenon DEF SavedOut
    <2>4. \A e \in Channels : \A d \in saved'[e] : d \in saved[e] /\ d # m.c
      BY <2>1, <2>2, Zenon DEF SavedOut
    <2>5. saved' \in [Channels -> SUBSET Calls]
      BY <2>1, Zenon DEF SavedOut
    <2>6. \A e \in Channels : \A d \in saved'[e] : d \in saved[e] /\ call'[d] = call[d]
      BY <2>3, <2>4, Zenon DEF SavedOut
    <2>7. \A e \in Channels : \A d \in saved'[e] :
             call'[d].status = "out" /\ gf_fops[call'[d].op].channel = e
      BY <2>6 DEF SavedOut
    <2>8. SavedOut'
      BY <2>3, <2>5, <2>7, Zenon DEF SavedOut
    <2> QED  BY <2>2, <2>3, <2>8, Zenon
  <1>2. CASE ~(m.kind # "setvolume" /\ m.kind = "reply" /\ m.c \in saved[ch])
    <2>1. call' = call /\ saved' = saved
      BY <1>2, Zenon DEF protocol_client_pollin
    <2> QED  BY <2>1, Zenon DEF SavedOut
  <1> QED  BY <1>1, <1>2, Zenon

\* The cleanup answers the calls of its channel and empties its list.
LEMMA CleanupEffect ==
    ASSUME SavedOut, NEW ch \in Channels, protocol_client_cleanup(ch)
    PROVE  /\ SavedOut'
           /\ \A c \in Calls : call[c].status # "out" => call'[c] = call[c]
  <1>1. /\ saved' = [saved EXCEPT ![ch] = {}]
        /\ call' = [c \in Calls |-> IF c \in saved[ch]
                      THEN [call[c] EXCEPT !.status = "notconn"] ELSE call[c]]
    BY Zenon DEF protocol_client_cleanup, saved_frames_unwind
  <1>2. \A e \in Channels : \A d \in saved'[e] : d \in saved[e] /\ d \notin saved[ch]
    BY <1>1, Zenon DEF SavedOut
  <1>3. saved' \in [Channels -> SUBSET Calls]
    BY <1>1, Zenon DEF SavedOut
  <1> QED  BY <1>1, <1>2, <1>3, Zenon DEF SavedOut

\* No step of the server or of the network touches what the client keeps.
LEMMA ClientUntouched ==
    ASSUME ServerNext \/ (\E t \in Transports : Break(t)) \/ UNCHANGED vars
    PROVE  UNCHANGED <<mix, conn, saved, call, view>>
  <1>1. ASSUME NEW t \in Transports, protocol_server_interpret(t)
        PROVE  UNCHANGED <<mix, conn, saved, call, view>>
    BY <1>1, Zenon DEF protocol_server_interpret
  <1>2. ASSUME NEW t \in Transports, server_pollerr(t)
        PROVE  UNCHANGED <<mix, conn, saved, call, view>>
    BY <1>2, Zenon DEF server_pollerr
  <1>3. ASSUME NEW t \in Transports, NEW c \in Calls, NEW found, server_stub_resume(t, c, found)
        PROVE  UNCHANGED <<mix, conn, saved, call, view>>
    BY <1>3, Zenon DEF server_stub_resume
  <1>4. ASSUME NEW t \in Transports, NEW c \in Calls, NEW ok, server_cbk(t, c, ok)
        PROVE  UNCHANGED <<mix, conn, saved, call, view>>
    BY <1>4, Zenon DEF server_cbk
  <1>5. ASSUME NEW t \in Transports, Break(t)
        PROVE  UNCHANGED <<mix, conn, saved, call, view>>
    BY <1>5, Zenon DEF Break
  <1>6. CASE UNCHANGED vars
    BY <1>6, Zenon DEF vars
  <1> QED  BY <1>1, <1>2, <1>3, <1>4, <1>5, <1>6, Zenon DEF ServerNext

\* Nor does any step change the mix of calls.
LEMMA MixFixed ==
    ASSUME [Next]_vars
    PROVE  mix' = mix
  <1>1. ASSUME NEW ch \in Channels, client_protocol_reconnect(ch)  PROVE mix' = mix
    BY <1>1, Zenon DEF client_protocol_reconnect
  <1>2. ASSUME NEW ch \in Channels, protocol_client_pollin(ch)  PROVE mix' = mix
    BY <1>2, Zenon DEF protocol_client_pollin
  <1>3. ASSUME NEW ch \in Channels, Bail(ch)  PROVE mix' = mix
    BY <1>3, Zenon DEF Bail
  <1>4. ASSUME NEW ch \in Channels, protocol_client_cleanup(ch)  PROVE mix' = mix
    BY <1>4, Zenon DEF protocol_client_cleanup
  <1>5. ASSUME NEW c \in Calls, NEW op, CallPath(c, op)  PROVE mix' = mix
    BY <1>5, Zenon DEF CallPath
  <1>6. ASSUME NEW c \in Calls, NEW op, NEW f \in Fds, CallFd(c, op, f)  PROVE mix' = mix
    BY <1>6, Zenon DEF CallFd
  <1>7. ASSUME NEW f \in Fds, client_release(f)  PROVE mix' = mix
    BY <1>7, Zenon DEF client_release
  <1> QED  BY <1>1, <1>2, <1>3, <1>4, <1>5, <1>6, <1>7, ClientUntouched, Zenon DEF Next, ClientNext

\* SavedOut is inductive, and a step answers only calls that are out.
LEMMA SavedOutStep ==
    ASSUME mix \in Mixes, SavedOut, [Next]_vars
    PROVE  /\ SavedOut'
           /\ \A c \in Calls : call[c].status \in Answers => call'[c].status = call[c].status
  <1>1. CASE call' = call /\ saved' = saved
    BY <1>1, Zenon DEF SavedOut
  <1>2. ASSUME NEW c \in Calls, NEW op \in mix.ops,
               CallPath(c, op) \/ \E f \in Fds : CallFd(c, op, f)
        PROVE  /\ SavedOut'
               /\ \A d \in Calls : call[d].status \in Answers => call'[d].status = call[d].status
    BY <1>2, CallEffect DEF Answers, NoCall
  <1>3. ASSUME NEW ch \in Channels, protocol_client_pollin(ch) \/ protocol_client_cleanup(ch)
        PROVE  /\ SavedOut'
               /\ \A d \in Calls : call[d].status \in Answers => call'[d].status = call[d].status
    BY <1>3, PollinEffect, CleanupEffect, Zenon DEF Answers
  <1>4. ASSUME NEW ch \in Channels, client_protocol_reconnect(ch) \/ Bail(ch)
        PROVE  call' = call /\ saved' = saved
    BY <1>4, Zenon DEF client_protocol_reconnect, Bail
  <1>5. ASSUME NEW f \in Fds, client_release(f)
        PROVE  call' = call /\ saved' = saved
    BY <1>5, Zenon DEF client_release
  <1>6. ASSUME ServerNext \/ (\E t \in Transports : Break(t)) \/ UNCHANGED vars
        PROVE  call' = call /\ saved' = saved
    BY <1>6, ClientUntouched, Zenon
  <1> QED  BY <1>1, <1>2, <1>3, <1>4, <1>5, <1>6, Zenon DEF Next, ClientNext

\* A call is answered once: a step of the client or the server never changes the
\* answer of a call that has one, whatever is lost, broken or late.
THEOREM CallsAnsweredOnce == Spec => AnsweredOnce
  <1>1. Init => mix \in Mixes /\ SavedOut
    BY Zenon DEF Init, SavedOut
  <1>2. mix \in Mixes /\ SavedOut /\ [Next]_vars => (mix \in Mixes /\ SavedOut)'
    BY MixFixed, SavedOutStep, Zenon
  <1>3. mix \in Mixes /\ SavedOut /\ [Next]_vars =>
           [\A c \in Calls : call[c].status \in Answers => call'[c].status = call[c].status]_vars
    BY SavedOutStep, Zenon
  <1> QED  BY <1>1, <1>2, <1>3, PTL DEF Spec, AnsweredOnce

\* The view of the parents agrees with the channels when these agree, however often
\* and in whatever order the two are lost and made again.
THEOREM ViewIsSound == Spec => []ViewSound
  <1>1. Init => ViewInv
    BY ConstantsAssumption DEF Init, ViewInv, ViewSound, First, Channels, ConstantsAssumption
  <1>2. ViewInv /\ [Next]_vars => ViewInv'
    <2> SUFFICES ASSUME ViewInv, [Next]_vars PROVE ViewInv'
      OBVIOUS
    <2>1. ASSUME NEW ch \in Channels, client_protocol_reconnect(ch)  PROVE ViewInv'
      BY <2>1, ConstantsAssumption
         DEF client_protocol_reconnect, ViewInv, ViewSound, Transports, ConstantsAssumption
    <2>2. ASSUME NEW ch \in Channels, protocol_client_pollin(ch)  PROVE ViewInv'
      BY <2>2, Zenon DEF protocol_client_pollin, ViewInv, ViewSound
    <2>3. ASSUME NEW ch \in Channels, protocol_client_cleanup(ch)  PROVE ViewInv'
      BY <2>3, Zenon DEF protocol_client_cleanup, ChildDown, ViewInv, ViewSound, Channels
    <2>4. CASE UNCHANGED <<conn, view>>
      BY <2>4, Zenon DEF ViewInv, ViewSound
    <2>5. ASSUME NEW ch \in Channels, Bail(ch)  PROVE UNCHANGED <<conn, view>>
      BY <2>5, Zenon DEF Bail
    <2>6. ASSUME NEW c \in Calls, NEW op, CallPath(c, op)  PROVE UNCHANGED <<conn, view>>
      BY <2>6, Zenon DEF CallPath
    <2>7. ASSUME NEW c \in Calls, NEW op, NEW f \in Fds, CallFd(c, op, f)
          PROVE  UNCHANGED <<conn, view>>
      BY <2>7, Zenon DEF CallFd
    <2>8. ASSUME NEW f \in Fds, client_release(f)  PROVE UNCHANGED <<conn, view>>
      BY <2>8, Zenon DEF client_release
    <2> QED  BY <2>1, <2>2, <2>3, <2>4, <2>5, <2>6, <2>7, <2>8, ClientUntouched, Zenon
                DEF Next, ClientNext
  <1>3. ViewInv => ViewSound
    BY Zenon DEF ViewInv
  <1> QED  BY <1>1, <1>2, <1>3, PTL DEF Spec
-----------------------------------------------------------------------------
(* Where a call is.  tr is the transports, cl the calls, fl the client's   *)
(* descriptors, fds the server's table, before or after a step.            *)

Requests ==
    [kind : {"setvolume"}] \cup [kind : {"release"}, slot : Slots]
      \cup [kind : {"fop"}, c : Calls, slot : {0} \cup Slots]

Replies ==
    [kind : {"setvolume"}]
      \cup [kind : {"reply"}, c : Calls, status : {"ok", "error"}, slot : {0} \cup Slots, gen : Nat]

TransportRec ==
    [ch : Channels \cup {"none"}, client : {"open", "broken", "shut", "gone"}, live : BOOLEAN,
     req : Seq(Requests), rep : Seq(Replies), walking : SUBSET Calls, running : SUBSET Calls,
     gen : Nat]

\* Message m, other than SETVOLUME, is the i-th of queue k of transport t.
Queue(tr, k, t) == IF k = "req" THEN tr[t].req ELSE tr[t].rep

Has(tr, k, t, i, m) ==
    /\ k \in {"req", "rep"} /\ t \in Transports /\ i \in 1 .. Len(Queue(tr, k, t))
    /\ m = Queue(tr, k, t)[i] /\ m.kind # "setvolume"

\* Call c is in place k of transport t: in a queue, as its i-th message, or at the
\* server.
Set(tr, k, t) == IF k = "walk" THEN tr[t].walking ELSE tr[t].running

In(tr, k, t, i, c) ==
    \/ \E m : Has(tr, k, t, i, m) /\ m.kind \in {"fop", "reply"} /\ m.c = c
    \/ k \in {"walk", "run"} /\ t \in Transports /\ i = 0 /\ c \in Set(tr, k, t)

Nowhere(tr, c) == \A k, t, i : ~In(tr, k, t, i, c)

\* The server has still to answer call c.
Pending(tr, c) == \E k, t, i : In(tr, k, t, i, c) /\ k # "rep"

\* Some messages and calls are gone, from the front of the queues and from the server.
Fewer(tr, tr2) ==
    /\ \A k, t : \E n \in Nat : \A i, m : Has(tr2, k, t, i, m) => Has(tr, k, t, i + n, m)
    /\ \A k, t : t \in Transports => Set(tr2, k, t) \subseteq Set(tr, k, t)

\* The messages and the calls at the server are the same.
SameQueues(tr, tr2) ==
    \A t \in Transports :
        /\ tr2[t].req = tr[t].req /\ tr2[t].rep = tr[t].rep
        /\ tr2[t].walking = tr[t].walking /\ tr2[t].running = tr[t].running

SamePlace(k, t, i, l, u, j) == k = l /\ t = u /\ i = j

\* Message m0 may have been put at the end of a queue.
PostsAt(tr, tr2, k0, t0, i0, m0) ==
    \A k, t, i, m :
        Has(tr2, k, t, i, m) => Has(tr, k, t, i, m) \/ (SamePlace(k, t, i, k0, t0, i0) /\ m = m0)

Posts(tr, tr2, k0, m0) ==
    /\ \E t0, i0 : PostsAt(tr, tr2, k0, t0, i0, m0)
    /\ \A k, t : t \in Transports => Set(tr2, k, t) \subseteq Set(tr, k, t)

\* Call c0 is taken up by the server, in place k0.
TakesAt(tr, tr2, k0, t0, c0) ==
    \A k, t, c :
        k \in {"walk", "run"} /\ t \in Transports /\ c \in Set(tr2, k, t) =>
           c \in Set(tr, k, t) \/ (k = k0 /\ t = t0 /\ c = c0)

Takes(tr, tr2, k0, c0) ==
    /\ \A k, t, i, m : Has(tr2, k, t, i, m) => Has(tr, k, t, i, m)
    /\ \E t0 : TakesAt(tr, tr2, k0, t0, c0)

\* Call c0 may be in one more place, k0.
AddsAt(tr, tr2, k0, t0, i0, c0) ==
    \A k, t, i, c :
        In(tr2, k, t, i, c) => In(tr, k, t, i, c) \/ (SamePlace(k, t, i, k0, t0, i0) /\ c = c0)

Adds(tr, tr2, k0, c0) == \E t0, i0 : AddsAt(tr, tr2, k0, t0, i0, c0)

\* No message and no call is in place 0 of a queue.
LEMMA PlaceIsNat ==
    \A tr, k, t, i :
        /\ \A m : Has(tr, k, t, i, m) => i \in Nat \ {0} /\ t \in Transports /\ k \in {"req", "rep"}
        /\ \A c : In(tr, k, t, i, c) => i \in Nat /\ t \in Transports
  <1>1. \A tr, k, t : Len(Queue(tr, k, t)) \in Int => 1 .. Len(Queue(tr, k, t)) \subseteq Nat \ {0}
    OBVIOUS
  <1> QED  BY DEF Has, In

\* A step that leaves the queues and the sets of calls alone adds nothing to them.
LEMMA SameIsFewer ==
    ASSUME NEW tr, NEW tr2, SameQueues(tr, tr2)
    PROVE  Fewer(tr, tr2)
  <1>0. \A k, t : t \in Transports => Queue(tr2, k, t) = Queue(tr, k, t)
    BY Zenon DEF SameQueues, Queue
  <1>1. \A k, t, i, m : Has(tr2, k, t, i, m) => Has(tr, k, t, i, m)
    <2> SUFFICES ASSUME NEW k, NEW t, NEW i, NEW m, Has(tr2, k, t, i, m)
                 PROVE  Has(tr, k, t, i, m)
      OBVIOUS
    <2>1. Queue(tr2, k, t) = Queue(tr, k, t)
      BY <1>0, Zenon DEF Has
    <2> QED  BY <2>1, Zenon DEF Has
  <1>2. \A k, t, i, m : Has(tr, k, t, i, m) => Has(tr, k, t, i + 0, m)
    <2>1. \A i \in Nat \ {0} : i + 0 = i
      OBVIOUS
    <2> QED  BY <2>1, PlaceIsNat, Zenon
  <1>3. \A k, t : t \in Transports => Set(tr2, k, t) \subseteq Set(tr, k, t)
    BY Zenon DEF SameQueues, Set
  <1>4. \A k, t : \A i, m : Has(tr2, k, t, i, m) => Has(tr, k, t, i + 0, m)
    BY <1>1, <1>2, Zenon
  <1> QED
    <2>1. 0 \in Nat
      OBVIOUS
    <2> QED  BY <1>3, <1>4, <2>1, Zenon DEF Fewer

\* A call is in one place at most, and it is made and not answered by the server.
OnePlace(tr, cl) ==
    /\ \A c, k, l, t, u, i, j :
          In(tr, k, t, i, c) /\ In(tr, l, u, j, c) => SamePlace(k, t, i, l, u, j)
    /\ \A c : Nowhere(tr, c) \/ (c \in Calls /\ cl[c].status \in {"out", "notconn"})

\* The first message of a queue is gone.
Pops(tr, tr2, k, t) ==
    Fewer(tr, tr2) /\ \A i, m : Has(tr2, k, t, i, m) => Has(tr, k, t, i + 1, m)

\* With fewer messages, a call is where it was, further on in its queue.
Shifts(tr, tr2, k, t) ==
    \E n \in Nat : \A i, c : In(tr2, k, t, i, c) => In(tr, k, t, i + n, c)

\* With fewer messages under way, a call that was nowhere still is, and one that is
\* pending was so before.
LEMMA FewerIn ==
    ASSUME NEW tr, NEW tr2, Fewer(tr, tr2)
    PROVE  /\ \A k, t : Shifts(tr, tr2, k, t)
           /\ \A c : Nowhere(tr, c) => Nowhere(tr2, c)
           /\ \A c : Pending(tr2, c) => Pending(tr, c)
  <1>1. ASSUME NEW k, NEW t
        PROVE  Shifts(tr, tr2, k, t)
    <2>1. CASE k \in {"req", "rep"}
      <3>1. PICK n \in Nat : \A i, m : Has(tr2, k, t, i, m) => Has(tr, k, t, i + n, m)
        BY Zenon DEF Fewer
      <3>2. k \notin {"walk", "run"}
        BY <2>1, Zenon
      <3>3. \A i, c : In(tr2, k, t, i, c) => In(tr, k, t, i + n, c)
        BY <3>1, <3>2, Zenon DEF In
      <3> QED  BY <3>3, Zenon DEF Shifts
    <2>2. CASE k \notin {"req", "rep"}
      <3>1. \A i, m : ~Has(tr2, k, t, i, m)
        BY <2>2, Zenon DEF Has
      <3>2. 0 \in Nat /\ 0 + 0 = 0
        OBVIOUS
      <3>3. \A i, c : In(tr2, k, t, i, c) =>
               k \in {"walk", "run"} /\ t \in Transports /\ i = 0 /\ c \in Set(tr, k, t)
        BY <3>1, Zenon DEF In, Fewer
      <3>4. \A i, c : In(tr2, k, t, i, c) => In(tr, k, t, i + 0, c)
        BY <3>2, <3>3, Zenon DEF In
      <3> QED  BY <3>2, <3>4, Zenon DEF Shifts
    <2> QED  BY <2>1, <2>2, Zenon
  <1>2. \A c : Nowhere(tr, c) => Nowhere(tr2, c)
    BY <1>1, Zenon DEF Nowhere, Shifts
  <1>3. \A c : Pending(tr2, c) => Pending(tr, c)
    BY <1>1, Zenon DEF Pending, Shifts
  <1> QED  BY <1>1, <1>2, <1>3, Zenon

\* Taking a message or a call off (Tail of a queue, a call off its set) keeps every
\* call in one place at most.
LEMMA OnePlaceFewer ==
    ASSUME NEW tr, NEW tr2, NEW cl, OnePlace(tr, cl), Fewer(tr, tr2)
    PROVE  OnePlace(tr2, cl)
  <1>1. ASSUME NEW c, NEW k, NEW l, NEW t, NEW u, NEW i, NEW j,
               In(tr2, k, t, i, c), In(tr2, l, u, j, c)
        PROVE  SamePlace(k, t, i, l, u, j)
    <2>1. PICK n \in Nat : \A x, d : In(tr2, k, t, x, d) => In(tr, k, t, x + n, d)
      <3>1. Shifts(tr, tr2, k, t)
        BY FewerIn, Zenon
      <3> QED  BY <3>1, Zenon DEF Shifts
    <2>2. PICK o \in Nat : \A x, d : In(tr2, l, u, x, d) => In(tr, l, u, x + o, d)
      <3>1. Shifts(tr, tr2, l, u)
        BY FewerIn, Zenon
      <3> QED  BY <3>1, Zenon DEF Shifts
    <2>3. SamePlace(k, t, i + n, l, u, j + o)
      BY <1>1, <2>1, <2>2, Zenon DEF OnePlace
    <2>4. In(tr, k, t, i + n, c) /\ In(tr, k, t, j + n, c)
      BY <1>1, <2>1, <2>3, Zenon DEF SamePlace
    <2>5. SamePlace(k, t, i + n, k, t, j + n)
      BY <2>4, Zenon DEF OnePlace
    <2>6. i \in Nat /\ j \in Nat
      BY <1>1, PlaceIsNat, Zenon
    <2>7. i = j
      BY <2>5, <2>6 DEF SamePlace
    <2> QED  BY <2>3, <2>7, Zenon DEF SamePlace
  <1>2. \A c : Nowhere(tr2, c) \/ (c \in Calls /\ cl[c].status \in {"out", "notconn"})
    BY FewerIn, Zenon DEF OnePlace
  <1> QED  BY <1>1, <1>2, Zenon DEF OnePlace

\* A call that was nowhere may be put in one place.
LEMMA OnePlaceAdds ==
    ASSUME NEW tr, NEW tr2, NEW cl, OnePlace(tr, cl), NEW k0, NEW c0 \in Calls,
           Nowhere(tr, c0), Adds(tr, tr2, k0, c0), cl[c0].status \in {"out", "notconn"}
    PROVE  /\ OnePlace(tr2, cl)
           /\ \A k, t, i : In(tr2, k, t, i, c0) => k = k0
           /\ \A c : c # c0 => (Pending(tr2, c) => Pending(tr, c)) /\ (Nowhere(tr, c) => Nowhere(tr2, c))
  <1>0. PICK t0, i0 : AddsAt(tr, tr2, k0, t0, i0, c0)
    BY Zenon DEF Adds
  <1>1. \A k, t, i, c :
           In(tr2, k, t, i, c) => In(tr, k, t, i, c) \/ (SamePlace(k, t, i, k0, t0, i0) /\ c = c0)
    BY <1>0, Zenon DEF AddsAt
  <1>2. \A k, t, i : In(tr2, k, t, i, c0) => SamePlace(k, t, i, k0, t0, i0)
    BY <1>1, Zenon DEF Nowhere
  <1>3. \A c, k, t, i : c # c0 /\ In(tr2, k, t, i, c) => In(tr, k, t, i, c)
    BY <1>1
  <1>4. ASSUME NEW c, NEW k, NEW l, NEW t, NEW u, NEW i, NEW j,
               In(tr2, k, t, i, c), In(tr2, l, u, j, c)
        PROVE  SamePlace(k, t, i, l, u, j)
    <2>1. CASE c = c0
      BY <1>2, <1>4, <2>1 DEF SamePlace
    <2>2. CASE c # c0
      BY <1>3, <1>4, <2>2, Zenon DEF OnePlace
    <2> QED  BY <2>1, <2>2, Zenon
  <1>5. \A c : c # c0 => (Pending(tr2, c) => Pending(tr, c)) /\ (Nowhere(tr, c) => Nowhere(tr2, c))
    BY <1>3, Zenon DEF Pending, Nowhere
  <1>6. \A c : Nowhere(tr2, c) \/ (c \in Calls /\ cl[c].status \in {"out", "notconn"})
    BY <1>5, Zenon DEF OnePlace
  <1>7. OnePlace(tr2, cl)
    BY <1>4, <1>6, Zenon DEF OnePlace
  <1> QED  BY <1>2, <1>5, <1>7, Zenon DEF SamePlace

\* A call whose message is taken off its queue is nowhere.
LEMMA PopsCall ==
    ASSUME NEW tr, NEW tr2, NEW cl, OnePlace(tr, cl), NEW k, NEW t, Pops(tr, tr2, k, t),
           NEW m, Has(tr, k, t, 1, m), m.kind \in {"fop", "reply"}
    PROVE  Nowhere(tr2, m.c)
  <1>1. In(tr, k, t, 1, m.c) /\ k \in {"req", "rep"}
    BY Zenon DEF In, Has
  <1>2. ASSUME NEW l, NEW u, NEW j, In(tr2, l, u, j, m.c) PROVE FALSE
    <2>1. PICK n \in Nat : \A x, d : In(tr2, l, u, x, d) => In(tr, l, u, x + n, d)
      <3>1. Shifts(tr, tr2, l, u)
        BY FewerIn, Zenon DEF Pops
      <3> QED  BY <3>1, Zenon DEF Shifts
    <2>a. In(tr, l, u, j + n, m.c)
      BY <1>2, <2>1, Zenon
    <2>b. SamePlace(l, u, j + n, k, t, 1)
      BY <1>1, <2>a, Zenon DEF OnePlace
    <2>2. l = k /\ u = t
      BY <2>b, Zenon DEF SamePlace
    <2>3. k \notin {"walk", "run"}
      BY <1>1, Zenon
    <2>4. PICK o : Has(tr2, k, t, j, o) /\ o.kind \in {"fop", "reply"} /\ o.c = m.c
      BY <1>2, <2>2, <2>3, Zenon DEF In
    <2>5. In(tr, k, t, j + 1, m.c)
      BY <2>4, Zenon DEF Pops, In
    <2>6. j + 1 = 1
      BY <1>1, <2>5, Zenon DEF OnePlace, SamePlace
    <2>7. j \in Nat \ {0}
      BY <2>4, PlaceIsNat, Zenon
    <2> QED  BY <2>6, <2>7
  <1> QED  BY <1>2, Zenon DEF Nowhere

\* A call that the server lets go of is nowhere.
LEMMA DropsCall ==
    ASSUME NEW tr, NEW tr2, NEW cl, OnePlace(tr, cl), Fewer(tr, tr2), NEW k \in {"walk", "run"},
           NEW t \in Transports, NEW c \in Set(tr, k, t), c \notin Set(tr2, k, t)
    PROVE  Nowhere(tr2, c)
  <1>1. In(tr, k, t, 0, c)
    BY Zenon DEF In
  <1>2. ASSUME NEW l, NEW u, NEW j, In(tr2, l, u, j, c) PROVE FALSE
    <2>1. PICK n \in Nat : \A x, d : In(tr2, l, u, x, d) => In(tr, l, u, x + n, d)
      <3>1. Shifts(tr, tr2, l, u)
        BY FewerIn, Zenon
      <3> QED  BY <3>1, Zenon DEF Shifts
    <2>a. In(tr, l, u, j + n, c)
      BY <1>2, <2>1, Zenon
    <2>b. SamePlace(l, u, j + n, k, t, 0)
      BY <1>1, <2>a, Zenon DEF OnePlace
    <2>2. l = k /\ u = t
      BY <2>b, Zenon DEF SamePlace
    <2>3. k \notin {"req", "rep"}
      OBVIOUS
    <2> QED  BY <1>2, <2>2, <2>3, Zenon DEF In, Has
  <1> QED  BY <1>2, Zenon DEF Nowhere

\* A message put on a transport (socket_submit) adds the call it carries, if any, and
\* nothing else.
LEMMA PostsAdds ==
    ASSUME NEW tr, NEW tr2, NEW k0, NEW m0, Posts(tr, tr2, k0, m0)
    PROVE  /\ m0.kind \in {"fop", "reply"} => Adds(tr, tr2, k0, m0.c)
           /\ m0.kind \notin {"fop", "reply"} => \A c : Adds(tr, tr2, k0, c)
  <1>0. PICK t0, i0 : PostsAt(tr, tr2, k0, t0, i0, m0)
    BY Zenon DEF Posts
  <1>1. \A k, t, i, m :
          Has(tr2, k, t, i, m) => Has(tr, k, t, i, m) \/ (SamePlace(k, t, i, k0, t0, i0) /\ m = m0)
    BY <1>0, Zenon DEF PostsAt
  <1>2. \A k, t : t \in Transports => Set(tr2, k, t) \subseteq Set(tr, k, t)
    BY Zenon DEF Posts
  <1>3. ASSUME NEW k, NEW t, NEW i, NEW c, In(tr2, k, t, i, c)
        PROVE  \/ In(tr, k, t, i, c)
               \/ SamePlace(k, t, i, k0, t0, i0) /\ c = m0.c /\ m0.kind \in {"fop", "reply"}
    <2>1. CASE \E m : Has(tr2, k, t, i, m) /\ m.kind \in {"fop", "reply"} /\ m.c = c
      <3>1. PICK m : Has(tr2, k, t, i, m) /\ m.kind \in {"fop", "reply"} /\ m.c = c
        BY <2>1, Zenon
      <3>2. CASE Has(tr, k, t, i, m)
        BY <3>1, <3>2, Zenon DEF In
      <3>3. CASE SamePlace(k, t, i, k0, t0, i0) /\ m = m0
        BY <3>1, <3>3, Zenon
      <3> QED  BY <1>1, <3>1, <3>2, <3>3
    <2>2. CASE k \in {"walk", "run"} /\ t \in Transports /\ i = 0 /\ c \in Set(tr2, k, t)
      BY <1>2, <2>2, Zenon DEF In
    <2> QED  BY <1>3, <2>1, <2>2, Zenon DEF In
  <1>4. ASSUME NEW c0, m0.kind \in {"fop", "reply"} => c0 = m0.c  PROVE Adds(tr, tr2, k0, c0)
    <2>1. AddsAt(tr, tr2, k0, t0, i0, c0)
      BY <1>3, <1>4 DEF AddsAt
    <2> QED  BY <2>1, Zenon DEF Adds
  <1> QED  BY <1>4, Zenon

\* A call the server takes up (server_fop, server_stub_resume) is the only one added.
LEMMA TakesAdds ==
    ASSUME NEW tr, NEW tr2, NEW k0, NEW c0, Takes(tr, tr2, k0, c0)
    PROVE  Adds(tr, tr2, k0, c0)
  <1>1. \A k, t, i, m : Has(tr2, k, t, i, m) => Has(tr, k, t, i, m)
    BY Zenon DEF Takes
  <1>2. PICK t0 : TakesAt(tr, tr2, k0, t0, c0)
    BY Zenon DEF Takes
  <1>3. ASSUME NEW k, NEW t, NEW i, NEW c, In(tr2, k, t, i, c)
        PROVE  In(tr, k, t, i, c) \/ (SamePlace(k, t, i, k0, t0, 0) /\ c = c0)
    <2>1. CASE \E m : Has(tr2, k, t, i, m) /\ m.kind \in {"fop", "reply"} /\ m.c = c
      BY <1>1, <2>1, Zenon DEF In
    <2>2. CASE k \in {"walk", "run"} /\ t \in Transports /\ i = 0 /\ c \in Set(tr2, k, t)
      <3>1. CASE c \in Set(tr, k, t)
        BY <2>2, <3>1, Zenon DEF In
      <3>2. CASE k = k0 /\ t = t0 /\ c = c0
        BY <2>2, <3>2, Zenon DEF SamePlace
      <3> QED  BY <1>2, <2>2, <3>1, <3>2 DEF TakesAt
    <2> QED  BY <1>3, <2>1, <2>2, Zenon DEF In
  <1>4. AddsAt(tr, tr2, k0, t0, 0, c0)
    BY <1>3, Zenon DEF AddsAt
  <1> QED  BY <1>4, Zenon DEF Adds

\* A transport with one field changed is a transport.
LEMMA RecordTyped ==
    ASSUME NEW tr \in [Transports -> TransportRec], NEW t \in Transports
    PROVE  /\ \A q \in Seq(Requests) : [tr EXCEPT ![t].req = q] \in [Transports -> TransportRec]
           /\ \A q \in Seq(Replies) : [tr EXCEPT ![t].rep = q] \in [Transports -> TransportRec]
           /\ \A q \in SUBSET Calls : [tr EXCEPT ![t].walking = q] \in [Transports -> TransportRec]
           /\ \A q \in SUBSET Calls : [tr EXCEPT ![t].running = q] \in [Transports -> TransportRec]
           /\ \A q \in Nat : [tr EXCEPT ![t].gen = q] \in [Transports -> TransportRec]
           /\ \A q \in {"open", "broken", "shut", "gone"} :
                 [tr EXCEPT ![t].client = q] \in [Transports -> TransportRec]
           /\ \A q \in BOOLEAN : [tr EXCEPT ![t].live = q] \in [Transports -> TransportRec]
  <1> DEFINE R == Seq(Requests)  P == Seq(Replies)  C == SUBSET Calls
  <1>1. TransportRec =
          [ch : Channels \cup {"none"}, client : {"open", "broken", "shut", "gone"}, live : BOOLEAN,
           req : R, rep : P, walking : C, running : C, gen : Nat]
    BY Zenon DEF TransportRec
  <1> HIDE DEF R, P, C
  <1>2. \A q \in R : [tr EXCEPT ![t].req = q] \in [Transports -> TransportRec]
    BY <1>1
  <1>3. \A q \in P : [tr EXCEPT ![t].rep = q] \in [Transports -> TransportRec]
    BY <1>1
  <1>4. \A q \in C : [tr EXCEPT ![t].walking = q] \in [Transports -> TransportRec]
    BY <1>1
  <1>5. \A q \in C : [tr EXCEPT ![t].running = q] \in [Transports -> TransportRec]
    BY <1>1
  <1>6. \A q \in Nat : [tr EXCEPT ![t].gen = q] \in [Transports -> TransportRec]
    BY <1>1
  <1>7. \A q \in {"open", "broken", "shut", "gone"} :
           [tr EXCEPT ![t].client = q] \in [Transports -> TransportRec]
    BY <1>1
  <1>8. \A q \in BOOLEAN : [tr EXCEPT ![t].live = q] \in [Transports -> TransportRec]
    BY <1>1
  <1> QED  BY <1>2, <1>3, <1>4, <1>5, <1>6, <1>7, <1>8, Zenon DEF R, P, C

\* The server or the client reads the next message of a transport.
LEMMA TailPops ==
    ASSUME NEW tr \in [Transports -> TransportRec], NEW t \in Transports, NEW k \in {"req", "rep"},
           NEW tr2, tr2 = IF k = "req" THEN [tr EXCEPT ![t].req = Tail(@)]
                                       ELSE [tr EXCEPT ![t].rep = Tail(@)],
           Queue(tr, k, t) # <<>>
    PROVE  /\ tr2 \in [Transports -> TransportRec]
           /\ Pops(tr, tr2, k, t)
           /\ Head(Queue(tr, k, t)).kind # "setvolume" => Has(tr, k, t, 1, Head(Queue(tr, k, t)))
  <1>1. tr[t].req \in Seq(Requests) /\ tr[t].rep \in Seq(Replies) /\ tr[t] \in TransportRec
    BY Zenon DEF TransportRec
  <1>2. tr2 \in [Transports -> TransportRec]
    <2>1. /\ k = "req" => Tail(tr[t].req) \in Seq(Requests)
          /\ k = "rep" => Tail(tr[t].rep) \in Seq(Replies)
      BY <1>1 DEF Queue
    <2>2. /\ \A q \in Seq(Requests) : [tr EXCEPT ![t].req = q] \in [Transports -> TransportRec]
          /\ \A q \in Seq(Replies) : [tr EXCEPT ![t].rep = q] \in [Transports -> TransportRec]
      BY <1>1, RecordTyped, Zenon
    <2>3. /\ k = "req" => tr2 = [tr EXCEPT ![t].req = Tail(tr[t].req)]
          /\ k = "rep" => tr2 = [tr EXCEPT ![t].rep = Tail(tr[t].rep)]
      OBVIOUS
    <2>4. CASE k = "req"
      BY <2>1, <2>2, <2>3, <2>4, Zenon
    <2>5. CASE k = "rep"
      BY <2>1, <2>2, <2>3, <2>5, Zenon
    <2> QED  BY <2>4, <2>5, Zenon
  <1>3. /\ Queue(tr2, k, t) = Tail(Queue(tr, k, t))
        /\ \A l, u : u \in Transports /\ l \in {"req", "rep"} /\ (l # k \/ u # t) =>
              Queue(tr2, l, u) = Queue(tr, l, u)
        /\ \A l, u : u \in Transports => Set(tr2, l, u) = Set(tr, l, u)
    BY <1>1 DEF Queue, Set, TransportRec
  <1>4. \E S : Queue(tr, k, t) \in Seq(S)
    BY <1>1, Zenon DEF Queue
  <1>5. /\ Len(Queue(tr, k, t)) \in Nat \ {0} /\ Head(Queue(tr, k, t)) = Queue(tr, k, t)[1]
        /\ Len(Tail(Queue(tr, k, t))) = Len(Queue(tr, k, t)) - 1
        /\ \A i \in 1 .. Len(Tail(Queue(tr, k, t))) :
              Tail(Queue(tr, k, t))[i] = Queue(tr, k, t)[i + 1]
    BY <1>4
  <1>6. \A i, m : Has(tr2, k, t, i, m) => Has(tr, k, t, i + 1, m)
    BY <1>3, <1>5 DEF Has
  <1>7. ASSUME NEW l, NEW u, l # k \/ u # t
        PROVE  \A i, m : Has(tr2, l, u, i, m) => Has(tr, l, u, i + 0, m)
    <2> SUFFICES ASSUME NEW i, NEW m, Has(tr2, l, u, i, m) PROVE Has(tr, l, u, i + 0, m)
      OBVIOUS
    <2>1. Queue(tr2, l, u) = Queue(tr, l, u)
      BY <1>3, <1>7, Zenon DEF Has
    <2>2. i \in Nat \ {0}
      BY PlaceIsNat, Zenon
    <2>3. i + 0 = i
      BY <2>2
    <2> QED  BY <2>1, <2>3, Zenon DEF Has
  <1>8. Fewer(tr, tr2)
    <2>1. 0 \in Nat /\ 1 \in Nat
      OBVIOUS
    <2>2. ASSUME NEW l, NEW u
          PROVE  \E n \in Nat : \A i, m : Has(tr2, l, u, i, m) => Has(tr, l, u, i + n, m)
      BY <1>6, <1>7, <2>1, Zenon
    <2>3. \A l, u : u \in Transports => Set(tr2, l, u) \subseteq Set(tr, l, u)
      BY <1>3, Zenon
    <2> QED  BY <2>2, <2>3, Zenon DEF Fewer
  <1>9. 1 \in 1 .. Len(Queue(tr, k, t))
    BY <1>5
  <1>10. Head(Queue(tr, k, t)).kind # "setvolume" => Has(tr, k, t, 1, Head(Queue(tr, k, t)))
    BY <1>5, <1>9, Zenon DEF Has
  <1> QED  BY <1>2, <1>6, <1>8, <1>10, Zenon DEF Pops

\* A message goes to the end of a queue, or nowhere (socket_submit).
LEMMA SubmitPosts ==
    ASSUME NEW tr \in [Transports -> TransportRec], NEW t \in Transports,
           NEW end \in {"client", "server"}, NEW k, k = IF end = "client" THEN "req" ELSE "rep",
           NEW m, k = "req" => m \in Requests, k = "rep" => m \in Replies
    PROVE  /\ socket_submit(tr, t, end, m) \in [Transports -> TransportRec]
           /\ Posts(tr, socket_submit(tr, t, end, m), k, m)
           /\ m.kind = "setvolume" => Fewer(tr, socket_submit(tr, t, end, m))
  <1> DEFINE tr2 == socket_submit(tr, t, end, m)
  <1>0. tr[t].req \in Seq(Requests) /\ tr[t].rep \in Seq(Replies) /\ k \in {"req", "rep"}
    BY Zenon DEF TransportRec
  <1>1. CASE tr2 = tr
    <2>1. PostsAt(tr, tr, k, t, 0, m)
      BY Zenon DEF PostsAt
    <2>2. Posts(tr, tr, k, m)
      BY <2>1, Zenon DEF Posts
    <2>3. Fewer(tr, tr)
      BY SameIsFewer, Zenon DEF SameQueues
    <2> QED  BY <1>1, <2>2, <2>3, Zenon
  <1>2. CASE tr2 # tr
    <2>1. /\ k = "req" => tr2 = [tr EXCEPT ![t].req = Append(tr[t].req, m)]
          /\ k = "rep" => tr2 = [tr EXCEPT ![t].rep = Append(tr[t].rep, m)]
      BY <1>2, Zenon DEF socket_submit
    <2>2. /\ k = "req" => Append(tr[t].req, m) \in Seq(Requests)
          /\ k = "rep" => Append(tr[t].rep, m) \in Seq(Replies)
      BY <1>0
    <2>3. tr2 \in [Transports -> TransportRec]
      <3>0. /\ \A q \in Seq(Requests) : [tr EXCEPT ![t].req = q] \in [Transports -> TransportRec]
            /\ \A q \in Seq(Replies) : [tr EXCEPT ![t].rep = q] \in [Transports -> TransportRec]
        BY RecordTyped, Zenon
      <3>1. CASE k = "req"
        BY <2>1, <2>2, <3>0, <3>1, Zenon
      <3>2. CASE k = "rep"
        BY <2>1, <2>2, <3>0, <3>2, Zenon
      <3> QED  BY <1>0, <3>1, <3>2, Zenon
    <2> HIDE DEF tr2
    <2>4. /\ Queue(tr2, k, t) = Append(Queue(tr, k, t), m)
          /\ \A l, u : u \in Transports /\ l \in {"req", "rep"} /\ (l # k \/ u # t) =>
                Queue(tr2, l, u) = Queue(tr, l, u)
          /\ \A l, u : u \in Transports => Set(tr2, l, u) = Set(tr, l, u)
      <3>1. CASE k = "req"
        <4>1. /\ tr2[t].req = Append(tr[t].req, m) /\ tr2[t].rep = tr[t].rep
              /\ tr2[t].walking = tr[t].walking /\ tr2[t].running = tr[t].running
              /\ \A u \in Transports : u # t => tr2[u] = tr[u]
          BY <2>1, <3>1 DEF TransportRec
        <4> QED  BY <3>1, <4>1, Zenon DEF Queue, Set
      <3>2. CASE k = "rep"
        <4>1. /\ tr2[t].rep = Append(tr[t].rep, m) /\ tr2[t].req = tr[t].req
              /\ tr2[t].walking = tr[t].walking /\ tr2[t].running = tr[t].running
              /\ \A u \in Transports : u # t => tr2[u] = tr[u]
          BY <2>1, <3>2 DEF TransportRec
        <4> QED  BY <3>2, <4>1 DEF Queue, Set
      <3> QED  BY <1>0, <3>1, <3>2, Zenon
    <2>5. PICK S : Queue(tr, k, t) \in Seq(S) /\ m \in S
      BY <1>0, Zenon DEF Queue
    <2> DEFINE q == Queue(tr, k, t)  n == Len(q) + 1
    <2>6. /\ Len(q) \in Nat /\ Len(Append(q, m)) = n
          /\ \A i \in 1 .. n : IF i = n THEN Append(q, m)[i] = m
                               ELSE i \in 1 .. Len(q) /\ Append(q, m)[i] = q[i]
      BY <2>5
    <2>7. ASSUME NEW l, NEW u, NEW i, NEW o, Has(tr2, l, u, i, o)
          PROVE  Has(tr, l, u, i, o) \/ (SamePlace(l, u, i, k, t, n) /\ o = m)
      <3>1. CASE l = k /\ u = t
        <4>1. i \in 1 .. n /\ o = Append(q, m)[i] /\ o.kind # "setvolume"
          BY <2>4, <2>6, <2>7, <3>1, Zenon DEF Has
        <4>2. CASE i = n
          BY <2>6, <3>1, <4>1, <4>2, Zenon DEF SamePlace
        <4>3. CASE i # n
          BY <1>0, <2>6, <3>1, <4>1, <4>3, Zenon DEF Has
        <4> QED  BY <4>2, <4>3, Zenon
      <3>2. CASE l # k \/ u # t
        <4>1. Queue(tr2, l, u) = Queue(tr, l, u)
          BY <2>4, <2>7, <3>2, Zenon DEF Has
        <4> QED  BY <2>7, <4>1, Zenon DEF Has
      <3> QED  BY <3>1, <3>2, Zenon
    <2> HIDE DEF n, q
    <2>8. PostsAt(tr, tr2, k, t, n, m)
      BY <2>7, Zenon DEF PostsAt
    <2>9. \A l, u : u \in Transports => Set(tr2, l, u) \subseteq Set(tr, l, u)
      BY <2>4, Zenon
    <2>10. Posts(tr, tr2, k, m)
      BY <2>8, <2>9, Zenon DEF Posts
    <2>11. ASSUME m.kind = "setvolume" PROVE Fewer(tr, tr2)
      <3>1. ASSUME NEW l, NEW u, NEW i, NEW o, Has(tr2, l, u, i, o)
            PROVE  Has(tr, l, u, i + 0, o)
        <4>1. o # m
          BY <2>11, <3>1, Zenon DEF Has
        <4>2. i \in Nat \ {0}
          BY <3>1, PlaceIsNat, Zenon
        <4>3. i + 0 = i
          BY <4>2
        <4>4. Has(tr, l, u, i, o)
          BY <2>7, <3>1, <4>1
        <4> QED  BY <4>3, <4>4, Zenon
      <3>2. 0 \in Nat
        OBVIOUS
      <3> QED  BY <2>9, <3>1, <3>2, Zenon DEF Fewer
    <2> QED  BY <2>3, <2>10, <2>11, Zenon DEF tr2
  <1> QED  BY <1>1, <1>2, Zenon

\* The connection may be left, the queues stay as they are (transport_unref).
LEMMA UnrefSame ==
    ASSUME NEW tr \in [Transports -> TransportRec], NEW t \in Transports
    PROVE  /\ transport_unref(tr, t) \in [Transports -> TransportRec]
           /\ SameQueues(tr, transport_unref(tr, t))
  <1>1. 0 \in Nat
    OBVIOUS
  <1>2. [tr EXCEPT ![t].gen = 0] \in [Transports -> TransportRec]
    BY <1>1, RecordTyped, Zenon
  <1>3. SameQueues(tr, [tr EXCEPT ![t].gen = 0])
    BY Zenon DEF SameQueues, TransportRec
  <1>4. SameQueues(tr, tr)
    BY Zenon DEF SameQueues
  <1> QED  BY <1>2, <1>3, <1>4, Zenon DEF transport_unref

\* With the queues as they are and fewer calls at the server there is less of all.
LEMMA SetsFewer ==
    ASSUME NEW tr, NEW tr2,
           \A t \in Transports : tr2[t].req = tr[t].req /\ tr2[t].rep = tr[t].rep
    PROVE  /\ \A k, t, i, m : Has(tr2, k, t, i, m) => Has(tr, k, t, i, m)
           /\ (\A k, t : t \in Transports => Set(tr2, k, t) \subseteq Set(tr, k, t)) => Fewer(tr, tr2)
  <1>1. ASSUME NEW k, NEW t, NEW i, NEW m, Has(tr2, k, t, i, m)  PROVE Has(tr, k, t, i, m)
    <2>1. Queue(tr2, k, t) = Queue(tr, k, t)
      BY <1>1, Zenon DEF Has, Queue
    <2> QED  BY <1>1, <2>1, Zenon DEF Has
  <1>2. ASSUME NEW k, NEW t, NEW i, NEW m, Has(tr2, k, t, i, m)  PROVE Has(tr, k, t, i + 0, m)
    <2>1. i \in Nat \ {0}
      BY <1>2, PlaceIsNat, Zenon
    <2>2. i + 0 = i
      BY <2>1
    <2> QED  BY <1>1, <1>2, <2>2, Zenon
  <1>3. 0 \in Nat
    OBVIOUS
  <1> QED  BY <1>1, <1>2, <1>3, Zenon DEF Fewer

\* The server lets go of a call (server_stub_resume, the callbacks).
LEMMA LetsGo ==
    ASSUME NEW tr \in [Transports -> TransportRec], NEW t \in Transports, NEW k \in {"walk", "run"},
           NEW c, NEW tr2, tr2 = IF k = "walk" THEN [tr EXCEPT ![t].walking = @ \ {c}]
                                               ELSE [tr EXCEPT ![t].running = @ \ {c}]
    PROVE  tr2 \in [Transports -> TransportRec] /\ Fewer(tr, tr2) /\ c \notin Set(tr2, k, t)
  <1>1. /\ tr[t].walking \in SUBSET Calls /\ tr[t].running \in SUBSET Calls
        /\ \A u \in Transports : tr[u] \in TransportRec
    BY Zenon DEF TransportRec
  <1>2. tr[t].walking \ {c} \in SUBSET Calls /\ tr[t].running \ {c} \in SUBSET Calls
    BY <1>1, Zenon
  <1>3. tr2 \in [Transports -> TransportRec]
    <2>1. /\ k = "walk" => tr2 = [tr EXCEPT ![t].walking = tr[t].walking \ {c}]
          /\ k = "run" => tr2 = [tr EXCEPT ![t].running = tr[t].running \ {c}]
      OBVIOUS
    <2>2. /\ \A q \in SUBSET Calls : [tr EXCEPT ![t].walking = q] \in [Transports -> TransportRec]
          /\ \A q \in SUBSET Calls : [tr EXCEPT ![t].running = q] \in [Transports -> TransportRec]
      BY RecordTyped, Zenon
    <2> QED  BY <1>2, <2>1, <2>2, Zenon
  <1>4. /\ \A u \in Transports : tr2[u].req = tr[u].req /\ tr2[u].rep = tr[u].rep
        /\ \A u \in Transports : /\ tr2[u].walking \subseteq tr[u].walking
                                 /\ tr2[u].running \subseteq tr[u].running
        /\ k = "walk" => c \notin tr2[t].walking
        /\ k = "run" => c \notin tr2[t].running
    BY Zenon DEF TransportRec
  <1>5. \A l, u : u \in Transports => Set(tr2, l, u) \subseteq Set(tr, l, u)
    BY <1>4, Zenon DEF Set
  <1>6. c \notin Set(tr2, k, t)
    BY <1>4, Zenon DEF Set
  <1>7. Fewer(tr, tr2)
    BY <1>4, <1>5, SetsFewer, Zenon
  <1> QED  BY <1>3, <1>6, <1>7, Zenon

\* The server takes a call up.
LEMMA TakesUp ==
    ASSUME NEW tr \in [Transports -> TransportRec], NEW t \in Transports, NEW k \in {"walk", "run"},
           NEW c \in Calls, NEW tr2, tr2 = IF k = "walk" THEN [tr EXCEPT ![t].walking = @ \cup {c}]
                                                        ELSE [tr EXCEPT ![t].running = @ \cup {c}]
    PROVE  tr2 \in [Transports -> TransportRec] /\ Takes(tr, tr2, k, c)
  <1>1. /\ tr[t].walking \in SUBSET Calls /\ tr[t].running \in SUBSET Calls
        /\ \A u \in Transports : tr[u] \in TransportRec
    BY Zenon DEF TransportRec
  <1>2. tr[t].walking \cup {c} \in SUBSET Calls /\ tr[t].running \cup {c} \in SUBSET Calls
    BY <1>1, Zenon
  <1>3. tr2 \in [Transports -> TransportRec]
    <2>1. /\ k = "walk" => tr2 = [tr EXCEPT ![t].walking = tr[t].walking \cup {c}]
          /\ k = "run" => tr2 = [tr EXCEPT ![t].running = tr[t].running \cup {c}]
      OBVIOUS
    <2>2. /\ \A q \in SUBSET Calls : [tr EXCEPT ![t].walking = q] \in [Transports -> TransportRec]
          /\ \A q \in SUBSET Calls : [tr EXCEPT ![t].running = q] \in [Transports -> TransportRec]
      BY RecordTyped, Zenon
    <2> QED  BY <1>2, <2>1, <2>2, Zenon
  <1>4. /\ \A u \in Transports : tr2[u].req = tr[u].req /\ tr2[u].rep = tr[u].rep
        /\ \A u \in Transports : \A d : d \in tr2[u].walking =>
              d \in tr[u].walking \/ (k = "walk" /\ u = t /\ d = c)
        /\ \A u \in Transports : \A d : d \in tr2[u].running =>
              d \in tr[u].running \/ (k = "run" /\ u = t /\ d = c)
    BY Zenon DEF TransportRec
  <1>5. \A l, u, d : l \in {"walk", "run"} /\ u \in Transports /\ d \in Set(tr2, l, u) =>
           d \in Set(tr, l, u) \/ (l = k /\ u = t /\ d = c)
    BY <1>4 DEF Set
  <1>6. \A l, u, i, m : Has(tr2, l, u, i, m) => Has(tr, l, u, i, m)
    BY <1>4, SetsFewer, Zenon
  <1>7. TakesAt(tr, tr2, k, t, c)
    BY <1>5, Zenon DEF TakesAt
  <1> QED  BY <1>3, <1>6, <1>7, Zenon DEF Takes

\* The calls that open their descriptor, and the calls on one.
Opens(cl, c) == c \in Calls /\ cl[c].status # "idle" /\ "fd" \in gf_fops[cl[c].op].learns
Uses(cl, c) == c \in Calls /\ cl[c].status # "idle" /\ "fd" \in gf_fops[cl[c].op].sends

CallRec ==
    [op : Fops \cup {"none"}, fd : Fds \cup {NoFd}, slot : {0} \cup Slots, gen : Nat,
     status : Answers \cup {"idle", "out"}]
FileRec ==
    [state : {"free", "opening", "open", "released", "dropped"}, slot : {0} \cup Slots, gen : Nat]
RanRec == [fd : Fds \cup {NoFd}, gen : Nat]
Tables == [Slots -> Fds \cup {NoFd}]

Types(tr, cl, fl, sv, rn) ==
    /\ tr \in [Transports -> TransportRec] /\ cl \in [Calls -> CallRec]
    /\ fl \in [Fds -> FileRec] /\ sv \in [gen : Nat, last : Nat, fds : Tables]
    /\ rn \in [Calls -> RanRec]

\* A descriptor is opened by one call, and is being opened as long as that call is out.
Openers(cl, fl) ==
    /\ \A c : Opens(cl, c) =>
          /\ cl[c].fd \in Fds /\ fl[cl[c].fd].state # "free"
          /\ cl[c].status = "out" => fl[cl[c].fd].state = "opening"
    /\ \A c, d : Opens(cl, c) /\ Opens(cl, d) /\ cl[c].fd = cl[d].fd => c = d
    /\ \A f \in Fds : fl[f].state \in {"free", "opening"} => fl[f].slot = 0

\* A call that is out on a descriptor names the slot of the descriptor, which is open.
Users(cl, fl) ==
    /\ \A c : Uses(cl, c) =>
          /\ cl[c].fd \in Fds
          /\ cl[c].status # "badfd" => cl[c].slot # 0
          /\ cl[c].status = "out" =>
                fl[cl[c].fd].state = "open" /\ fl[cl[c].fd].slot = cl[c].slot
    /\ \A c \in Calls : cl[c].status = "out" /\ cl[c].fd \in Fds => Opens(cl, c) \/ Uses(cl, c)
    /\ \A c \in Calls : cl[c].status # "idle" => cl[c].op \in Fops

\* A descriptor is in the server's table once at most, and not before the call that
\* opens it is done there.
Table(tr, cl, fl, fds) ==
    /\ \A c, s : Opens(cl, c) /\ s \in Slots /\ fds[s] = cl[c].fd => ~Pending(tr, c)
    /\ \A f \in Fds, s \in Slots : fl[f].state = "free" => fds[s] # f
    /\ \A r, s \in Slots : fds[r] = fds[s] /\ fds[r] # NoFd => r = s

\* A request names the slot of its call.
Names(tr, cl) ==
    \A t, i, m : Has(tr, "req", t, i, m) /\ m.kind = "fop" => m.slot = cl[m.c].slot

\* What is said of a slot is true: by the client's descriptors,
FilesTrue(fl, fds) ==
    \A f \in Fds : fl[f].state = "open" /\ fl[f].slot # 0 => fds[fl[f].slot] = f

\* by the replies,
RepliesTrue(tr, cl, fds) ==
    \A t, i, m : Has(tr, "rep", t, i, m) /\ m.status = "ok" /\ Opens(cl, m.c)
                   /\ cl[m.c].status = "out" => m.slot # 0 /\ fds[m.slot] = cl[m.c].fd

\* by the releases, each of which is on its way once,
OneRelease(tr) ==
    \A t, u, i, j, m, o :
        ( /\ Has(tr, "req", t, i, m) /\ m.kind = "release"
          /\ Has(tr, "req", u, j, o) /\ o.kind = "release" /\ m.slot = o.slot )
        => SamePlace("req", t, i, "req", u, j)

Released(fl, fds, s) ==
    \E f \in Fds : fl[f].state = "released" /\ fl[f].slot = s /\ fds[s] = f

ReleasesTrue(tr, fl, fds) ==
    /\ \A t, i, m : Has(tr, "req", t, i, m) /\ m.kind = "release" => Released(fl, fds, m.slot)
    /\ OneRelease(tr)

\* and in what the server has run, or runs, for a call on a descriptor.
RunsTrue(tr, cl, rn) ==
    /\ \A c : Uses(cl, c) /\ cl[c].status \in {"ok", "error"} => rn[c].fd = cl[c].fd
    /\ \A c, k, t, i : Uses(cl, c) /\ cl[c].status = "out" /\ In(tr, k, t, i, c) /\ k # "req" =>
          rn[c].fd = cl[c].fd

\* The server has kept its connection object, if it has made one.
Whole(sv) == sv.gen = sv.last /\ sv.last \in {0, 1}

SlotsTrue(tr, cl, fl, fds, rn) ==
    FilesTrue(fl, fds) /\ RepliesTrue(tr, cl, fds) /\ ReleasesTrue(tr, fl, fds) /\ RunsTrue(tr, cl, rn)

Desc(tr, cl, fl, sv, rn) ==
    /\ Types(tr, cl, fl, sv, rn) /\ OnePlace(tr, cl) /\ Openers(cl, fl) /\ Users(cl, fl)
    /\ Table(tr, cl, fl, sv.fds) /\ Names(tr, cl)
    /\ sv.gen \in {0, sv.last}
    /\ Whole(sv) => SlotsTrue(tr, cl, fl, sv.fds, rn)

\* With fewer messages and calls under way it stays so.
LEMMA FewerKeeps ==
    ASSUME NEW tr, NEW tr2, NEW cl, NEW fl, NEW sv, NEW rn, Desc(tr, cl, fl, sv, rn),
           tr2 \in [Transports -> TransportRec], Fewer(tr, tr2)
    PROVE  Desc(tr2, cl, fl, sv, rn)
  <1>1. OnePlace(tr2, cl)
    BY OnePlaceFewer, Zenon DEF Desc
  <1>2. Table(tr2, cl, fl, sv.fds)
    BY FewerIn, Zenon DEF Desc, Table
  <1>3. \A t, i, m, k : Has(tr2, k, t, i, m) => \E j : Has(tr, k, t, j, m)
    BY Zenon DEF Fewer
  <1>4. Names(tr2, cl)
    BY <1>3, Zenon DEF Desc, Names
  <1>5. ASSUME SlotsTrue(tr, cl, fl, sv.fds, rn)  PROVE SlotsTrue(tr2, cl, fl, sv.fds, rn)
    <2>1. RepliesTrue(tr2, cl, sv.fds)
      BY <1>3, <1>5, Zenon DEF SlotsTrue, RepliesTrue
    <2>2. ReleasesTrue(tr2, fl, sv.fds)
      <3>1. \A t, i, m : Has(tr2, "req", t, i, m) /\ m.kind = "release" => Released(fl, sv.fds, m.slot)
        BY <1>3, <1>5, Zenon DEF SlotsTrue, ReleasesTrue, OneRelease
      <3>2. ASSUME NEW t, NEW u, NEW i, NEW j, NEW m, NEW o,
                   Has(tr2, "req", t, i, m), m.kind = "release",
                   Has(tr2, "req", u, j, o), o.kind = "release", m.slot = o.slot
            PROVE  SamePlace("req", t, i, "req", u, j)
        <4>1. PICK n \in Nat : \A x, p : Has(tr2, "req", t, x, p) => Has(tr, "req", t, x + n, p)
          BY Zenon DEF Fewer
        <4>2. PICK l \in Nat : \A x, p : Has(tr2, "req", u, x, p) => Has(tr, "req", u, x + l, p)
          BY Zenon DEF Fewer
        <4>3. Has(tr, "req", t, i + n, m) /\ Has(tr, "req", u, j + l, o)
          BY <3>2, <4>1, <4>2, Zenon
        <4>4. SamePlace("req", t, i + n, "req", u, j + l)
          BY <1>5, <3>2, <4>3, Zenon DEF SlotsTrue, ReleasesTrue, OneRelease
        <4>5. t = u
          BY <4>4, Zenon DEF SamePlace
        <4>6. Has(tr, "req", t, j + n, o)
          BY <3>2, <4>1, <4>5, Zenon
        <4>7. SamePlace("req", t, i + n, "req", t, j + n)
          BY <1>5, <3>2, <4>3, <4>6, Zenon DEF SlotsTrue, ReleasesTrue, OneRelease
        <4>8. i \in Nat \ {0} /\ j \in Nat \ {0}
          BY <3>2, PlaceIsNat, Zenon
        <4>9. i = j
          BY <4>7, <4>8 DEF SamePlace
        <4> QED  BY <4>5, <4>9, Zenon DEF SamePlace
      <3> QED  BY <3>1, <3>2, Zenon DEF ReleasesTrue, OneRelease
    <2>3. RunsTrue(tr2, cl, rn)
      <3>1. \A c, k, t, i : In(tr2, k, t, i, c) => \E j : In(tr, k, t, j, c)
        BY FewerIn, Zenon DEF Shifts
      <3>2. ASSUME NEW c, NEW k, NEW t, NEW i, Uses(cl, c), cl[c].status = "out",
                   In(tr2, k, t, i, c), k # "req"
            PROVE  rn[c].fd = cl[c].fd
        <4>1. PICK j : In(tr, k, t, j, c)
          BY <3>1, <3>2, Zenon
        <4> QED  BY <1>5, <3>2, <4>1, Zenon DEF SlotsTrue, RunsTrue
      <3>3. \A c : Uses(cl, c) /\ cl[c].status \in {"ok", "error"} => rn[c].fd = cl[c].fd
        BY <1>5, Zenon DEF SlotsTrue, RunsTrue
      <3> QED  BY <3>2, <3>3, Zenon DEF RunsTrue
    <2> QED  BY <1>5, <2>1, <2>2, <2>3, Zenon DEF SlotsTrue
  <1>6. Types(tr2, cl, fl, sv, rn)
    BY Zenon DEF Desc, Types
  <1> QED  BY <1>1, <1>2, <1>4, <1>5, <1>6, Zenon DEF Desc

\* One field of the server's connection object changes.
ServerRec == [gen : Nat, last : Nat, fds : Tables]

\* Setting one field of the connection object (mop_setvolume, server_connection_put)
\* keeps the others and its type.
LEMMA ServerField ==
    ASSUME NEW sv \in ServerRec
    PROVE  /\ \A g \in Nat : /\ [sv EXCEPT !.gen = g] \in ServerRec /\ [sv EXCEPT !.gen = g].gen = g
                             /\ [sv EXCEPT !.gen = g].last = sv.last
                             /\ [sv EXCEPT !.gen = g].fds = sv.fds
           /\ \A g \in Nat : /\ [sv EXCEPT !.last = g] \in ServerRec /\ [sv EXCEPT !.last = g].last = g
                             /\ [sv EXCEPT !.last = g].gen = sv.gen
                             /\ [sv EXCEPT !.last = g].fds = sv.fds
           /\ \A g \in Tables : /\ [sv EXCEPT !.fds = g] \in ServerRec /\ [sv EXCEPT !.fds = g].fds = g
                                /\ [sv EXCEPT !.fds = g].gen = sv.gen
                                /\ [sv EXCEPT !.fds = g].last = sv.last
  <1>1. ASSUME NEW g \in Nat
        PROVE  /\ [sv EXCEPT !.gen = g] \in ServerRec /\ [sv EXCEPT !.gen = g].gen = g
               /\ [sv EXCEPT !.gen = g].last = sv.last /\ [sv EXCEPT !.gen = g].fds = sv.fds
    BY Zenon DEF ServerRec
  <1>2. ASSUME NEW g \in Nat
        PROVE  /\ [sv EXCEPT !.last = g] \in ServerRec /\ [sv EXCEPT !.last = g].last = g
               /\ [sv EXCEPT !.last = g].gen = sv.gen /\ [sv EXCEPT !.last = g].fds = sv.fds
    BY Zenon DEF ServerRec
  <1>3. ASSUME NEW g \in Tables
        PROVE  /\ [sv EXCEPT !.fds = g] \in ServerRec /\ [sv EXCEPT !.fds = g].fds = g
               /\ [sv EXCEPT !.fds = g].gen = sv.gen /\ [sv EXCEPT !.fds = g].last = sv.last
    BY Zenon DEF ServerRec
  <1> QED  BY <1>1, <1>2, <1>3, Zenon

\* A connection object that is destroyed leaves no slot, and the server never is as if
\* it had kept it (server_connection_put).
LEMMA PutKeeps ==
    ASSUME NEW tr, NEW cl, NEW fl, NEW sv, NEW rn, Desc(tr, cl, fl, sv, rn), NEW tr2
    PROVE  Desc(tr, cl, fl, server_connection_put(tr2, sv), rn)
  <1> DEFINE sv2 == server_connection_put(tr2, sv)
  <1>1. CASE sv2 = sv
    BY <1>1, Zenon
  <1>2. CASE sv2 # sv
    <2>1. sv2 = [sv EXCEPT !.gen = 0, !.fds = [s \in Slots |-> NoFd]] /\ sv.gen # 0
      BY <1>2, Zenon DEF server_connection_put
    <2>2. sv \in ServerRec /\ sv.gen \in {0, sv.last}
      BY Zenon DEF Desc, Types, ServerRec
    <2>a. [s \in Slots |-> NoFd] \in Tables
      BY Zenon DEF Tables
    <2> HIDE DEF sv2
    <2> DEFINE none == [s \in Slots |-> NoFd]
          out == [sv EXCEPT !.gen = 0]
    <2>b. sv2 = [out EXCEPT !.fds = none] /\ none \in Tables /\ 0 \in Nat
      BY <2>1, <2>a, Zenon
    <2>c. out \in ServerRec /\ out.gen = 0 /\ out.last = sv.last
      BY <2>2, <2>b, ServerField, Zenon
    <2> HIDE DEF none, out
    <2>d. sv2 \in ServerRec /\ sv2.fds = none /\ sv2.gen = 0 /\ sv2.last = sv.last
      BY <2>b, <2>c, ServerField, Zenon
    <2>3. /\ sv2.gen = 0 /\ sv2.last = sv.last /\ sv2.last # 0 /\ sv2.fds = [s \in Slots |-> NoFd]
          /\ sv2 \in ServerRec
      BY <2>1, <2>2, <2>d, Zenon DEF none
    <2>4. \A s \in Slots : sv2.fds[s] = NoFd
      BY <2>3, Zenon
    <2>5. NoFd \notin Fds
      BY ConstantsAssumption, Zenon DEF ConstantsAssumption
    <2>6. \A c : Opens(cl, c) => cl[c].fd \in Fds
      BY Zenon DEF Desc, Openers
    <2>7. Table(tr, cl, fl, sv2.fds)
      BY <2>4, <2>5, <2>6, Zenon DEF Table
    <2>8. ~Whole(sv2) /\ sv2.gen \in {0, sv2.last}
      BY <2>3, Zenon DEF Whole
    <2>9. Types(tr, cl, fl, sv2, rn)
      BY <2>3, Zenon DEF Desc, Types, ServerRec
    <2> QED  BY <2>7, <2>8, <2>9, Zenon DEF Desc, sv2
  <1> QED  BY <1>1, <1>2, Zenon

\* Only the first connection object is made with the server whole (server_connection_get).
LEMMA GetKeeps ==
    ASSUME NEW tr, NEW cl, NEW fl, NEW sv, NEW rn, Desc(tr, cl, fl, sv, rn), NEW gen,
           gen = IF sv.gen = 0 THEN sv.last + 1 ELSE sv.gen,
           NEW sv2, sv2 = [sv EXCEPT !.gen = gen, !.last = IF gen > @ THEN gen ELSE @]
    PROVE  Desc(tr, cl, fl, sv2, rn) /\ gen \in Nat \ {0}
  <1>1. sv \in ServerRec /\ sv.gen \in {0, sv.last} /\ sv.gen \in Nat /\ sv.last \in Nat
    <2>1. sv \in ServerRec /\ sv.gen \in {0, sv.last}
      BY Zenon DEF Desc, Types, ServerRec
    <2> QED  BY <2>1, Zenon DEF ServerRec
  <1>a. gen \in Nat \ {0} /\ gen >= sv.last /\ (gen = sv.gen \/ gen = sv.last + 1)
    BY <1>1
  <1>b. (IF gen > sv.last THEN gen ELSE sv.last) = gen
    <2>1. \A x, y \in Nat : x >= y => (IF x > y THEN x ELSE y) = x
      OBVIOUS
    <2>2. gen \in Nat
      BY <1>a, Zenon
    <2> QED  BY <1>1, <1>a, <2>1, <2>2, Zenon
  <1> DEFINE on == [sv EXCEPT !.gen = gen]
  <1>d. gen \in Nat
    BY <1>a, Zenon
  <1>e. on \in ServerRec /\ on.gen = gen /\ on.last = sv.last /\ on.fds = sv.fds
    BY <1>1, <1>d, ServerField, Zenon
  <1>c. sv2 = [on EXCEPT !.last = gen]
    <2>1. sv2 = [on EXCEPT !.last = IF gen > on.last THEN gen ELSE on.last]
      OBVIOUS
    <2> QED  BY <1>b, <1>e, <2>1, Zenon
  <1> HIDE DEF on
  <1>f. sv2 \in ServerRec /\ sv2.last = gen /\ sv2.gen = on.gen /\ sv2.fds = on.fds
    <2>1. \A g \in Nat : /\ [on EXCEPT !.last = g] \in ServerRec /\ [on EXCEPT !.last = g].last = g
                         /\ [on EXCEPT !.last = g].gen = on.gen
                         /\ [on EXCEPT !.last = g].fds = on.fds
      BY <1>e, ServerField, Zenon
    <2> DEFINE x == [on EXCEPT !.last = gen]
    <2>2. x \in ServerRec /\ x.last = gen /\ x.gen = on.gen /\ x.fds = on.fds
      BY <1>d, <2>1, Zenon
    <2>3. sv2 = x
      BY <1>c, Zenon
    <2> HIDE DEF x
    <2> QED  BY <2>2, <2>3, Zenon
  <1>2. /\ sv2 \in ServerRec /\ sv2.fds = sv.fds
        /\ sv2.gen = gen /\ sv2.last = gen /\ gen \in Nat \ {0}
        /\ gen = sv.gen \/ gen = sv.last + 1
    BY <1>a, <1>e, <1>f, Zenon
  <1>3. Whole(sv2) => Whole(sv)
    BY <1>1, <1>2 DEF Whole
  <1>4. Types(tr, cl, fl, sv2, rn)
    BY <1>2, Zenon DEF Desc, Types, ServerRec
  <1>5. sv2.gen \in {0, sv2.last}
    BY <1>2, Zenon
  <1>6. Whole(sv2) => SlotsTrue(tr, cl, fl, sv2.fds, rn)
    BY <1>2, <1>3, Zenon DEF Desc
  <1>7. Table(tr, cl, fl, sv2.fds)
    BY <1>2, Zenon DEF Desc
  <1> QED  BY <1>2, <1>4, <1>5, <1>6, <1>7, Zenon DEF Desc

\* With no other releases on their way these are as true as they were.
LEMMA ReleasesKeep ==
    ASSUME NEW tr, NEW tr2, NEW fl, NEW fds, ReleasesTrue(tr, fl, fds),
           \A t, i, m : Has(tr2, "req", t, i, m) /\ m.kind = "release" => Has(tr, "req", t, i, m)
    PROVE  ReleasesTrue(tr2, fl, fds)
  <1>1. \A t, i, m : Has(tr2, "req", t, i, m) /\ m.kind = "release" => Released(fl, fds, m.slot)
    BY Zenon DEF ReleasesTrue, OneRelease
  <1>2. ASSUME NEW t, NEW u, NEW i, NEW j, NEW m, NEW o,
               Has(tr2, "req", t, i, m), m.kind = "release",
               Has(tr2, "req", u, j, o), o.kind = "release", m.slot = o.slot
        PROVE  SamePlace("req", t, i, "req", u, j)
    <2>1. Has(tr, "req", t, i, m) /\ Has(tr, "req", u, j, o)
      BY <1>2, Zenon
    <2> QED  BY <1>2, <2>1, Zenon DEF ReleasesTrue, OneRelease
  <1> QED  BY <1>1, <1>2, Zenon DEF ReleasesTrue, OneRelease

\* A call gets into one more place: its request on its way, at the server, or its reply
\* on its way.
LEMMA AddKeeps ==
    ASSUME NEW tr, NEW tr2, NEW cl, NEW fl, NEW sv, NEW rn, Desc(tr, cl, fl, sv, rn),
           tr2 \in [Transports -> TransportRec], NEW k0, NEW c0 \in Calls, Nowhere(tr, c0),
           cl[c0].status \in {"out", "notconn"},
           \/ Takes(tr, tr2, k0, c0)
           \/ \E m0 : /\ Posts(tr, tr2, k0, m0) /\ m0.kind \in {"fop", "reply"} /\ m0.c = c0
                      /\ k0 = "req" => m0.slot = cl[c0].slot
                      /\ k0 = "rep" /\ m0.status = "ok" /\ Opens(cl, c0) /\ Whole(sv) =>
                            m0.slot # 0 /\ sv.fds[m0.slot] = cl[c0].fd,
           k0 # "rep" /\ Opens(cl, c0) => \A s \in Slots : sv.fds[s] # cl[c0].fd,
           k0 # "req" /\ Uses(cl, c0) /\ cl[c0].status = "out" /\ Whole(sv) =>
              rn[c0].fd = cl[c0].fd
    PROVE  Desc(tr2, cl, fl, sv, rn)
  <1> DEFINE Fits(m) == /\ m.kind \in {"fop", "reply"} /\ m.c = c0
                        /\ k0 = "req" => m.slot = cl[c0].slot
                        /\ k0 = "rep" /\ m.status = "ok" /\ Opens(cl, c0) /\ Whole(sv) =>
                              m.slot # 0 /\ sv.fds[m.slot] = cl[c0].fd
  <1>0. OnePlace(tr, cl) /\ Table(tr, cl, fl, sv.fds) /\ Names(tr, cl)
    BY Zenon DEF Desc
  <1>1. Adds(tr, tr2, k0, c0)
    BY PostsAdds, TakesAdds, Zenon
  <1>2. /\ OnePlace(tr2, cl)
        /\ \A k, t, i : In(tr2, k, t, i, c0) => k = k0
        /\ \A c : c # c0 => (Pending(tr2, c) => Pending(tr, c)) /\ (Nowhere(tr, c) => Nowhere(tr2, c))
    BY <1>0, <1>1, OnePlaceAdds, ZenonT(30)
  <1>3. ASSUME NEW k, NEW t, NEW i, NEW m, Has(tr2, k, t, i, m)
        PROVE  Has(tr, k, t, i, m) \/ (k = k0 /\ Fits(m))
    <2>1. CASE Takes(tr, tr2, k0, c0)
      BY <1>3, <2>1, Zenon DEF Takes
    <2>2. ASSUME NEW m0, Posts(tr, tr2, k0, m0), m0.kind \in {"fop", "reply"}, m0.c = c0,
                 k0 = "req" => m0.slot = cl[c0].slot,
                 k0 = "rep" /\ m0.status = "ok" /\ Opens(cl, c0) /\ Whole(sv) =>
                            m0.slot # 0 /\ sv.fds[m0.slot] = cl[c0].fd
          PROVE  Has(tr, k, t, i, m) \/ (k = k0 /\ Fits(m))
      <3>1. Has(tr, k, t, i, m) \/ (k = k0 /\ m = m0)
        BY <1>3, <2>2, Zenon DEF Posts, PostsAt, SamePlace
      <3> QED  BY <2>2, <3>1, Zenon
    <2> QED  BY <2>1, <2>2, Zenon
  <1>4. Table(tr2, cl, fl, sv.fds)
    <2>1. ASSUME NEW c, NEW s, Opens(cl, c), s \in Slots, sv.fds[s] = cl[c].fd, Pending(tr2, c)
          PROVE  FALSE
      <3>1. CASE c = c0
        <4>1. k0 # "rep"
          BY <1>2, <2>1, <3>1, Zenon DEF Pending
        <4> QED  BY <2>1, <3>1, <4>1, Zenon
      <3>2. CASE c # c0
        BY <1>0, <1>2, <2>1, <3>2, Zenon DEF Table
      <3> QED  BY <3>1, <3>2, Zenon
    <2> QED  BY <1>0, <2>1, Zenon DEF Table
  <1>5. Names(tr2, cl)
    <2> SUFFICES ASSUME NEW t, NEW i, NEW m, Has(tr2, "req", t, i, m), m.kind = "fop"
                 PROVE  m.slot = cl[m.c].slot
      BY ZenonT(30) DEF Names
    <2>1. Has(tr, "req", t, i, m) \/ ("req" = k0 /\ Fits(m))
      BY <1>3, Zenon
    <2>2. CASE Has(tr, "req", t, i, m)
      BY <1>0, <2>2, Zenon DEF Names
    <2>3. CASE k0 = "req" /\ Fits(m)
      BY <2>3, Zenon
    <2> QED  BY <2>1, <2>2, <2>3, Zenon
  <1>6. ASSUME Whole(sv)  PROVE SlotsTrue(tr2, cl, fl, sv.fds, rn)
    <2>1. SlotsTrue(tr, cl, fl, sv.fds, rn)
      BY <1>6, Zenon DEF Desc
    <2>2. RepliesTrue(tr2, cl, sv.fds)
      <3> SUFFICES ASSUME NEW t, NEW i, NEW m, Has(tr2, "rep", t, i, m), m.status = "ok",
                          Opens(cl, m.c), cl[m.c].status = "out"
                   PROVE  m.slot # 0 /\ sv.fds[m.slot] = cl[m.c].fd
        BY Zenon DEF RepliesTrue
      <3>1. Has(tr, "rep", t, i, m) \/ ("rep" = k0 /\ Fits(m))
        BY <1>3, Zenon
      <3>2. CASE Has(tr, "rep", t, i, m)
        BY <2>1, <3>2, Zenon DEF SlotsTrue, RepliesTrue
      <3>3. CASE k0 = "rep" /\ Fits(m)
        BY <1>6, <3>3, Zenon
      <3> QED  BY <3>1, <3>2, <3>3, Zenon
    <2>3. \A t, i, m : Has(tr2, "req", t, i, m) /\ m.kind = "release" => Has(tr, "req", t, i, m)
      <3> SUFFICES ASSUME NEW t, NEW i, NEW m, Has(tr2, "req", t, i, m), m.kind = "release"
                   PROVE  Has(tr, "req", t, i, m)
        OBVIOUS
      <3>1. ~Fits(m)
        OBVIOUS
      <3> QED  BY <1>3, <3>1, Zenon
    <2>4. ReleasesTrue(tr2, fl, sv.fds)
      <3>1. ReleasesTrue(tr, fl, sv.fds)
        BY <2>1, Zenon DEF SlotsTrue
      <3> QED  BY <2>3, <3>1, ReleasesKeep, Zenon
    <2>5. RunsTrue(tr2, cl, rn)
      <3>1. ASSUME NEW c, NEW k, NEW t, NEW i, Uses(cl, c), cl[c].status = "out",
                   In(tr2, k, t, i, c), k # "req"
            PROVE  rn[c].fd = cl[c].fd
        <4>1. CASE c = c0
          BY <1>2, <1>6, <3>1, <4>1, Zenon
        <4>2. CASE c # c0
          <5>0. PICK t0, i0 : AddsAt(tr, tr2, k0, t0, i0, c0)
            BY <1>1, Zenon DEF Adds
          <5>1. In(tr, k, t, i, c)
            BY <3>1, <4>2, <5>0 DEF AddsAt
          <5> QED  BY <2>1, <3>1, <5>1, Zenon DEF SlotsTrue, RunsTrue
        <4> QED  BY <4>1, <4>2, Zenon
      <3>2. \A c : Uses(cl, c) /\ cl[c].status \in {"ok", "error"} => rn[c].fd = cl[c].fd
        BY <2>1, Zenon DEF SlotsTrue, RunsTrue
      <3> QED  BY <3>1, <3>2, Zenon DEF RunsTrue
    <2> QED  BY <2>1, <2>2, <2>4, <2>5, Zenon DEF SlotsTrue
  <1>7. Types(tr2, cl, fl, sv, rn)
    BY Zenon DEF Desc, Types
  <1> QED  BY <1>2, <1>4, <1>5, <1>6, <1>7, Zenon DEF Desc

\* The calls of S are answered with st; a descriptor changes only when the call that
\* opens it is one of them, and is then open.
AnswersCalls(cl, cl2, S, st) ==
    /\ cl2 \in [Calls -> CallRec]
    /\ \A c \in Calls : /\ cl2[c].op = cl[c].op /\ cl2[c].fd = cl[c].fd /\ cl2[c].slot = cl[c].slot
                        /\ c \notin S => cl2[c].status = cl[c].status
                        /\ c \in S => cl[c].status = "out" /\ cl2[c].status = st

AnswersFile(cl, fl, fl2, sv, S, f) ==
    /\ fl[f].state = "opening" /\ fl2[f].state = "open"
    /\ \E c \in S : Opens(cl, c) /\ cl[c].fd = f
    /\ fl2[f].slot # 0 /\ Whole(sv) => sv.fds[fl2[f].slot] = f

\* Answering calls, by a reply or with ENOTCONN (client_<fop>_cbk, saved_frames_unwind),
\* keeps the two ends agreed on the descriptors.
LEMMA AnswersKeep ==
    ASSUME NEW tr, NEW cl, NEW fl, NEW sv, NEW rn, Desc(tr, cl, fl, sv, rn),
           NEW S \in SUBSET Calls, NEW st \in {"ok", "error", "notconn"}, NEW cl2, NEW fl2,
           AnswersCalls(cl, cl2, S, st), fl2 \in [Fds -> FileRec],
           \A f \in Fds : fl2[f] = fl[f] \/ AnswersFile(cl, fl, fl2, sv, S, f),
           \A c \in S : Opens(cl, c) => fl2[cl[c].fd].state = "open",
           st # "notconn" => \A c \in S : Nowhere(tr, c),
           st # "notconn" /\ Whole(sv) => \A c \in S : Uses(cl, c) => rn[c].fd = cl[c].fd
    PROVE  Desc(tr, cl2, fl2, sv, rn)
  <1>0. /\ Types(tr, cl, fl, sv, rn) /\ OnePlace(tr, cl) /\ Openers(cl, fl) /\ Users(cl, fl)
        /\ Table(tr, cl, fl, sv.fds) /\ Names(tr, cl)
    BY Zenon DEF Desc
  <1>1. /\ \A c \in Calls : /\ cl2[c].op = cl[c].op /\ cl2[c].fd = cl[c].fd
                            /\ cl2[c].slot = cl[c].slot
                            /\ cl2[c].status = "out" => c \notin S /\ cl[c].status = "out"
                            /\ c \notin S => cl2[c].status = cl[c].status
                            /\ c \in S => cl[c].status = "out" /\ cl2[c].status = st
    BY Zenon DEF AnswersCalls
  <1>2. \A c : (Opens(cl2, c) <=> Opens(cl, c)) /\ (Uses(cl2, c) <=> Uses(cl, c))
    BY <1>1, Zenon DEF Opens, Uses
  <1>3. Openers(cl2, fl2)
    <2>1. ASSUME NEW c, Opens(cl2, c)
          PROVE  /\ cl2[c].fd \in Fds /\ fl2[cl2[c].fd].state # "free"
                 /\ cl2[c].status = "out" => fl2[cl2[c].fd].state = "opening"
      <3>1. c \in Calls /\ Opens(cl, c) /\ cl2[c].fd = cl[c].fd /\ cl[c].fd \in Fds
        BY <1>0, <1>1, <1>2, <2>1, Zenon DEF Openers, Opens
      <3>2. /\ fl[cl[c].fd].state # "free"
            /\ cl[c].status = "out" => fl[cl[c].fd].state = "opening"
        BY <1>0, <3>1, Zenon DEF Openers
      <3>3. CASE fl2[cl[c].fd] = fl[cl[c].fd]
        BY <1>1, <3>1, <3>2, <3>3, Zenon
      <3>4. CASE AnswersFile(cl, fl, fl2, sv, S, cl[c].fd)
        <4>1. PICK d \in S : Opens(cl, d) /\ cl[d].fd = cl[c].fd
          BY <3>4, Zenon DEF AnswersFile
        <4>2. d = c
          BY <1>0, <3>1, <4>1, Zenon DEF Openers
        <4> QED  BY <1>1, <3>1, <3>4, <4>2, Zenon DEF AnswersFile
      <3> QED  BY <3>1, <3>3, <3>4, Zenon
    <2>2. \A c, d : Opens(cl2, c) /\ Opens(cl2, d) /\ cl2[c].fd = cl2[d].fd => c = d
      <3> SUFFICES ASSUME NEW c, NEW d, Opens(cl2, c), Opens(cl2, d), cl2[c].fd = cl2[d].fd
                   PROVE  c = d
        BY Zenon
      <3>1. Opens(cl, c) /\ Opens(cl, d) /\ cl[c].fd = cl[d].fd
        BY <1>1, <1>2, Zenon DEF Opens
      <3> QED  BY <1>0, <3>1, Zenon DEF Openers
    <2>3. \A f \in Fds : fl2[f].state \in {"free", "opening"} => fl2[f].slot = 0
      BY <1>0 DEF Openers, AnswersFile
    <2> QED  BY <2>1, <2>2, <2>3, Zenon DEF Openers
  <1>4. Users(cl2, fl2)
    <2>1. ASSUME NEW c, Uses(cl2, c)
          PROVE  /\ cl2[c].fd \in Fds /\ (cl2[c].status # "badfd" => cl2[c].slot # 0)
                 /\ cl2[c].status = "out" =>
                       fl2[cl2[c].fd].state = "open" /\ fl2[cl2[c].fd].slot = cl2[c].slot
      <3>1. c \in Calls /\ Uses(cl, c)
        BY <1>2, <2>1, Zenon DEF Uses
      <3>2. /\ cl[c].fd \in Fds /\ (cl[c].status # "badfd" => cl[c].slot # 0)
            /\ cl[c].status = "out" => fl[cl[c].fd].state = "open" /\ fl[cl[c].fd].slot = cl[c].slot
        BY <1>0, <3>1, Zenon DEF Users
      <3>3. fl2[cl[c].fd] = fl[cl[c].fd] \/ fl[cl[c].fd].state = "opening"
        BY <3>2, Zenon DEF AnswersFile
      <3> QED  BY <1>1, <3>1, <3>2, <3>3, Zenon
    <2>2. \A c \in Calls : cl2[c].status = "out" /\ cl2[c].fd \in Fds => Opens(cl2, c) \/ Uses(cl2, c)
      <3> SUFFICES ASSUME NEW c \in Calls, cl2[c].status = "out", cl2[c].fd \in Fds
                   PROVE  Opens(cl2, c) \/ Uses(cl2, c)
        OBVIOUS
      <3>1. cl[c].status = "out" /\ cl[c].fd \in Fds
        BY <1>1, Zenon
      <3> QED  BY <1>0, <1>2, <3>1, Zenon DEF Users
    <2>3. \A c \in Calls : cl2[c].status # "idle" => cl2[c].op \in Fops
      BY <1>0, <1>1, Zenon DEF Users
    <2> QED  BY <2>1, <2>2, <2>3, Zenon DEF Users
  <1>5. Table(tr, cl2, fl2, sv.fds)
    <2>1. \A c, s : Opens(cl2, c) /\ s \in Slots /\ sv.fds[s] = cl2[c].fd => ~Pending(tr, c)
      BY <1>0, <1>1, <1>2, Zenon DEF Table, Opens
    <2>2. \A f \in Fds : fl2[f].state = "free" => fl[f].state = "free"
      BY Zenon DEF AnswersFile
    <2> QED  BY <1>0, <2>1, <2>2, Zenon DEF Table
  <1>6. ASSUME NEW k, NEW t, NEW i, NEW m, Has(tr, k, t, i, m)
        PROVE  /\ k = "req" => m \in Requests
               /\ k = "rep" => m \in Replies
    <2>1. t \in Transports /\ i \in 1 .. Len(Queue(tr, k, t)) /\ m = Queue(tr, k, t)[i]
      BY <1>6, Zenon DEF Has
    <2>2. tr \in [Transports -> TransportRec]
      BY <1>0, Zenon DEF Types
    <2>3. tr[t].req \in Seq(Requests) /\ tr[t].rep \in Seq(Replies)
      BY <2>1, <2>2, Zenon DEF TransportRec
    <2>4. (k = "req" => Queue(tr, k, t) = tr[t].req) /\ (k = "rep" => Queue(tr, k, t) = tr[t].rep)
      BY Zenon DEF Queue
    <2> QED  BY <2>1, <2>3, <2>4
  <1>7. Names(tr, cl2)
    <2> SUFFICES ASSUME NEW t, NEW i, NEW m, Has(tr, "req", t, i, m), m.kind = "fop"
                 PROVE  m.slot = cl2[m.c].slot
      BY Zenon DEF Names
    <2>1. m.c \in Calls
      BY <1>6 DEF Requests
    <2>2. m.slot = cl[m.c].slot
      BY <1>0, Zenon DEF Names
    <2> QED  BY <1>1, <2>1, <2>2, Zenon
  <1>8. OnePlace(tr, cl2)
    <2>1. ASSUME NEW c, ~Nowhere(tr, c)  PROVE c \in Calls /\ cl2[c].status \in {"out", "notconn"}
      <3>1. c \in Calls /\ cl[c].status \in {"out", "notconn"}
        BY <1>0, <2>1, Zenon DEF OnePlace
      <3> QED  BY <1>1, <2>1, <3>1, Zenon
    <2> QED  BY <1>0, <2>1, Zenon DEF OnePlace
  <1>9. ASSUME Whole(sv)  PROVE SlotsTrue(tr, cl2, fl2, sv.fds, rn)
    <2>0. SlotsTrue(tr, cl, fl, sv.fds, rn)
      BY <1>9, Zenon DEF Desc
    <2>1. FilesTrue(fl2, sv.fds)
      BY <1>9, <2>0, ZenonT(30) DEF SlotsTrue, FilesTrue, AnswersFile
    <2>2. RepliesTrue(tr, cl2, sv.fds)
      <3> SUFFICES ASSUME NEW t, NEW i, NEW m, Has(tr, "rep", t, i, m), m.status = "ok",
                          Opens(cl2, m.c), cl2[m.c].status = "out"
                   PROVE  m.slot # 0 /\ sv.fds[m.slot] = cl2[m.c].fd
        BY Zenon DEF RepliesTrue
      <3>1. Opens(cl, m.c) /\ cl[m.c].status = "out" /\ cl2[m.c].fd = cl[m.c].fd
        BY <1>1, <1>2, Zenon DEF Opens
      <3>2. m.slot # 0 /\ sv.fds[m.slot] = cl[m.c].fd
        BY <2>0, <3>1, Zenon DEF SlotsTrue, RepliesTrue
      <3> QED  BY <3>1, <3>2, Zenon
    <2>3. ReleasesTrue(tr, fl2, sv.fds)
      <3>1. \A f \in Fds : fl[f].state = "released" => fl2[f] = fl[f]
        BY Zenon DEF AnswersFile
      <3>2. ReleasesTrue(tr, fl, sv.fds)
        BY <2>0, Zenon DEF SlotsTrue
      <3>3. ASSUME NEW t, NEW i, NEW m, Has(tr, "req", t, i, m), m.kind = "release"
            PROVE  Released(fl2, sv.fds, m.slot)
        <4>1. PICK f \in Fds : /\ fl[f].state = "released" /\ fl[f].slot = m.slot
                               /\ sv.fds[m.slot] = f
          BY <3>2, <3>3, Zenon DEF ReleasesTrue, Released
        <4> QED  BY <3>1, <4>1, Zenon DEF Released
      <3> QED  BY <3>2, <3>3, Zenon DEF ReleasesTrue
    <2>4. RunsTrue(tr, cl2, rn)
      <3>1. ASSUME NEW c, Uses(cl2, c), cl2[c].status \in {"ok", "error"}
            PROVE  rn[c].fd = cl2[c].fd
        <4>1. c \in Calls /\ Uses(cl, c) /\ cl2[c].fd = cl[c].fd
          BY <1>1, <1>2, <3>1, Zenon DEF Uses
        <4>2. CASE c \in S
          BY <1>1, <1>9, <3>1, <4>1, <4>2, Zenon
        <4>3. CASE c \notin S
          BY <1>1, <2>0, <3>1, <4>1, <4>3, Zenon DEF SlotsTrue, RunsTrue
        <4> QED  BY <4>2, <4>3, Zenon
      <3>2. ASSUME NEW c, NEW k, NEW t, NEW i, Uses(cl2, c), cl2[c].status = "out",
                   In(tr, k, t, i, c), k # "req"
            PROVE  rn[c].fd = cl2[c].fd
        <4>1. Uses(cl, c) /\ cl[c].status = "out" /\ cl2[c].fd = cl[c].fd
          BY <1>1, <1>2, <3>2, Zenon DEF Uses
        <4>2. rn[c].fd = cl[c].fd
          BY <2>0, <3>2, <4>1, Zenon DEF SlotsTrue, RunsTrue
        <4> QED  BY <4>1, <4>2, Zenon
      <3> QED  BY <3>1, <3>2, Zenon DEF RunsTrue
    <2> QED  BY <2>1, <2>2, <2>3, <2>4, Zenon DEF SlotsTrue
  <1>10. Types(tr, cl2, fl2, sv, rn)
    BY <1>0, Zenon DEF Types, AnswersCalls
  <1> QED  BY <1>3, <1>4, <1>5, <1>7, <1>8, <1>9, <1>10, Zenon DEF Desc

\* A new call, of a fop that opens descriptor r.fd, that is on it, or that has none.
Fresh(r, fl, fl2) ==
    /\ r \in CallRec /\ r.op \in Fops /\ r.status \in {"out", "badfd"}
    /\ fl2 \in [Fds -> FileRec]
    /\ \A f \in Fds : \/ fl2[f] = fl[f]
                      \/ /\ fl[f].state = "free" /\ fl2[f].state = "opening"
                         /\ fl2[f].slot = fl[f].slot /\ f = r.fd
    /\ "fd" \in gf_fops[r.op].learns =>
          r.fd \in Fds /\ fl[r.fd].state = "free" /\ fl2[r.fd].state = "opening"
    /\ "fd" \in gf_fops[r.op].sends =>
          /\ r.fd \in Fds /\ fl2[r.fd] = fl[r.fd] /\ fl[r.fd].state = "open"
          /\ r.slot = fl[r.fd].slot /\ (r.status = "out" => r.slot # 0)
    /\ r.fd \in Fds => "fd" \in gf_fops[r.op].learns \/ "fd" \in gf_fops[r.op].sends

\* The messages of the queues are requests and replies, of calls.
LEMMA MessageTyped ==
    ASSUME NEW tr \in [Transports -> TransportRec], NEW t, NEW i, NEW m
    PROVE  /\ Has(tr, "req", t, i, m) => m \in Requests /\ m.kind \in {"fop", "release"}
           /\ Has(tr, "rep", t, i, m) => m \in Replies /\ m.kind = "reply"
           /\ Has(tr, "req", t, i, m) /\ m.kind = "fop" => m.c \in Calls /\ In(tr, "req", t, i, m.c)
           /\ Has(tr, "rep", t, i, m) => m.c \in Calls /\ In(tr, "rep", t, i, m.c)
  <1>1. Has(tr, "req", t, i, m) => m \in Requests
    BY DEF Has, Queue, TransportRec
  <1>2. Has(tr, "rep", t, i, m) => m \in Replies
    BY DEF Has, Queue, TransportRec
  <1>3. m \in Requests => m.kind \in {"setvolume", "fop", "release"} /\ (m.kind = "fop" => m.c \in Calls)
    BY Zenon DEF Requests
  <1>4. m \in Replies => m.kind \in {"setvolume", "reply"} /\ (m.kind = "reply" => m.c \in Calls)
    BY Zenon DEF Replies
  <1>5. \A k : Has(tr, k, t, i, m) => m.kind # "setvolume"
    BY Zenon DEF Has
  <1>6. \A k : Has(tr, k, t, i, m) /\ m.kind \in {"fop", "reply"} => In(tr, k, t, i, m.c)
    BY Zenon DEF In
  <1> QED  BY <1>1, <1>2, <1>3, <1>4, <1>5, <1>6, Zenon

\* A new call (protocol_client_xfer), on a new descriptor if it opens one, is nowhere
\* yet and keeps the two ends agreed.
LEMMA FreshKeeps ==
    ASSUME NEW tr, NEW cl, NEW fl, NEW sv, NEW rn, Desc(tr, cl, fl, sv, rn), NEW c0 \in Calls,
           cl[c0].status = "idle", NEW r, NEW fl2, Fresh(r, fl, fl2), NEW cl2,
           cl2 = [cl EXCEPT ![c0] = r]
    PROVE  /\ Desc(tr, cl2, fl2, sv, rn) /\ Nowhere(tr, c0) /\ cl2[c0] = r
           /\ Opens(cl2, c0) => \A s \in Slots : sv.fds[s] # r.fd
  <1>0. /\ Types(tr, cl, fl, sv, rn) /\ OnePlace(tr, cl) /\ Openers(cl, fl) /\ Users(cl, fl)
        /\ Table(tr, cl, fl, sv.fds) /\ Names(tr, cl)
    BY Zenon DEF Desc
  <1>a. r \in CallRec /\ r.status \in {"out", "badfd"} /\ cl \in [Calls -> CallRec]
    BY <1>0, Zenon DEF Fresh, Types
  <1>1. /\ cl2 \in [Calls -> CallRec] /\ cl2[c0] = r /\ \A c \in Calls : c # c0 => cl2[c] = cl[c]
    BY <1>a, Zenon
  <1>2. Nowhere(tr, c0)
    BY <1>0, Zenon DEF OnePlace
  <1>3. \A c : c # c0 => (Opens(cl2, c) <=> Opens(cl, c)) /\ (Uses(cl2, c) <=> Uses(cl, c))
    BY <1>1, Zenon DEF Opens, Uses
  <1>4. Opens(cl2, c0) => /\ r.fd \in Fds /\ fl[r.fd].state = "free" /\ fl2[r.fd].state = "opening"
    BY <1>1, Zenon DEF Opens, Fresh
  <1>5. Uses(cl2, c0) => /\ r.fd \in Fds /\ fl2[r.fd] = fl[r.fd] /\ fl[r.fd].state = "open"
                         /\ r.slot = fl[r.fd].slot /\ (r.status = "out" => r.slot # 0)
    BY <1>1, Zenon DEF Uses, Fresh
  <1>6. \A f \in Fds : \/ fl2[f] = fl[f]
                       \/ /\ fl[f].state = "free" /\ fl2[f].state = "opening"
                          /\ fl2[f].slot = fl[f].slot /\ f = r.fd
    BY Zenon DEF Fresh
  <1>7. Openers(cl2, fl2)
    <2>1. ASSUME NEW c, Opens(cl2, c)
          PROVE  /\ cl2[c].fd \in Fds /\ fl2[cl2[c].fd].state # "free"
                 /\ cl2[c].status = "out" => fl2[cl2[c].fd].state = "opening"
      <3>1. CASE c = c0
        BY <1>1, <1>4, <2>1, <3>1, Zenon
      <3>2. CASE c # c0
        <4>1. Opens(cl, c) /\ cl2[c] = cl[c]
          BY <1>1, <1>3, <2>1, <3>2, Zenon DEF Opens
        <4>2. /\ cl[c].fd \in Fds /\ fl[cl[c].fd].state # "free"
              /\ cl[c].status = "out" => fl[cl[c].fd].state = "opening"
          BY <1>0, <4>1, Zenon DEF Openers
        <4> QED  BY <1>6, <4>1, <4>2, Zenon
      <3> QED  BY <3>1, <3>2, Zenon
    <2>2. ASSUME NEW c, NEW d, Opens(cl2, c), Opens(cl2, d), cl2[c].fd = cl2[d].fd, c # c0
          PROVE  c = d
      <3>1. Opens(cl, c) /\ cl2[c] = cl[c]
        BY <1>1, <1>3, <2>2, Zenon DEF Opens
      <3>2. fl[cl[c].fd].state # "free"
        BY <1>0, <3>1, Zenon DEF Openers
      <3>3. d # c0
        BY <1>1, <1>4, <2>2, <3>1, <3>2, Zenon
      <3>4. Opens(cl, d) /\ cl2[d] = cl[d]
        BY <1>1, <1>3, <2>2, <3>3, Zenon DEF Opens
      <3> QED  BY <1>0, <2>2, <3>1, <3>4, Zenon DEF Openers
    <2>3. \A f \in Fds : fl2[f].state \in {"free", "opening"} => fl2[f].slot = 0
      <3>1. \A f \in Fds : fl[f].state \in {"free", "opening"} => fl[f].slot = 0
        BY <1>0, Zenon DEF Openers
      <3> QED  BY <1>6, <3>1, Zenon
    <2>4. \A c, d : Opens(cl2, c) /\ Opens(cl2, d) /\ cl2[c].fd = cl2[d].fd => c = d
      BY <2>2, Zenon
    <2> QED  BY <2>1, <2>3, <2>4, Zenon DEF Openers
  <1>8. Users(cl2, fl2)
    <2>1. ASSUME NEW c, Uses(cl2, c)
          PROVE  /\ cl2[c].fd \in Fds /\ (cl2[c].status # "badfd" => cl2[c].slot # 0)
                 /\ cl2[c].status = "out" =>
                       fl2[cl2[c].fd].state = "open" /\ fl2[cl2[c].fd].slot = cl2[c].slot
      <3>1. CASE c = c0
        BY <1>1, <1>5, <1>a, <2>1, <3>1, Zenon
      <3>2. CASE c # c0
        <4>1. Uses(cl, c) /\ cl2[c] = cl[c]
          BY <1>1, <1>3, <2>1, <3>2, Zenon DEF Uses
        <4>2. /\ cl[c].fd \in Fds /\ (cl[c].status # "badfd" => cl[c].slot # 0)
              /\ cl[c].status = "out" =>
                    fl[cl[c].fd].state = "open" /\ fl[cl[c].fd].slot = cl[c].slot
          BY <1>0, <4>1, Zenon DEF Users
        <4> QED  BY <1>6, <4>1, <4>2, Zenon
      <3> QED  BY <3>1, <3>2, Zenon
    <2>2. ASSUME NEW c \in Calls, cl2[c].status = "out", cl2[c].fd \in Fds
          PROVE  Opens(cl2, c) \/ Uses(cl2, c)
      <3>1. CASE c = c0
        <4>1. "fd" \in gf_fops[r.op].learns \/ "fd" \in gf_fops[r.op].sends
          BY <1>1, <2>2, <3>1, Zenon DEF Fresh
        <4> QED  BY <1>1, <2>2, <3>1, <4>1, Zenon DEF Opens, Uses
      <3>2. CASE c # c0
        <4>1. Opens(cl, c) \/ Uses(cl, c)
          BY <1>0, <1>1, <2>2, <3>2, Zenon DEF Users
        <4> QED  BY <1>3, <3>2, <4>1, Zenon
      <3> QED  BY <3>1, <3>2, Zenon
    <2>3. \A c \in Calls : cl2[c].status # "idle" => cl2[c].op \in Fops
      <3>1. r.op \in Fops
        BY Zenon DEF Fresh
      <3>2. \A c \in Calls : cl[c].status # "idle" => cl[c].op \in Fops
        BY <1>0, Zenon DEF Users
      <3> QED  BY <1>1, <3>1, <3>2, Zenon
    <2> QED  BY <2>1, <2>2, <2>3, Zenon DEF Users
  <1>9. \A s \in Slots : \A f \in Fds : fl[f].state = "free" => sv.fds[s] # f
    BY <1>0, Zenon DEF Table
  <1>10. Table(tr, cl2, fl2, sv.fds)
    <2>1. ASSUME NEW c, NEW s, Opens(cl2, c), s \in Slots, sv.fds[s] = cl2[c].fd
          PROVE  ~Pending(tr, c)
      <3>1. c # c0
        BY <1>1, <1>4, <1>9, <2>1, Zenon
      <3>2. Opens(cl, c) /\ cl2[c] = cl[c]
        BY <1>1, <1>3, <2>1, <3>1, Zenon DEF Opens
      <3> QED  BY <1>0, <2>1, <3>2, Zenon DEF Table
    <2>2. \A f \in Fds : fl2[f].state = "free" => fl[f].state = "free"
      BY <1>6, Zenon
    <2> QED  BY <1>0, <2>1, <2>2, Zenon DEF Table
  <1>b. tr \in [Transports -> TransportRec]
    BY <1>0, Zenon DEF Types
  <1>11. Names(tr, cl2)
    <2> SUFFICES ASSUME NEW t, NEW i, NEW m, Has(tr, "req", t, i, m), m.kind = "fop"
                 PROVE  m.slot = cl2[m.c].slot
      BY Zenon DEF Names
    <2>1. m.c \in Calls /\ In(tr, "req", t, i, m.c)
      BY <1>b, MessageTyped, Zenon
    <2>2. m.c # c0
      BY <1>2, <2>1, Zenon DEF Nowhere
    <2>3. m.slot = cl[m.c].slot
      BY <1>0, Zenon DEF Names
    <2> QED  BY <1>1, <2>1, <2>2, <2>3, Zenon
  <1>12. OnePlace(tr, cl2)
    <2>1. ASSUME NEW c, ~Nowhere(tr, c)  PROVE c \in Calls /\ cl2[c].status \in {"out", "notconn"}
      <3>1. c \in Calls /\ cl[c].status \in {"out", "notconn"}
        BY <1>0, <2>1, Zenon DEF OnePlace
      <3> QED  BY <1>1, <1>2, <2>1, <3>1, Zenon
    <2> QED  BY <1>0, <2>1, Zenon DEF OnePlace
  <1>13. ASSUME Whole(sv)  PROVE SlotsTrue(tr, cl2, fl2, sv.fds, rn)
    <2>0. SlotsTrue(tr, cl, fl, sv.fds, rn)
      BY <1>13, Zenon DEF Desc
    <2>1. FilesTrue(fl2, sv.fds)
      BY <1>6, <2>0, Zenon DEF SlotsTrue, FilesTrue
    <2>2. RepliesTrue(tr, cl2, sv.fds)
      <3> SUFFICES ASSUME NEW t, NEW i, NEW m, Has(tr, "rep", t, i, m), m.status = "ok",
                          Opens(cl2, m.c), cl2[m.c].status = "out"
                   PROVE  m.slot # 0 /\ sv.fds[m.slot] = cl2[m.c].fd
        BY Zenon DEF RepliesTrue
      <3>1. m.c \in Calls /\ In(tr, "rep", t, i, m.c)
        BY <1>b, MessageTyped, Zenon
      <3>2. m.c # c0
        BY <1>2, <3>1, Zenon DEF Nowhere
      <3>3. Opens(cl, m.c) /\ cl2[m.c] = cl[m.c]
        <4>1. Opens(cl, m.c)
          BY <1>3, <3>2, Zenon
        <4>2. cl2[m.c] = cl[m.c]
          BY <1>1, <3>1, <3>2, Zenon
        <4> QED  BY <4>1, <4>2, Zenon
      <3> QED  BY <2>0, <3>3, Zenon DEF SlotsTrue, RepliesTrue
    <2>3. ReleasesTrue(tr, fl2, sv.fds)
      <3>1. \A f \in Fds : fl[f].state = "released" => fl2[f] = fl[f]
        BY <1>6, Zenon
      <3>2. ASSUME NEW s, Released(fl, sv.fds, s)  PROVE Released(fl2, sv.fds, s)
        <4>1. PICK f \in Fds : fl[f].state = "released" /\ fl[f].slot = s /\ sv.fds[s] = f
          BY <3>2, Zenon DEF Released
        <4> QED  BY <3>1, <4>1, Zenon DEF Released
      <3> QED  BY <2>0, <3>2, Zenon DEF SlotsTrue, ReleasesTrue
    <2>4. RunsTrue(tr, cl2, rn)
      <3>1. ASSUME NEW c, Uses(cl2, c), cl2[c].status \in {"ok", "error"}
            PROVE  rn[c].fd = cl2[c].fd
        <4>1. c # c0
          BY <1>a, <1>1, <3>1, Zenon
        <4>2. Uses(cl, c) /\ cl2[c] = cl[c]
          BY <1>1, <1>3, <3>1, <4>1, Zenon DEF Uses
        <4> QED  BY <2>0, <3>1, <4>2, Zenon DEF SlotsTrue, RunsTrue
      <3>2. ASSUME NEW c, NEW k, NEW t, NEW i, Uses(cl2, c), cl2[c].status = "out",
                   In(tr, k, t, i, c), k # "req"
            PROVE  rn[c].fd = cl2[c].fd
        <4>1. c # c0
          BY <1>2, <3>2, Zenon DEF Nowhere
        <4>2. Uses(cl, c) /\ cl2[c] = cl[c]
          BY <1>1, <1>3, <3>2, <4>1, Zenon DEF Uses
        <4> QED  BY <2>0, <3>2, <4>2, Zenon DEF SlotsTrue, RunsTrue
      <3> QED  BY <3>1, <3>2, Zenon DEF RunsTrue
    <2> QED  BY <2>1, <2>2, <2>3, <2>4, Zenon DEF SlotsTrue
  <1>14. Types(tr, cl2, fl2, sv, rn)
    BY <1>0, <1>1, Zenon DEF Types, Fresh
  <1>15. Desc(tr, cl2, fl2, sv, rn)
    BY <1>0, <1>7, <1>8, <1>10, <1>11, <1>12, <1>13, <1>14, Zenon DEF Desc
  <1>16. Opens(cl2, c0) => \A s \in Slots : sv.fds[s] # r.fd
    BY <1>4, <1>9, Zenon
  <1> QED  BY <1>1, <1>2, <1>15, <1>16, Zenon

\* As long as a descriptor is not in the table there is a free slot, and
\* gf_fd_unused_get finds one: the table has as many slots as there are descriptors.
\* It is proved, from facts about finite sets, in ProtocolDescriptorProofs; the lemmas
\* on steps that fill a slot assume it.
SlotToSpare ==
    \A fds \in Tables, x \in Fds :
       /\ \A s \in Slots : fds[s] # x
       /\ \A r, s \in Slots : fds[r] = fds[s] /\ fds[r] # NoFd => r = s
       => gf_fd_unused_get(fds) \in Slots /\ fds[gf_fd_unused_get(fds)] = NoFd

\* One slot of the table changes.
SlotSet(sv, s0, x, sv2) ==
    /\ sv2 \in ServerRec /\ sv2.gen = sv.gen /\ sv2.last = sv.last
    /\ sv2.fds[s0] = x /\ \A s \in Slots : s # s0 => sv2.fds[s] = sv.fds[s]

\* Setting one slot (server_release, gf_fd_unused_get for an open) keeps the others.
LEMMA SlotChanged ==
    ASSUME NEW sv \in ServerRec, NEW s0 \in Slots, NEW x \in Fds \cup {NoFd}, NEW sv2,
           sv2 = [sv EXCEPT !.fds[s0] = x]
    PROVE  SlotSet(sv, s0, x, sv2)
  <1> DEFINE F == [sv.fds EXCEPT ![s0] = x]
  <1>1. sv.fds \in Tables
    BY Zenon DEF ServerRec
  <1>2. F \in Tables /\ F[s0] = x /\ \A s \in Slots : s # s0 => F[s] = sv.fds[s]
    BY <1>1, Zenon DEF Tables
  <1>3. sv2 = [sv EXCEPT !.fds = F]
    OBVIOUS
  <1> DEFINE y == [sv EXCEPT !.fds = F]
  <1> HIDE DEF F
  <1>4. y \in ServerRec /\ y.fds = F /\ y.gen = sv.gen /\ y.last = sv.last
    BY <1>2, ServerField, Zenon
  <1>5. sv2 = y
    BY <1>3, Zenon
  <1> HIDE DEF y
  <1>6. sv2.fds = F
    BY <1>4, <1>5, Zenon
  <1> QED  BY <1>2, <1>4, <1>5, <1>6, Zenon DEF SlotSet

\* A slot is emptied for the one release of it that was on its way (gf_fd_put).
LEMMA EmptyKeeps ==
    ASSUME NEW tr, NEW cl, NEW fl, NEW sv, NEW rn, Desc(tr, cl, fl, sv, rn), NEW s0 \in Slots,
           Whole(sv) => /\ Released(fl, sv.fds, s0)
                        /\ \A t, i, m : Has(tr, "req", t, i, m) /\ m.kind = "release" => m.slot # s0,
           NEW sv2, sv2 = [sv EXCEPT !.fds[s0] = NoFd]
    PROVE  Desc(tr, cl, fl, sv2, rn)
  <1>0. /\ Types(tr, cl, fl, sv, rn) /\ Openers(cl, fl) /\ Table(tr, cl, fl, sv.fds)
        /\ sv.gen \in {0, sv.last} /\ sv \in ServerRec
    BY Zenon DEF Desc, Types, ServerRec
  <1>1. /\ sv2 \in ServerRec /\ sv2.gen = sv.gen /\ sv2.last = sv.last
        /\ sv2.fds[s0] = NoFd /\ \A s \in Slots : s # s0 => sv2.fds[s] = sv.fds[s]
    <2>1. NoFd \in Fds \cup {NoFd}
      OBVIOUS
    <2>2. SlotSet(sv, s0, NoFd, sv2)
      BY <1>0, <2>1, SlotChanged, Zenon
    <2> QED  BY <2>2, Zenon DEF SlotSet
  <1> DEFINE F == sv2.fds
  <1>2. /\ F[s0] = NoFd /\ NoFd \notin Fds /\ \A s \in Slots : s # s0 => F[s] = sv.fds[s]
    BY <1>1, ConstantsAssumption, Zenon DEF ConstantsAssumption
  <1> HIDE DEF F
  <1>3. Table(tr, cl, fl, F)
    <2>1. \A s \in Slots : F[s] # NoFd => F[s] = sv.fds[s]
      BY <1>2, Zenon
    <2>2. \A c : Opens(cl, c) => cl[c].fd \in Fds
      BY <1>0, Zenon DEF Openers
    <2>3. \A c, s : Opens(cl, c) /\ s \in Slots /\ F[s] = cl[c].fd => ~Pending(tr, c)
      BY <1>0, <1>2, <2>1, <2>2, Zenon DEF Table
    <2>4. \A f \in Fds, s \in Slots : fl[f].state = "free" => F[s] # f
      BY <1>0, <1>2, <2>1, Zenon DEF Table
    <2>5. \A r, s \in Slots : F[r] = F[s] /\ F[r] # NoFd => r = s
      BY <1>0, <2>1, Zenon DEF Table
    <2> QED  BY <2>3, <2>4, <2>5, Zenon DEF Table
  <1>4. ASSUME Whole(sv2)  PROVE SlotsTrue(tr, cl, fl, F, rn)
    <2>0. Whole(sv) /\ SlotsTrue(tr, cl, fl, sv.fds, rn)
      BY <1>1, <1>4, Zenon DEF Desc, Whole
    <2>1. PICK f0 \in Fds : fl[f0].state = "released" /\ fl[f0].slot = s0 /\ sv.fds[s0] = f0
      BY <2>0, Zenon DEF Released
    <2>a. \A f \in Fds : fl[f].slot \in {0} \cup Slots
      BY <1>0, Zenon DEF Types, FileRec
    <2>2. FilesTrue(fl, F)
      <3> SUFFICES ASSUME NEW f \in Fds, fl[f].state = "open", fl[f].slot # 0
                   PROVE  F[fl[f].slot] = f
        BY Zenon DEF FilesTrue
      <3>1. sv.fds[fl[f].slot] = f
        BY <2>0, Zenon DEF SlotsTrue, FilesTrue
      <3> QED  BY <1>2, <2>1, <2>a, <3>1, Zenon
    <2>3. RepliesTrue(tr, cl, F)
      <3> SUFFICES ASSUME NEW t, NEW i, NEW m, Has(tr, "rep", t, i, m), m.status = "ok",
                          Opens(cl, m.c), cl[m.c].status = "out"
                   PROVE  m.slot # 0 /\ F[m.slot] = cl[m.c].fd
        BY Zenon DEF RepliesTrue
      <3>1. m.slot # 0 /\ sv.fds[m.slot] = cl[m.c].fd
        BY <2>0, Zenon DEF SlotsTrue, RepliesTrue
      <3>2. fl[cl[m.c].fd].state = "opening"
        BY <1>0, Zenon DEF Openers
      <3>3. m.slot \in {0} \cup Slots
        <4>1. tr \in [Transports -> TransportRec]
          BY <1>0, Zenon DEF Types
        <4>2. m \in Replies /\ m.kind = "reply"
          BY <4>1, MessageTyped, Zenon
        <4> QED  BY <4>2, Zenon DEF Replies
      <3> QED  BY <1>2, <2>1, <3>1, <3>2, <3>3, Zenon
    <2>4. ReleasesTrue(tr, fl, F)
      <3>0. ReleasesTrue(tr, fl, sv.fds)
        BY <2>0, Zenon DEF SlotsTrue
      <3>1. ASSUME NEW t, NEW i, NEW m, Has(tr, "req", t, i, m), m.kind = "release"
            PROVE  Released(fl, F, m.slot)
        <4>1. Released(fl, sv.fds, m.slot) /\ m.slot # s0
          BY <2>0, <3>0, <3>1, Zenon DEF ReleasesTrue
        <4>2. m.slot \in Slots
          <5>1. tr \in [Transports -> TransportRec]
            BY <1>0, Zenon DEF Types
          <5>2. m \in Requests
            BY <3>1, <5>1, MessageTyped, Zenon
          <5> QED  BY <3>1, <5>2, Zenon DEF Requests
        <4>3. F[m.slot] = sv.fds[m.slot]
          BY <1>2, <4>1, <4>2, Zenon
        <4> QED  BY <4>1, <4>3, Zenon DEF Released
      <3> QED  BY <3>0, <3>1, Zenon DEF ReleasesTrue
    <2> QED  BY <2>0, <2>2, <2>3, <2>4, Zenon DEF SlotsTrue
  <1>5. Types(tr, cl, fl, sv2, rn)
    BY <1>0, <1>1, Zenon DEF Types, ServerRec
  <1>6. sv2.gen \in {0, sv2.last}
    BY <1>0, <1>1, Zenon
  <1> QED  BY <1>3, <1>4, <1>5, <1>6, Zenon DEF Desc, F

\* The descriptor of a call that opens it is put into a free slot (gf_fd_unused_get).
LEMMA InstallKeeps ==
    ASSUME SlotToSpare, NEW tr, NEW cl, NEW fl, NEW sv, NEW rn, Desc(tr, cl, fl, sv, rn), NEW c0,
           Opens(cl, c0), Nowhere(tr, c0), \A s \in Slots : sv.fds[s] # cl[c0].fd,
           NEW s0, s0 = gf_fd_unused_get(sv.fds),
           NEW sv2, sv2 = [sv EXCEPT !.fds[s0] = cl[c0].fd]
    PROVE  Desc(tr, cl, fl, sv2, rn) /\ s0 \in Slots /\ sv2.fds[s0] = cl[c0].fd
  <1>0. /\ Types(tr, cl, fl, sv, rn) /\ Openers(cl, fl) /\ Table(tr, cl, fl, sv.fds)
        /\ sv.gen \in {0, sv.last} /\ sv \in ServerRec
    BY Zenon DEF Desc, Types, ServerRec
  <1> DEFINE x == cl[c0].fd
  <1>a. x \in Fds /\ fl[x].state # "free" /\ sv.fds \in Tables
    <2>1. cl[c0].fd \in Fds /\ fl[cl[c0].fd].state # "free"
      BY <1>0, Zenon DEF Openers
    <2>2. sv.fds \in Tables
      BY <1>0, Zenon DEF ServerRec
    <2> QED  BY <2>1, <2>2, Zenon
  <1>b. s0 \in Slots /\ sv.fds[s0] = NoFd
    <2>1. \A r, s \in Slots : sv.fds[r] = sv.fds[s] /\ sv.fds[r] # NoFd => r = s
      BY <1>0, Zenon DEF Table
    <2>2. gf_fd_unused_get(sv.fds) \in Slots /\ sv.fds[gf_fd_unused_get(sv.fds)] = NoFd
      BY <1>a, <2>1, Zenon DEF SlotToSpare
    <2> QED  BY <2>2, Zenon
  <1>1. SlotSet(sv, s0, x, sv2)
    <2>1. x \in Fds \cup {NoFd}
      BY <1>a, Zenon
    <2> QED  BY <1>0, <1>b, <2>1, SlotChanged, Zenon
  <1> DEFINE F == sv2.fds
  <1>2. /\ F[s0] = x /\ NoFd \notin Fds /\ \A s \in Slots : s # s0 => F[s] = sv.fds[s]
        /\ \A s \in Slots : sv.fds[s] # x
    BY <1>1, ConstantsAssumption, Zenon DEF ConstantsAssumption, SlotSet
  <1>c. \A c : Opens(cl, c) /\ cl[c].fd = x => c = c0
    BY <1>0, Zenon DEF Openers
  <1> HIDE DEF F, x
  <1>3. Table(tr, cl, fl, F)
    <2>3. ASSUME NEW c, NEW s, Opens(cl, c), s \in Slots, F[s] = cl[c].fd  PROVE ~Pending(tr, c)
      <3>1. CASE s = s0
        <4>1. c = c0
          BY <1>2, <1>c, <2>3, <3>1, Zenon
        <4> QED  BY <4>1, Zenon DEF Pending, Nowhere
      <3>2. CASE s # s0
        <4>1. sv.fds[s] = cl[c].fd
          BY <1>2, <2>3, <3>2, Zenon
        <4> QED  BY <1>0, <2>3, <4>1, Zenon DEF Table
      <3> QED  BY <3>1, <3>2, Zenon
    <2>4. \A f \in Fds, s \in Slots : fl[f].state = "free" => F[s] # f
      BY <1>0, <1>2, <1>a DEF Table
    <2>5. \A r, s \in Slots : F[r] = F[s] /\ F[r] # NoFd => r = s
      BY <1>0, <1>2, Zenon DEF Table
    <2> QED  BY <2>3, <2>4, <2>5, Zenon DEF Table
  <1>4. ASSUME Whole(sv2)  PROVE SlotsTrue(tr, cl, fl, F, rn)
    <2>0. Whole(sv) /\ SlotsTrue(tr, cl, fl, sv.fds, rn)
      BY <1>1, <1>4, Zenon DEF Desc, Whole, SlotSet
    <2>a. \A f \in Fds : fl[f].slot \in {0} \cup Slots
      BY <1>0, Zenon DEF Types, FileRec
    <2>b. \A s \in Slots : \A f \in Fds : sv.fds[s] = f => F[s] = f
      BY <1>2, <1>b, Zenon
    <2>2. FilesTrue(fl, F)
      <3> SUFFICES ASSUME NEW f \in Fds, fl[f].state = "open", fl[f].slot # 0
                   PROVE  F[fl[f].slot] = f
        BY Zenon DEF FilesTrue
      <3>1. sv.fds[fl[f].slot] = f
        BY <2>0, Zenon DEF SlotsTrue, FilesTrue
      <3> QED  BY <2>a, <2>b, <3>1, Zenon
    <2>3. RepliesTrue(tr, cl, F)
      <3> SUFFICES ASSUME NEW t, NEW i, NEW m, Has(tr, "rep", t, i, m), m.status = "ok",
                          Opens(cl, m.c), cl[m.c].status = "out"
                   PROVE  m.slot # 0 /\ F[m.slot] = cl[m.c].fd
        BY Zenon DEF RepliesTrue
      <3>1. m.slot # 0 /\ sv.fds[m.slot] = cl[m.c].fd
        BY <2>0, Zenon DEF SlotsTrue, RepliesTrue
      <3>2. cl[m.c].fd \in Fds
        BY <1>0, Zenon DEF Openers
      <3>3. m.slot \in {0} \cup Slots
        <4>1. tr \in [Transports -> TransportRec]
          BY <1>0, Zenon DEF Types
        <4>2. m \in Replies /\ m.kind = "reply"
          BY <4>1, MessageTyped, Zenon
        <4> QED  BY <4>2, Zenon DEF Replies
      <3> QED  BY <2>b, <3>1, <3>2, <3>3, Zenon
    <2>4. ReleasesTrue(tr, fl, F)
      <3>0. ReleasesTrue(tr, fl, sv.fds)
        BY <2>0, Zenon DEF SlotsTrue
      <3>1. ASSUME NEW t, NEW i, NEW m, Has(tr, "req", t, i, m), m.kind = "release"
            PROVE  Released(fl, F, m.slot)
        <4>1. PICK f \in Fds : /\ fl[f].state = "released" /\ fl[f].slot = m.slot
                               /\ sv.fds[m.slot] = f
          BY <3>0, <3>1, Zenon DEF ReleasesTrue, Released
        <4>2. m.slot \in Slots
          <5>1. tr \in [Transports -> TransportRec]
            BY <1>0, Zenon DEF Types
          <5>2. m \in Requests
            BY <3>1, <5>1, MessageTyped, Zenon
          <5> QED  BY <3>1, <5>2, Zenon DEF Requests
        <4>3. F[m.slot] = f
          BY <2>b, <4>1, <4>2, Zenon
        <4> QED  BY <4>1, <4>3, Zenon DEF Released
      <3> QED  BY <3>0, <3>1, Zenon DEF ReleasesTrue
    <2> QED  BY <2>0, <2>2, <2>3, <2>4, Zenon DEF SlotsTrue
  <1>5. Types(tr, cl, fl, sv2, rn)
    BY <1>0, <1>1, Zenon DEF Types, ServerRec, SlotSet
  <1>6. sv2.gen \in {0, sv2.last}
    BY <1>0, <1>1, Zenon DEF SlotSet
  <1>7. Desc(tr, cl, fl, sv2, rn)
    BY <1>3, <1>4, <1>5, <1>6, Zenon DEF Desc, F
  <1> QED  BY <1>2, <1>7, <1>b, Zenon DEF F, x

\* ran, once the server has looked up what c is to run on.
Ran(rn, c, r) == [rn EXCEPT ![c] = r]

\* No call on f is out; the descriptors of the client when f has come to state st.
Unused(cl, f) == \A c \in Calls : ~(cl[c].fd = f /\ cl[c].status = "out")
WithState(fl, f, st) == [fl EXCEPT ![f].state = st]

\* What the server runs a call on is set when it takes the call up (gf_fd_fdptr_get).
LEMMA RanKeeps ==
    ASSUME NEW tr, NEW cl, NEW fl, NEW sv, NEW rn, Desc(tr, cl, fl, sv, rn), NEW c0 \in Calls,
           Nowhere(tr, c0), cl[c0].status \in {"out", "notconn"}, NEW r \in RanRec, NEW rn2,
           rn2 = Ran(rn, c0, r)
    PROVE  Desc(tr, cl, fl, sv, rn2) /\ rn2[c0] = r
  <1>0. Types(tr, cl, fl, sv, rn) /\ rn \in [Calls -> RanRec]
    BY Zenon DEF Desc, Types
  <1>1. rn2 \in [Calls -> RanRec] /\ rn2[c0] = r /\ \A c \in Calls : c # c0 => rn2[c] = rn[c]
    BY <1>0, Zenon DEF Ran
  <1>2. ASSUME Whole(sv)  PROVE SlotsTrue(tr, cl, fl, sv.fds, rn2)
    <2>0. SlotsTrue(tr, cl, fl, sv.fds, rn)
      BY <1>2, Zenon DEF Desc
    <2>1. ASSUME NEW c, Uses(cl, c), cl[c].status \in {"ok", "error"}
          PROVE  rn2[c].fd = cl[c].fd
      <3>1. c \in Calls /\ c # c0
        BY <2>1, Zenon DEF Uses
      <3> QED  BY <1>1, <2>0, <2>1, <3>1, Zenon DEF SlotsTrue, RunsTrue
    <2>2. ASSUME NEW c, NEW k, NEW t, NEW i, Uses(cl, c), cl[c].status = "out",
                 In(tr, k, t, i, c), k # "req"
          PROVE  rn2[c].fd = cl[c].fd
      <3>1. c \in Calls
        BY <2>2, Zenon DEF Uses
      <3>2. c # c0
        BY <2>2, Zenon DEF Nowhere
      <3>3. rn[c].fd = cl[c].fd
        BY <2>0, <2>2, Zenon DEF SlotsTrue, RunsTrue
      <3> QED  BY <1>1, <3>1, <3>2, <3>3, Zenon
    <2>3. RunsTrue(tr, cl, rn2)
      BY <2>1, <2>2, Zenon DEF RunsTrue
    <2> QED  BY <2>0, <2>3, Zenon DEF SlotsTrue
  <1>3. Types(tr, cl, fl, sv, rn2)
    BY <1>0, <1>1, Zenon DEF Types
  <1> QED  BY <1>1, <1>2, <1>3, Zenon DEF Desc

\* The client lets go of an open descriptor that no call is out on (client_release).
LEMMA FileGoneKeeps ==
    ASSUME NEW tr, NEW cl, NEW fl, NEW sv, NEW rn, Desc(tr, cl, fl, sv, rn), NEW f0 \in Fds,
           fl[f0].state = "open", Unused(cl, f0), NEW st \in {"released", "dropped"}
    PROVE  Desc(tr, cl, WithState(fl, f0, st), sv, rn)
  <1> DEFINE fl2 == WithState(fl, f0, st)
  <1>0. /\ Types(tr, cl, fl, sv, rn) /\ Openers(cl, fl) /\ Users(cl, fl) /\ Table(tr, cl, fl, sv.fds)
        /\ fl \in [Fds -> FileRec]
    BY Zenon DEF Desc, Types
  <1>1. /\ fl2 \in [Fds -> FileRec] /\ fl2[f0].state = st /\ fl2[f0].slot = fl[f0].slot
        /\ \A f \in Fds : f # f0 => fl2[f] = fl[f]
    BY <1>0, Zenon DEF FileRec, WithState
  <1> HIDE DEF fl2
  <1>2. /\ \A f \in Fds : fl2[f].state = fl[f].state \/ (f = f0 /\ fl2[f].state = st)
        /\ \A f \in Fds : fl2[f].slot = fl[f].slot
    BY <1>1, Zenon
  <1>3. Openers(cl, fl2)
    <2>1. ASSUME NEW c, Opens(cl, c)
          PROVE  /\ cl[c].fd \in Fds /\ fl2[cl[c].fd].state # "free"
                 /\ cl[c].status = "out" => fl2[cl[c].fd].state = "opening"
      <3>1. /\ cl[c].fd \in Fds /\ fl[cl[c].fd].state # "free" /\ c \in Calls
            /\ cl[c].status = "out" => fl[cl[c].fd].state = "opening"
        BY <1>0, <2>1, Zenon DEF Openers, Opens
      <3> QED  BY <1>2, <3>1, Zenon DEF Unused
    <2>2. \A f \in Fds : fl2[f].state \in {"free", "opening"} => fl2[f].slot = 0
      <3>1. \A f \in Fds : fl[f].state \in {"free", "opening"} => fl[f].slot = 0
        BY <1>0, Zenon DEF Openers
      <3> QED  BY <1>2, <3>1, Zenon DEF Unused
    <2> QED  BY <1>0, <2>1, <2>2, Zenon DEF Openers
  <1>4. Users(cl, fl2)
    <2>1. ASSUME NEW c, Uses(cl, c)
          PROVE  /\ cl[c].fd \in Fds /\ (cl[c].status # "badfd" => cl[c].slot # 0)
                 /\ cl[c].status = "out" =>
                       fl2[cl[c].fd].state = "open" /\ fl2[cl[c].fd].slot = cl[c].slot
      <3>1. /\ cl[c].fd \in Fds /\ (cl[c].status # "badfd" => cl[c].slot # 0) /\ c \in Calls
            /\ cl[c].status = "out" => fl[cl[c].fd].state = "open" /\ fl[cl[c].fd].slot = cl[c].slot
        BY <1>0, <2>1, Zenon DEF Users, Uses
      <3> QED  BY <1>2, <3>1, Zenon DEF Unused
    <2> QED  BY <1>0, <2>1, Zenon DEF Users
  <1>5. Table(tr, cl, fl2, sv.fds)
    <2>1. \A f \in Fds : fl2[f].state = "free" => fl[f].state = "free"
      BY <1>2, Zenon
    <2> QED  BY <1>0, <2>1, Zenon DEF Table
  <1>6. ASSUME Whole(sv)  PROVE SlotsTrue(tr, cl, fl2, sv.fds, rn)
    <2>0. SlotsTrue(tr, cl, fl, sv.fds, rn)
      BY <1>6, Zenon DEF Desc
    <2>1. FilesTrue(fl2, sv.fds)
      BY <1>2, <2>0, Zenon DEF SlotsTrue, FilesTrue
    <2>2. ReleasesTrue(tr, fl2, sv.fds)
      <3>1. \A f \in Fds : fl[f].state = "released" => fl2[f] = fl[f]
        BY <1>1, Zenon
      <3>2. ASSUME NEW s, Released(fl, sv.fds, s)  PROVE Released(fl2, sv.fds, s)
        <4>1. PICK f \in Fds : fl[f].state = "released" /\ fl[f].slot = s /\ sv.fds[s] = f
          BY <3>2, Zenon DEF Released
        <4> QED  BY <3>1, <4>1, Zenon DEF Released
      <3> QED  BY <2>0, <3>2, Zenon DEF SlotsTrue, ReleasesTrue
    <2> QED  BY <2>0, <2>1, <2>2, Zenon DEF SlotsTrue
  <1>7. Types(tr, cl, fl2, sv, rn)
    BY <1>0, <1>1, Zenon DEF Types
  <1>8. Desc(tr, cl, fl2, sv, rn)
    BY <1>3, <1>4, <1>5, <1>6, <1>7, Zenon DEF Desc
  <1> QED  BY <1>8, Zenon DEF fl2

\* The release of a slot goes out; it is the only one of that slot.
LEMMA PostReleaseKeeps ==
    ASSUME NEW tr, NEW cl, NEW fl, NEW sv, NEW rn, Desc(tr, cl, fl, sv, rn), NEW tr2,
           tr2 \in [Transports -> TransportRec], NEW m0, Posts(tr, tr2, "req", m0),
           m0.kind = "release",
           Whole(sv) => /\ Released(fl, sv.fds, m0.slot)
                        /\ \A t, i, m : Has(tr, "req", t, i, m) /\ m.kind = "release" =>
                              m.slot # m0.slot
    PROVE  Desc(tr2, cl, fl, sv, rn)
  <1>0. /\ Types(tr, cl, fl, sv, rn) /\ OnePlace(tr, cl) /\ Table(tr, cl, fl, sv.fds) /\ Names(tr, cl)
    BY Zenon DEF Desc
  <1>1. PICK t0, i0 : PostsAt(tr, tr2, "req", t0, i0, m0)
    BY Zenon DEF Posts
  <1>2. \A k, t, i, m : Has(tr2, k, t, i, m) =>
           Has(tr, k, t, i, m) \/ (SamePlace(k, t, i, "req", t0, i0) /\ m = m0)
    BY <1>1, Zenon DEF PostsAt
  <1>3. \A k, t, i, m : Has(tr2, k, t, i, m) /\ m.kind # "release" => Has(tr, k, t, i, m)
    BY <1>2, Zenon
  <1>4. ASSUME NEW k, NEW t, NEW i, NEW c, In(tr2, k, t, i, c)  PROVE In(tr, k, t, i, c)
    <2>1. CASE \E m : Has(tr2, k, t, i, m) /\ m.kind \in {"fop", "reply"} /\ m.c = c
      <3>1. PICK m : Has(tr2, k, t, i, m) /\ m.kind \in {"fop", "reply"} /\ m.c = c
        BY <2>1, Zenon
      <3>2. m.kind # "release"
        BY <3>1, Zenon
      <3> QED  BY <1>3, <3>1, <3>2, Zenon DEF In
    <2>2. CASE k \in {"walk", "run"} /\ t \in Transports /\ i = 0 /\ c \in Set(tr2, k, t)
      <3>1. Set(tr2, k, t) \subseteq Set(tr, k, t)
        BY <2>2, Zenon DEF Posts
      <3> QED  BY <2>2, <3>1, Zenon DEF In
    <2> QED  BY <1>4, <2>1, <2>2, Zenon DEF In
  <1>5. OnePlace(tr2, cl)
    <2>1. \A c : Nowhere(tr, c) => Nowhere(tr2, c)
      BY <1>4, Zenon DEF Nowhere
    <2>2. \A c : Nowhere(tr2, c) \/ (c \in Calls /\ cl[c].status \in {"out", "notconn"})
      BY <1>0, <2>1, Zenon DEF OnePlace
    <2>3. \A c, k, l, t, u, i, j :
             In(tr2, k, t, i, c) /\ In(tr2, l, u, j, c) => SamePlace(k, t, i, l, u, j)
      BY <1>0, <1>4, Zenon DEF OnePlace
    <2> QED  BY <2>2, <2>3, Zenon DEF OnePlace
  <1>6. Table(tr2, cl, fl, sv.fds)
    <2>1. \A c : Pending(tr2, c) => Pending(tr, c)
      BY <1>4, Zenon DEF Pending
    <2> QED  BY <1>0, <2>1, Zenon DEF Table
  <1>7. Names(tr2, cl)
    <2> SUFFICES ASSUME NEW t, NEW i, NEW m, Has(tr2, "req", t, i, m), m.kind = "fop"
                 PROVE  m.slot = cl[m.c].slot
      BY Zenon DEF Names
    <2>1. m.kind # "release"
      OBVIOUS
    <2>2. Has(tr, "req", t, i, m)
      BY <1>3, <2>1, Zenon
    <2> QED  BY <1>0, <2>2, Zenon DEF Names
  <1>8. ASSUME Whole(sv)  PROVE SlotsTrue(tr2, cl, fl, sv.fds, rn)
    <2>0. SlotsTrue(tr, cl, fl, sv.fds, rn)
      BY <1>8, Zenon DEF Desc
    <2>1. RepliesTrue(tr2, cl, sv.fds)
      <3>1. \A t, i, m : Has(tr2, "rep", t, i, m) => Has(tr, "rep", t, i, m)
        BY <1>2 DEF SamePlace
      <3> QED  BY <2>0, <3>1, Zenon DEF SlotsTrue, RepliesTrue
    <2>2. ReleasesTrue(tr2, fl, sv.fds)
      <3>0. ReleasesTrue(tr, fl, sv.fds)
        BY <2>0, Zenon DEF SlotsTrue
      <3>1. ASSUME NEW t, NEW i, NEW m, Has(tr2, "req", t, i, m), m.kind = "release"
            PROVE  Released(fl, sv.fds, m.slot)
        <4>1. CASE Has(tr, "req", t, i, m)
          BY <3>0, <3>1, <4>1, Zenon DEF ReleasesTrue
        <4>2. CASE m = m0
          BY <1>8, <4>2, Zenon
        <4> QED  BY <1>2, <3>1, <4>1, <4>2, Zenon
      <3>2. ASSUME NEW t, NEW u, NEW i, NEW j, NEW m, NEW o,
                   Has(tr2, "req", t, i, m), m.kind = "release",
                   Has(tr2, "req", u, j, o), o.kind = "release", m.slot = o.slot
            PROVE  SamePlace("req", t, i, "req", u, j)
        <4>1. \/ Has(tr, "req", t, i, m)
              \/ SamePlace("req", t, i, "req", t0, i0) /\ m = m0
          BY <1>2, <3>2, Zenon
        <4>2. \/ Has(tr, "req", u, j, o)
              \/ SamePlace("req", u, j, "req", t0, i0) /\ o = m0
          BY <1>2, <3>2, Zenon
        <4>3. \A a, b, p : Has(tr, "req", a, b, p) /\ p.kind = "release" => p.slot # m0.slot
          BY <1>8, Zenon
        <4>4. CASE Has(tr, "req", t, i, m)
          <5>1. o # m0
            BY <3>2, <4>3, <4>4, Zenon
          <5>2. Has(tr, "req", u, j, o)
            BY <4>2, <5>1, Zenon
          <5> QED  BY <3>0, <3>2, <4>4, <5>2, Zenon DEF ReleasesTrue, OneRelease
        <4>5. CASE SamePlace("req", t, i, "req", t0, i0) /\ m = m0
          <5>1. ~Has(tr, "req", u, j, o)
            BY <3>2, <4>3, <4>5, Zenon
          <5> QED  BY <4>2, <4>5, <5>1, Zenon DEF SamePlace
        <4> QED  BY <4>1, <4>4, <4>5, Zenon
      <3>3. OneRelease(tr2)
        BY <3>2, Zenon DEF OneRelease
      <3> QED  BY <3>1, <3>3, Zenon DEF ReleasesTrue
    <2>3. RunsTrue(tr2, cl, rn)
      <3>1. RunsTrue(tr, cl, rn)
        BY <2>0, Zenon DEF SlotsTrue
      <3>2. ASSUME NEW c, NEW k, NEW t, NEW i, Uses(cl, c), cl[c].status = "out",
                   In(tr2, k, t, i, c), k # "req"
            PROVE  rn[c].fd = cl[c].fd
        <4>1. In(tr, k, t, i, c)
          BY <1>4, <3>2, Zenon
        <4> QED  BY <3>1, <3>2, <4>1, Zenon DEF RunsTrue
      <3> QED  BY <3>1, <3>2, Zenon DEF RunsTrue
    <2> QED  BY <2>0, <2>1, <2>2, <2>3, Zenon DEF SlotsTrue
  <1>9. Types(tr2, cl, fl, sv, rn)
    BY <1>0, Zenon DEF Types
  <1> QED  BY <1>5, <1>6, <1>7, <1>8, <1>9, Zenon DEF Desc

\* What happens to a transport other than a message or a call leaves no more under way.
LEMMA FieldFewer ==
    ASSUME NEW tr \in [Transports -> TransportRec], NEW t \in Transports
    PROVE  /\ \A q : Fewer(tr, [tr EXCEPT ![t].client = q])
           /\ \A q : Fewer(tr, [tr EXCEPT ![t].live = q])
           /\ \A q : Fewer(tr, [tr EXCEPT ![t].gen = q])
           /\ Fewer(tr, [tr EXCEPT ![t].req = <<>>])
           /\ Fewer(tr, [tr EXCEPT ![t].rep = <<>>])
  <1>1. \A q : SameQueues(tr, [tr EXCEPT ![t].client = q])
    BY Zenon DEF SameQueues, TransportRec
  <1>2. \A q : SameQueues(tr, [tr EXCEPT ![t].live = q])
    BY Zenon DEF SameQueues, TransportRec
  <1>3. \A q : SameQueues(tr, [tr EXCEPT ![t].gen = q])
    BY Zenon DEF SameQueues, TransportRec
  <1>4. ASSUME NEW tr2, \A u \in Transports : tr2[u].walking = tr[u].walking /\ tr2[u].running = tr[u].running,
               \A k, u : k \in {"req", "rep"} /\ u \in Transports =>
                    Queue(tr2, k, u) = Queue(tr, k, u) \/ Queue(tr2, k, u) = <<>>
        PROVE  Fewer(tr, tr2)
    <2>1. ASSUME NEW k, NEW u, NEW i, NEW m, Has(tr2, k, u, i, m)  PROVE Has(tr, k, u, i + 0, m)
      <3>1. i \in Nat \ {0} /\ u \in Transports /\ k \in {"req", "rep"}
        BY <2>1, PlaceIsNat, Zenon
      <3>2. i + 0 = i
        BY <3>1
      <3>3. Queue(tr2, k, u) # <<>>
        BY <2>1 DEF Has
      <3>4. Queue(tr2, k, u) = Queue(tr, k, u)
        BY <1>4, <3>1, <3>3, Zenon
      <3>5. Has(tr, k, u, i, m)
        BY <2>1, <3>4, Zenon DEF Has
      <3> QED  BY <3>2, <3>5, Zenon
    <2>2. \A k, u : u \in Transports => Set(tr2, k, u) \subseteq Set(tr, k, u)
      BY <1>4, Zenon DEF Set
    <2>3. 0 \in Nat
      OBVIOUS
    <2> QED  BY <2>1, <2>2, <2>3, Zenon DEF Fewer
  <1>5. Fewer(tr, [tr EXCEPT ![t].req = <<>>])
    <2> DEFINE x == [tr EXCEPT ![t].req = <<>>]
    <2>1. \A u \in Transports : /\ x[u].walking = tr[u].walking /\ x[u].running = tr[u].running
                                /\ x[u].rep = tr[u].rep /\ (x[u].req = tr[u].req \/ x[u].req = <<>>)
      BY Zenon DEF TransportRec
    <2> HIDE DEF x
    <2>2. \A k, u : k \in {"req", "rep"} /\ u \in Transports =>
             Queue(x, k, u) = Queue(tr, k, u) \/ Queue(x, k, u) = <<>>
      BY <2>1, Zenon DEF Queue
    <2>3. Fewer(tr, x)
      BY <1>4, <2>1, <2>2, Zenon
    <2> QED  BY <2>3, Zenon DEF x
  <1>6. Fewer(tr, [tr EXCEPT ![t].rep = <<>>])
    <2> DEFINE x == [tr EXCEPT ![t].rep = <<>>]
    <2>1. \A u \in Transports : /\ x[u].walking = tr[u].walking /\ x[u].running = tr[u].running
                                /\ x[u].req = tr[u].req /\ (x[u].rep = tr[u].rep \/ x[u].rep = <<>>)
      BY Zenon DEF TransportRec
    <2> HIDE DEF x
    <2>2. \A k, u : k \in {"req", "rep"} /\ u \in Transports =>
             Queue(x, k, u) = Queue(tr, k, u) \/ Queue(x, k, u) = <<>>
      BY <2>1, Zenon DEF Queue
    <2>3. Fewer(tr, x)
      BY <1>4, <2>1, <2>2, Zenon
    <2> QED  BY <2>3, Zenon DEF x
  <1> QED  BY <1>1, <1>2, <1>3, <1>5, <1>6, SameIsFewer, Zenon

\* A new transport has nothing under way but its SETVOLUME.
LEMMA NewFewer ==
    ASSUME NEW tr \in [Transports -> TransportRec], NEW t \in Transports, NEW ch \in Channels
    PROVE  /\ [tr EXCEPT ![t] = NewTransport(ch)] \in [Transports -> TransportRec]
           /\ Fewer(tr, [tr EXCEPT ![t] = NewTransport(ch)])
  <1> DEFINE n == NewTransport(ch)  x == [tr EXCEPT ![t] = n]
  <1>1. n = [ch |-> ch, client |-> "open", live |-> TRUE, req |-> <<[kind |-> "setvolume"]>>,
             rep |-> <<>>, walking |-> {}, running |-> {}, gen |-> 0]
    BY Zenon DEF NewTransport
  <1>2. <<[kind |-> "setvolume"]>> \in Seq(Requests) /\ <<>> \in Seq(Replies)
    <2>1. [kind |-> "setvolume"] \in Requests
      BY Zenon DEF Requests
    <2> QED  BY <2>1
  <1>3. /\ n.req = <<[kind |-> "setvolume"]>> /\ n.rep = <<>> /\ n.walking = {} /\ n.running = {}
        /\ n \in TransportRec
    BY <1>1, <1>2, SMTT(30) DEF TransportRec
  <1> HIDE DEF n
  <1>4. x \in [Transports -> TransportRec] /\ x[t] = n /\ \A u \in Transports : u # t => x[u] = tr[u]
    BY <1>3, Zenon
  <1> HIDE DEF x
  <1>5. ASSUME NEW k, NEW u, NEW i, NEW m, Has(x, k, u, i, m)  PROVE Has(tr, k, u, i + 0, m)
    <2>1. i \in Nat \ {0} /\ u \in Transports /\ k \in {"req", "rep"}
      BY <1>5, PlaceIsNat, Zenon
    <2>2. i + 0 = i
      BY <2>1
    <2>3. u # t
      <3>1. CASE u = t
        <4>1. Queue(x, k, t) = <<[kind |-> "setvolume"]>> \/ Queue(x, k, t) = <<>>
          BY <1>3, <1>4, Zenon DEF Queue
        <4>2. i \in 1 .. Len(Queue(x, k, t)) /\ m = Queue(x, k, t)[i] /\ m.kind # "setvolume"
          BY <1>5, <3>1, Zenon DEF Has
        <4> QED  BY <4>1, <4>2
      <3> QED  BY <3>1, Zenon
    <2>4. Queue(x, k, u) = Queue(tr, k, u)
      BY <1>4, <2>1, <2>3, Zenon DEF Queue
    <2>5. Has(tr, k, u, i, m)
      BY <1>5, <2>4, Zenon DEF Has
    <2> QED  BY <2>2, <2>5, Zenon
  <1>6. \A k, u : u \in Transports => Set(x, k, u) \subseteq Set(tr, k, u)
    BY <1>3, <1>4, Zenon DEF Set
  <1>7. 0 \in Nat
    OBVIOUS
  <1>8. Fewer(tr, x)
    BY <1>5, <1>6, <1>7, Zenon DEF Fewer
  <1> QED  BY <1>4, <1>8, Zenon DEF x, n

\* The reply of a call goes out, and the frame's reference to the transport goes
\* (protocol_server_reply).
LEMMA ReplyPosts ==
    ASSUME NEW tr \in [Transports -> TransportRec], NEW t \in Transports, NEW m \in Replies,
           NEW tr2, tr2 = protocol_server_reply(tr, t, m)
    PROVE  tr2 \in [Transports -> TransportRec] /\ Posts(tr, tr2, "rep", m)
  <1> DEFINE x == socket_submit(tr, t, "server", m)
  <1>1. x \in [Transports -> TransportRec] /\ Posts(tr, x, "rep", m)
    BY SubmitPosts
  <1>2. tr2 = transport_unref(x, t)
    BY Zenon DEF protocol_server_reply
  <1> HIDE DEF x
  <1>3. tr2 \in [Transports -> TransportRec] /\ SameQueues(x, tr2)
    BY <1>1, <1>2, UnrefSame, Zenon
  <1>4. \A k, u, i, o : Has(tr2, k, u, i, o) => Has(x, k, u, i, o)
    BY <1>3, SetsFewer, Zenon DEF SameQueues
  <1>5. \A k, u : u \in Transports => Set(tr2, k, u) = Set(x, k, u)
    BY <1>3, Zenon DEF SameQueues, Set
  <1>6. PICK t0, i0 : PostsAt(tr, x, "rep", t0, i0, m)
    BY <1>1, Zenon DEF Posts
  <1>7. PostsAt(tr, tr2, "rep", t0, i0, m)
    <2>1. ASSUME NEW k, NEW u, NEW i, NEW o, Has(tr2, k, u, i, o)
          PROVE  Has(tr, k, u, i, o) \/ (SamePlace(k, u, i, "rep", t0, i0) /\ o = m)
      <3>1. Has(x, k, u, i, o)
        BY <1>4, <2>1, Zenon
      <3> QED  BY <1>6, <3>1 DEF PostsAt
    <2> QED  BY <2>1, Zenon DEF PostsAt
  <1>8. \A k, u : u \in Transports => Set(tr2, k, u) \subseteq Set(tr, k, u)
    BY <1>1, <1>5, Zenon DEF Posts
  <1> QED  BY <1>3, <1>7, <1>8, Zenon DEF Posts

\* The server takes up a call,
LEMMA ServeKeeps ==
    ASSUME NEW tr, NEW tr2, NEW cl, NEW fl, NEW sv, NEW rn, Desc(tr, cl, fl, sv, rn),
           tr2 \in [Transports -> TransportRec], NEW k \in {"walk", "run"}, NEW c \in Calls,
           Nowhere(tr, c), cl[c].status \in {"out", "notconn"}, Takes(tr, tr2, k, c),
           Opens(cl, c) => \A s \in Slots : sv.fds[s] # cl[c].fd,
           Uses(cl, c) /\ cl[c].status = "out" /\ Whole(sv) => rn[c].fd = cl[c].fd
    PROVE  Desc(tr2, cl, fl, sv, rn)
  BY AddKeeps, Zenon

\* or answers it.
LEMMA ReplyKeeps ==
    ASSUME NEW tr, NEW tr2, NEW cl, NEW fl, NEW sv, NEW rn, Desc(tr, cl, fl, sv, rn),
           NEW t \in Transports, NEW c \in Calls, Nowhere(tr, c), cl[c].status \in {"out", "notconn"},
           NEW m \in Replies, m.kind = "reply", m.c = c, tr2 = protocol_server_reply(tr, t, m),
           m.status = "ok" /\ Opens(cl, c) /\ Whole(sv) => m.slot # 0 /\ sv.fds[m.slot] = cl[c].fd,
           Uses(cl, c) /\ cl[c].status = "out" /\ Whole(sv) => rn[c].fd = cl[c].fd
    PROVE  Desc(tr2, cl, fl, sv, rn)
  <1>0. tr \in [Transports -> TransportRec]
    BY Zenon DEF Desc, Types
  <1>1. tr2 \in [Transports -> TransportRec] /\ Posts(tr, tr2, "rep", m)
    BY <1>0, ReplyPosts, Zenon
  <1>2. m.kind \in {"fop", "reply"} /\ "rep" # "req"
    OBVIOUS
  <1>3. \E m0 : /\ Posts(tr, tr2, "rep", m0) /\ m0.kind \in {"fop", "reply"} /\ m0.c = c
                /\ "rep" = "req" => m0.slot = cl[c].slot
                /\ "rep" = "rep" /\ m0.status = "ok" /\ Opens(cl, c) /\ Whole(sv) =>
                      m0.slot # 0 /\ sv.fds[m0.slot] = cl[c].fd
    BY <1>1, <1>2, Zenon
  <1> QED  BY <1>1, <1>3, AddKeeps, ZenonT(30)
=============================================================================
