--------------------- MODULE ProtocolDescriptorProofs ---------------------
(***************************************************************************)
(* As long as the server keeps its first connection object, both ends mean *)
(* the same descriptor by a slot; and as long as no transport is lost, a   *)
(* descriptor the client released does not stay in the server's table.     *)
(* Both for any mix of calls, any number of descriptors and any number of  *)
(* lost transports.  For the second, every step keeps the releases that    *)
(* the server has still to hear of on their way (Sound).                   *)
(***************************************************************************)
EXTENDS ProtocolStepProofs

\* A descriptor has a remote slot only if the call that opened it succeeded, and the
\* server is told of a release only with a slot.
Earned(cl, fl) ==
    /\ \A f \in Fds : fl[f].state = "released" => fl[f].slot # 0
    /\ \A c : Opens(cl, c) /\ fl[cl[c].fd].slot # 0 => cl[c].status = "ok"

\* Answers keep that: an open that failed leaves the descriptor without a slot.
LEMMA AnsweredEarned ==
    ASSUME NEW cl, NEW fl, cl \in [Calls -> CallRec], fl \in [Fds -> FileRec], Openers(cl, fl),
           Earned(cl, fl), NEW c \in Calls, cl[c].status = "out", NEW st \in {"ok", "error", "notconn"},
           NEW slot, NEW gen, Answered(cl, fl, c, st, slot, gen)
    PROVE  Earned(call', file')
  <1>1. call' = [cl EXCEPT ![c].status = st]
    BY Zenon DEF Answered
  <1>2. /\ \A d \in Calls : call'[d].op = cl[d].op /\ call'[d].fd = cl[d].fd
        /\ \A d \in Calls : d # c => call'[d] = cl[d]
        /\ call'[c].status = st /\ st # "idle"
    BY <1>1, Zenon DEF CallRec
  <1>3. \A d : Opens(call', d) <=> Opens(cl, d)
    BY <1>2, Zenon DEF Opens
  <1>4. CASE ~Opens(cl, c)
    <2>1. file' = fl
      BY <1>4, Zenon DEF Answered, Opens
    <2>2. ASSUME NEW d, Opens(call', d), file'[call'[d].fd].slot # 0  PROVE call'[d].status = "ok"
      <3>1. Opens(cl, d) /\ d # c /\ d \in Calls
        BY <1>3, <1>4, <2>2, Zenon DEF Opens
      <3>2. cl[d].status = "ok"
        BY <1>2, <2>1, <2>2, <3>1, Zenon DEF Earned
      <3> QED  BY <1>2, <3>1, <3>2, Zenon
    <2> QED  BY <2>1, <2>2, Zenon DEF Earned
  <1>5. CASE Opens(cl, c)
    <2> DEFINE r == [state |-> "open", slot |-> IF st = "ok" THEN slot ELSE 0,
                     gen |-> IF st = "ok" THEN gen ELSE 0]
               x == cl[c].fd
    <2>1. file' = [fl EXCEPT ![x] = r]
      BY <1>5, Zenon DEF Answered, Opens
    <2>2. x \in Fds
      BY <1>5, Zenon DEF Openers
    <2>3. file'[x] = r /\ \A f \in Fds : f # x => file'[f] = fl[f]
      BY <2>1, <2>2, Zenon
    <2>4. r.state = "open" /\ (r.slot # 0 => st = "ok")
      OBVIOUS
    <2> HIDE DEF r, x
    <2>5. ASSUME NEW f \in Fds, file'[f].state = "released"  PROVE file'[f].slot # 0
      <3>1. f # x
        BY <2>3, <2>4, <2>5, Zenon
      <3> QED  BY <2>3, <2>5, <3>1, Zenon DEF Earned
    <2>6. ASSUME NEW d, Opens(call', d), file'[call'[d].fd].slot # 0  PROVE call'[d].status = "ok"
      <3>1. Opens(cl, d) /\ d \in Calls
        BY <1>3, <2>6, Zenon DEF Opens
      <3>2. CASE d = c
        <4>1. file'[x].slot # 0
          BY <1>2, <2>6, <3>2, Zenon DEF x
        <4> QED  BY <1>2, <2>3, <2>4, <3>2, <4>1, Zenon
      <3>3. CASE d # c
        <4>1. cl[d].fd # x /\ cl[d].fd \in Fds
          BY <1>5, <3>1, <3>3, Zenon DEF Openers, x
        <4>2. fl[cl[d].fd].slot # 0
          BY <1>2, <2>3, <2>6, <3>1, <4>1, Zenon
        <4>3. cl[d].status = "ok"
          BY <3>1, <4>2, Zenon DEF Earned
        <4> QED  BY <1>2, <3>1, <3>3, <4>3, Zenon
      <3> QED  BY <3>2, <3>3, Zenon
    <2> QED  BY <2>5, <2>6, Zenon DEF Earned
  <1> QED  BY <1>4, <1>5, Zenon

\* So does a new call: the descriptor it opens has no slot yet.
LEMMA XferEarned ==
    ASSUME Earned(call, file), Openers(call, file), call \in [Calls -> CallRec],
           file \in [Fds -> FileRec], NEW c \in Calls, call[c].status = "idle",
           NEW op \in Fops, NEW f \in Fds \cup {NoFd}, NEW slot \in {0} \cup Slots, NEW gen \in Nat,
           NEW fl, fl \in [Fds -> FileRec],
           \A g \in Fds : \/ fl[g] = file[g]
                         \/ /\ file[g].state = "free" /\ fl[g].state = "opening"
                            /\ fl[g].slot = file[g].slot,
           "fd" \in gf_fops[op].learns =>
              f \in Fds /\ file[f].state = "free" /\ fl[f].state = "opening",
           protocol_client_xfer(Made(c, op, f, slot, gen), fl, c)
    PROVE  Earned(call', file')
  <1> DEFINE cl == Made(c, op, f, slot, gen)
             r == [op |-> op, fd |-> f, slot |-> slot, gen |-> gen, status |-> "out"]
  <1>1. cl = [call EXCEPT ![c] = r]
    BY Zenon DEF Made
  <1>2. r \in CallRec /\ r.op = op /\ r.fd = f /\ r.status = "out"
    BY Zenon DEF CallRec
  <1> HIDE DEF r
  <1>3. cl \in [Calls -> CallRec] /\ cl[c] = r /\ \A d \in Calls : d # c => cl[d] = call[d]
    BY <1>1, <1>2, Zenon
  <1>a. protocol_client_xfer(cl, fl, c)
    OBVIOUS
  <1> HIDE DEF cl
  <1>4. /\ \A d : Opens(cl, d) /\ d # c => Opens(call, d) /\ cl[d] = call[d]
        /\ Opens(cl, c) => f \in Fds /\ file[f].state = "free" /\ fl[f].state = "opening"
    BY <1>2, <1>3, Zenon DEF Opens
  <1>5. \A g \in Fds : fl[g].slot = file[g].slot /\ (fl[g].state = "released" => file[g].state = "released")
    OBVIOUS
  <1>6. Earned(cl, fl)
    <2>1. \A g \in Fds : fl[g].state = "released" => fl[g].slot # 0
      BY <1>5, Zenon DEF Earned
    <2>2. ASSUME NEW d, Opens(cl, d), fl[cl[d].fd].slot # 0  PROVE cl[d].status = "ok"
      <3>1. CASE d = c
        <4>1. f \in Fds /\ file[f].state = "free" /\ cl[d].fd = f
          BY <1>2, <1>3, <1>4, <2>2, <3>1, Zenon
        <4>2. file[f].state \in {"free", "opening"}
          BY <4>1, Zenon
        <4>3. file[f].slot = 0
          BY <4>1, <4>2, Zenon DEF Openers
        <4> QED  BY <1>5, <2>2, <4>1, <4>3, Zenon
      <3>2. CASE d # c
        <4>1. Opens(call, d) /\ cl[d] = call[d] /\ call[d].fd \in Fds
          BY <1>4, <2>2, <3>2, Zenon DEF Openers
        <4>2. file[call[d].fd].slot # 0
          BY <1>5, <2>2, <4>1, Zenon
        <4> QED  BY <4>1, <4>2, Zenon DEF Earned
      <3> QED  BY <3>1, <3>2, Zenon
    <2> QED  BY <2>1, <2>2, Zenon DEF Earned
  <1>7. Openers(cl, fl)
    <2>1. ASSUME NEW d, Opens(cl, d)
          PROVE  /\ cl[d].fd \in Fds /\ fl[cl[d].fd].state # "free"
                 /\ cl[d].status = "out" => fl[cl[d].fd].state = "opening"
      <3>1. CASE d = c
        <4>1. f \in Fds /\ fl[f].state = "opening" /\ cl[d].fd = f
          BY <1>2, <1>3, <1>4, <2>1, <3>1, Zenon
        <4> QED  BY <4>1, Zenon
      <3>2. CASE d # c
        <4>1. /\ cl[d] = call[d] /\ call[d].fd \in Fds /\ file[call[d].fd].state # "free"
              /\ call[d].status = "out" => file[call[d].fd].state = "opening"
          BY <1>4, <2>1, <3>2, Zenon DEF Openers
        <4> QED  BY <4>1, Zenon
      <3> QED  BY <3>1, <3>2, Zenon
    <2>2. ASSUME NEW d, NEW e, Opens(cl, d), Opens(cl, e), cl[d].fd = cl[e].fd  PROVE d = e
      <3>1. ASSUME NEW i, Opens(cl, i), i # c, Opens(cl, c), cl[i].fd = cl[c].fd  PROVE FALSE
        <4>1. cl[i] = call[i] /\ file[call[i].fd].state # "free"
          BY <1>4, <3>1, Zenon DEF Openers
        <4> QED  BY <1>2, <1>3, <1>4, <3>1, <4>1, ZenonT(30)
      <3>2. CASE d # c /\ e # c
        <4>1. Opens(call, d) /\ Opens(call, e) /\ call[d].fd = call[e].fd
          <5>1. Opens(call, d) /\ Opens(call, e) /\ cl[d] = call[d] /\ cl[e] = call[e]
            BY <1>4, <2>2, <3>2, Zenon
          <5> QED  BY <2>2, <5>1, Zenon
        <4> QED  BY <4>1, Zenon DEF Openers
      <3>3. CASE d = c \/ e = c
        BY <2>2, <3>1, <3>3, Zenon
      <3> QED  BY <3>2, <3>3, Zenon
    <2>3. \A g \in Fds : fl[g].state \in {"free", "opening"} => fl[g].slot = 0
      <3>1. ASSUME NEW g \in Fds, fl[g].state \in {"free", "opening"}  PROVE fl[g].slot = 0
        <4>1. file[g].state \in {"free", "opening"}
          BY <3>1, Zenon
        <4>2. file[g].slot = 0
          BY <4>1, Zenon DEF Openers
        <4> QED  BY <1>5, <4>2, Zenon
      <3> QED  BY <3>1, Zenon
    <2> QED  BY <2>1, <2>2, <2>3, Zenon DEF Openers
  <1>8. CASE call' = cl /\ file' = fl
    BY <1>6, <1>8, Zenon
  <1>9. CASE Answered(cl, fl, c, "notconn", 0, 0)
    <2>1. cl[c].status = "out" /\ "notconn" \in {"ok", "error", "notconn"}
      BY <1>2, <1>3, Zenon
    <2> QED  BY <1>3, <1>6, <1>7, <1>9, <2>1, AnsweredEarned, Zenon
  <1> QED  BY <1>a, <1>8, <1>9, Zenon DEF protocol_client_xfer

\* No step of the server or of the network touches the descriptors of the client.
LEMMA FilesUntouched ==
    ASSUME ServerNext \/ (\E t \in Transports : Break(t)) \/ UNCHANGED vars
    PROVE  UNCHANGED <<call, file>>
  <1>1. ASSUME NEW t \in Transports, protocol_server_interpret(t)  PROVE UNCHANGED <<call, file>>
    BY <1>1, Zenon DEF protocol_server_interpret
  <1>2. ASSUME NEW t \in Transports, server_pollerr(t)  PROVE UNCHANGED <<call, file>>
    BY <1>2, Zenon DEF server_pollerr
  <1>3. ASSUME NEW t \in Transports, NEW c \in Calls, NEW found, server_stub_resume(t, c, found)
        PROVE  UNCHANGED <<call, file>>
    BY <1>3, Zenon DEF server_stub_resume
  <1>4. ASSUME NEW t \in Transports, NEW c \in Calls, NEW ok, server_cbk(t, c, ok)
        PROVE  UNCHANGED <<call, file>>
    BY <1>4, Zenon DEF server_cbk
  <1>5. ASSUME NEW t \in Transports, Break(t)  PROVE UNCHANGED <<call, file>>
    BY <1>5, Zenon DEF Break
  <1>6. CASE UNCHANGED vars
    BY <1>6, Zenon DEF vars
  <1> QED  BY <1>1, <1>2, <1>3, <1>4, <1>5, <1>6, Zenon DEF ServerNext

\* Every step keeps slots to the descriptors whose open succeeded.
LEMMA EarnedStep ==
    ASSUME Earned(call, file), D, SavedOut, Conns, mix \in Mixes, [Next]_vars
    PROVE  Earned(call', file')
  <1>0. /\ call \in [Calls -> CallRec] /\ file \in [Fds -> FileRec] /\ Openers(call, file)
        /\ Users(call, file) /\ trans \in [Transports -> TransportRec]
    BY Zenon DEF D, Desc, Types
  <1>1. ASSUME call' = call, file' = file  PROVE Earned(call', file')
    BY <1>1, Zenon
  <1>2. ASSUME NEW ch \in Channels, protocol_client_pollin(ch)  PROVE Earned(call', file')
    <2> DEFINE t == conn[ch].trans  m == Head(trans[conn[ch].trans].rep)
    <2>1. \/ call' = call /\ file' = file
          \/ /\ m.kind # "setvolume" /\ m.kind = "reply" /\ m.c \in Calls
             /\ call[m.c].status = "out" /\ Answered(call, file, m.c, m.status, m.slot, m.gen)
      BY <1>2, PollinCases, Zenon
    <2>2. m \in Replies
      <3>1. t \in Transports /\ trans[t].rep # <<>>
        BY <1>2, Zenon DEF Conns, protocol_client_pollin
      <3>2. trans[t].rep \in Seq(Replies)
        BY <1>0, <3>1, Zenon DEF TransportRec
      <3> QED  BY <3>1, <3>2, SMTT(30)
    <2> HIDE DEF m, t
    <2>3. CASE /\ m.kind # "setvolume" /\ m.kind = "reply" /\ m.c \in Calls
               /\ call[m.c].status = "out" /\ Answered(call, file, m.c, m.status, m.slot, m.gen)
      <3>1. m.status \in {"ok", "error", "notconn"}
        BY <2>2, <2>3, Zenon DEF Replies
      <3>2. /\ m.c \in Calls /\ call[m.c].status = "out"
            /\ Answered(call, file, m.c, m.status, m.slot, m.gen)
        BY <2>3, Zenon
      <3> QED  BY <1>0, <3>1, <3>2, AnsweredEarned, Zenon
    <2> QED  BY <1>1, <2>1, <2>3, Zenon
  <1>3. ASSUME NEW ch \in Channels, protocol_client_cleanup(ch)  PROVE Earned(call', file')
    <2>1. /\ call' = [c \in Calls |-> IF c \in saved[ch] THEN [call[c] EXCEPT !.status = "notconn"]
                                                         ELSE call[c]]
          /\ file' = [f \in Fds |->
                         IF \E c \in saved[ch] : call[c].fd = f /\ file[f].state = "opening"
                           THEN [file[f] EXCEPT !.state = "open"] ELSE file[f]]
      BY <1>3, Zenon DEF protocol_client_cleanup, saved_frames_unwind
    <2>2. \A f \in Fds : /\ file'[f].slot = file[f].slot
                         /\ file'[f].state = "released" => file[f].state = "released"
      BY <1>0, <2>1, Zenon DEF FileRec
    <2>3. \A c \in Calls : /\ call'[c].op = call[c].op /\ call'[c].fd = call[c].fd
                           /\ call'[c].status = call[c].status \/ call[c].status = "out"
      <3>1. \A c \in saved[ch] : call[c].status = "out"
        BY Zenon DEF SavedOut
      <3>2. \A c \in Calls : \/ c \in saved[ch] /\ call'[c] = [call[c] EXCEPT !.status = "notconn"]
                            \/ call'[c] = call[c]
        BY <2>1, Zenon
      <3>3. \A c \in Calls : call[c] \in CallRec
        BY <1>0, Zenon
      <3> QED  BY <3>1, <3>2, <3>3, Zenon DEF CallRec
    <2>4. ASSUME NEW c, Opens(call', c), file'[call'[c].fd].slot # 0  PROVE call'[c].status = "ok"
      <3>1. c \in Calls /\ Opens(call, c)
        BY <2>3, <2>4, Zenon DEF Opens
      <3>2. call[c].fd \in Fds
        BY <1>0, <3>1, Zenon DEF Openers
      <3>3. file[call[c].fd].slot # 0
        BY <2>2, <2>3, <2>4, <3>1, <3>2, Zenon
      <3>4. call[c].status = "ok"
        BY <3>1, <3>3, Zenon DEF Earned
      <3> QED  BY <2>3, <3>1, <3>4, Zenon
    <2>5. \A f \in Fds : file'[f].state = "released" => file'[f].slot # 0
      BY <2>2, Zenon DEF Earned
    <2> QED  BY <2>4, <2>5, Zenon DEF Earned
  <1>4. ASSUME NEW c \in Calls, NEW op \in mix.ops, CallPath(c, op)  PROVE Earned(call', file')
    <2>1. call[c].status = "idle" /\ op \in Fops
      BY <1>4, ConstantsAssumption DEF ConstantsAssumption, CallPath, NewCall, NoCall
    <2>2. 0 \in {0} \cup Slots /\ 0 \in Nat /\ NoFd \in Fds \cup {NoFd} /\ Fds \subseteq Fds \cup {NoFd}
      OBVIOUS
    <2>3. CASE "fd" \in gf_fops[op].learns
      <3>1. PICK f \in Fds : /\ file[f].state = "free"
                             /\ protocol_client_xfer(Made(c, op, f, 0, 0),
                                                     [file EXCEPT ![f].state = "opening"], c)
        BY <1>4, <2>3, Zenon DEF CallPath
      <3>2. PICK fl : fl = [file EXCEPT ![f].state = "opening"]
        BY ZenonT(30)
      <3>3. /\ fl \in [Fds -> FileRec] /\ fl[f].state = "opening"
            /\ \A g \in Fds : \/ fl[g] = file[g]
                              \/ /\ file[g].state = "free" /\ fl[g].state = "opening"
                                 /\ fl[g].slot = file[g].slot
        BY <1>0, <3>1, <3>2, Zenon DEF FileRec
      <3>4. protocol_client_xfer(Made(c, op, f, 0, 0), fl, c) /\ f \in Fds \cup {NoFd}
        BY <3>1, <3>2, Zenon
      <3>5. "fd" \in gf_fops[op].learns => f \in Fds /\ file[f].state = "free" /\ fl[f].state = "opening"
        BY <3>1, <3>3, Zenon
      <3> QED  BY <1>0, <2>1, <2>2, <3>3, <3>4, <3>5, XferEarned, Zenon
    <2>4. CASE "fd" \notin gf_fops[op].learns
      <3>1. protocol_client_xfer(Made(c, op, NoFd, 0, 0), file, c)
        BY <1>4, <2>4, Zenon DEF CallPath
      <3> QED  BY <1>0, <2>1, <2>2, <2>4, <3>1, XferEarned, Zenon
    <2> QED  BY <2>3, <2>4, Zenon
  <1>5. ASSUME NEW c \in Calls, NEW op \in mix.ops, NEW f \in Fds, CallFd(c, op, f)
        PROVE  Earned(call', file')
    <2>1. call[c].status = "idle" /\ op \in Fops /\ "fd" \in gf_fops[op].sends
      BY <1>5, ConstantsAssumption DEF ConstantsAssumption, CallFd, NewCall, NoCall
    <2>2. "fd" \notin gf_fops[op].learns
      BY <2>1, EndsAgree, Zenon DEF EndsAgree
    <2> DEFINE made == Made(c, op, f, file[f].slot, file[f].gen)
    <2>3. CASE file[f].slot = 0
      <3>1. call' = [made EXCEPT ![c].status = "badfd"] /\ file' = file
        BY <1>5, <2>3, Zenon DEF CallFd
      <3>2. call'[c].op = op /\ \A d \in Calls : d # c => call'[d] = call[d]
        BY <1>0, <3>1, Zenon DEF Made
      <3>3. \A d : Opens(call', d) => Opens(call, d) /\ call'[d] = call[d]
        BY <2>2, <3>2, Zenon DEF Opens
      <3> QED  BY <3>1, <3>3, Zenon DEF Earned
    <2>4. CASE file[f].slot # 0
      <3>1. protocol_client_xfer(Made(c, op, f, file[f].slot, file[f].gen), file, c)
        BY <1>5, <2>4, Zenon DEF CallFd
      <3>2. file[f].slot \in {0} \cup Slots /\ file[f].gen \in Nat /\ f \in Fds \cup {NoFd}
        BY <1>0, Zenon DEF FileRec
      <3> QED  BY <1>0, <2>1, <2>2, <3>1, <3>2, XferEarned, Zenon
    <2> QED  BY <2>3, <2>4, Zenon
  <1>6. ASSUME NEW f \in Fds, client_release(f)  PROVE Earned(call', file')
    <2>1. /\ call' = call
          /\ \E st \in {"released", "dropped"} :
                /\ file' = [file EXCEPT ![f].state = st]
                /\ st = "released" => file[f].slot # 0
      BY <1>6, Zenon DEF client_release
    <2>2. /\ \A g \in Fds : file'[g].slot = file[g].slot
          /\ \A g \in Fds : file'[g].state = "released" => file[g].state = "released" \/ file[g].slot # 0
      BY <1>0, <2>1, SMTT(30) DEF FileRec
    <2>3. ASSUME NEW c, Opens(call', c), file'[call'[c].fd].slot # 0  PROVE call'[c].status = "ok"
      <3>1. Opens(call, c)
        BY <2>1, <2>3, Zenon
      <3>2. call[c].fd \in Fds
        BY <1>0, <3>1, Zenon DEF Openers
      <3> QED  BY <2>1, <2>2, <2>3, <3>1, <3>2, Zenon DEF Earned
    <2>4. \A g \in Fds : file'[g].state = "released" => file'[g].slot # 0
      BY <2>2, Zenon DEF Earned
    <2> QED  BY <2>3, <2>4, Zenon DEF Earned
  <1>7. ASSUME NEW ch \in Channels, client_protocol_reconnect(ch) \/ Bail(ch)  PROVE Earned(call', file')
    <2>1. call' = call /\ file' = file
      BY <1>7, Zenon DEF client_protocol_reconnect, Bail
    <2> QED  BY <1>1, <2>1, Zenon
  <1>8. CASE ClientNext
    BY <1>2, <1>3, <1>4, <1>5, <1>6, <1>7, <1>8, Zenon DEF ClientNext
  <1>9. CASE ServerNext \/ (\E t \in Transports : Break(t)) \/ UNCHANGED vars
    <2>1. call' = call /\ file' = file
      BY <1>9, FilesUntouched, Zenon
    <2> QED  BY <1>1, <2>1, Zenon
  <1> QED  BY <1>8, <1>9, Zenon DEF Next

\* A change of the transports that cuts nobody off: both ends of every transport stay
\* as they are, and a transport in use stays with its connection object.
Calm(tr, tr2) ==
    \A u \in Transports : /\ tr2[u].client = tr[u].client /\ tr2[u].live = tr[u].live
                          /\ tr[u].live => tr2[u].gen = tr[u].gen

SameReq(tr, tr2) == \A u \in Transports : tr2[u].req = tr[u].req

\* The release of slot s is on its way to the server.
OnWay(tr, s) ==
    \E t \in Transports : \E i \in 1 .. Len(tr[t].req) : tr[t].req[i] = [kind |-> "release", slot |-> s]

\* A release stays on its way as long as the queues of requests are not touched.
LEMMA SameReqOnWay ==
    ASSUME NEW tr, NEW tr2, SameReq(tr, tr2), NEW s, OnWay(tr, s)
    PROVE  OnWay(tr2, s)
  BY Zenon DEF SameReq, OnWay

\* Queues and sets of calls may change without cutting anybody off.
LEMMA CalmFields ==
    ASSUME NEW tr \in [Transports -> TransportRec], NEW t \in Transports
    PROVE  /\ \A q : Calm(tr, [tr EXCEPT ![t].req = q])
           /\ \A q : Calm(tr, [tr EXCEPT ![t].rep = q]) /\ SameReq(tr, [tr EXCEPT ![t].rep = q])
           /\ \A q : Calm(tr, [tr EXCEPT ![t].walking = q]) /\ SameReq(tr, [tr EXCEPT ![t].walking = q])
           /\ \A q : Calm(tr, [tr EXCEPT ![t].running = q]) /\ SameReq(tr, [tr EXCEPT ![t].running = q])
  <1>1. \A q : Calm(tr, [tr EXCEPT ![t].req = q])
    BY Zenon DEF Calm, TransportRec
  <1>2. \A q : Calm(tr, [tr EXCEPT ![t].rep = q])
    BY Zenon DEF Calm, TransportRec
  <1>3. \A q : Calm(tr, [tr EXCEPT ![t].walking = q])
    BY Zenon DEF Calm, TransportRec
  <1>4. \A q : Calm(tr, [tr EXCEPT ![t].running = q])
    BY Zenon DEF Calm, TransportRec
  <1>5. \A q : SameReq(tr, [tr EXCEPT ![t].rep = q])
    BY Zenon DEF SameReq, TransportRec
  <1>6. \A q : SameReq(tr, [tr EXCEPT ![t].walking = q])
    BY Zenon DEF SameReq, TransportRec
  <1>7. \A q : SameReq(tr, [tr EXCEPT ![t].running = q])
    BY Zenon DEF SameReq, TransportRec
  <1> QED  BY <1>1, <1>2, <1>3, <1>4, <1>5, <1>6, <1>7, Zenon

\* Nor does a message that is sent (socket_submit).
LEMMA CalmSubmit ==
    ASSUME NEW tr \in [Transports -> TransportRec], NEW t \in Transports,
           NEW end \in {"client", "server"}, NEW m
    PROVE  /\ Calm(tr, socket_submit(tr, t, end, m))
           /\ end = "server" => SameReq(tr, socket_submit(tr, t, end, m))
           /\ \A s : OnWay(tr, s) => OnWay(socket_submit(tr, t, end, m), s)
           /\ \A s : ( /\ end = "client" /\ tr[t].client = "open" /\ tr[t].live
                       /\ m = [kind |-> "release", slot |-> s] )
                     => OnWay(socket_submit(tr, t, end, m), s)
  <1> DEFINE x == socket_submit(tr, t, end, m)
             a == [tr EXCEPT ![t].req = Append(tr[t].req, m)]
             b == [tr EXCEPT ![t].rep = Append(tr[t].rep, m)]
  <1>0. Calm(tr, tr) /\ SameReq(tr, tr)
    BY Zenon DEF Calm, SameReq
  <1>1. Calm(tr, a) /\ Calm(tr, b) /\ SameReq(tr, b)
    BY CalmFields, Zenon
  <1>2. \/ x = tr /\ ~(tr[t].client = "open" /\ tr[t].live)
        \/ x = a /\ end = "client"
        \/ x = b /\ end = "server"
    BY Zenon DEF socket_submit
  <1>3. tr[t].req \in Seq(Requests)
    BY Zenon DEF TransportRec
  <1>4. /\ \A u \in Transports : u # t => a[u].req = tr[u].req
        /\ a[t].req = Append(tr[t].req, m)
    BY Zenon DEF TransportRec
  <1> HIDE DEF x, a, b
  <1>5. ASSUME NEW s, OnWay(tr, s)  PROVE OnWay(a, s)
    <2>a. PICK u \in Transports :
             \E i \in 1 .. Len(tr[u].req) : tr[u].req[i] = [kind |-> "release", slot |-> s]
      BY <1>5, Zenon DEF OnWay
    <2>1. PICK i \in 1 .. Len(tr[u].req) : tr[u].req[i] = [kind |-> "release", slot |-> s]
      BY <2>a, Zenon
    <2>2. CASE u # t
      BY <1>4, <2>1, <2>2, Zenon DEF OnWay
    <2>3. CASE u = t
      <3>1. i \in 1 .. Len(Append(tr[t].req, m)) /\ Append(tr[t].req, m)[i] = tr[t].req[i]
        BY <1>3, <2>1, <2>3, SMTT(30)
      <3> QED  BY <1>4, <2>1, <2>3, <3>1, Zenon DEF OnWay
    <2> QED  BY <2>2, <2>3, Zenon
  <1>6. ASSUME NEW s, m = [kind |-> "release", slot |-> s]  PROVE OnWay(a, s)
    <2> DEFINE n == Len(tr[t].req) + 1
    <2>1. n \in 1 .. Len(Append(tr[t].req, m)) /\ Append(tr[t].req, m)[n] = m
      BY <1>3
    <2> QED  BY <1>4, <1>6, <2>1, Zenon DEF OnWay
  <1>7. \A s : OnWay(tr, s) => OnWay(b, s)
    BY <1>1, SameReqOnWay, Zenon
  <1>8. Calm(tr, x)
    BY <1>0, <1>1, <1>2, Zenon
  <1>9. end = "server" => SameReq(tr, x)
    <2>1. "server" # "client"
      OBVIOUS
    <2> QED  BY <1>0, <1>1, <1>2, <2>1, Zenon
  <1>10. \A s : OnWay(tr, s) => OnWay(x, s)
    BY <1>2, <1>5, <1>7, Zenon
  <1>11. ASSUME NEW s, end = "client", tr[t].client = "open", tr[t].live,
                m = [kind |-> "release", slot |-> s]
         PROVE  OnWay(x, s)
    <2>1. "server" # "client"
      OBVIOUS
    <2>2. x = a
      BY <1>2, <1>11, <2>1, Zenon
    <2> QED  BY <1>6, <1>11, <2>2, Zenon
  <1> QED  BY <1>8, <1>9, <1>10, <1>11, Zenon DEF x

\* Nor does an answer of the server (protocol_server_reply).
LEMMA CalmReply ==
    ASSUME NEW tr \in [Transports -> TransportRec], NEW t \in Transports, NEW m \in Replies
    PROVE  Calm(tr, protocol_server_reply(tr, t, m)) /\ SameReq(tr, protocol_server_reply(tr, t, m))
  <1> DEFINE x == socket_submit(tr, t, "server", m)  y == [x EXCEPT ![t].gen = 0]
  <1>1. Calm(tr, x) /\ SameReq(tr, x)
    <2>1. "server" \in {"client", "server"}
      OBVIOUS
    <2> QED  BY <2>1, CalmSubmit, Zenon
  <1>2. x \in [Transports -> TransportRec]
    <2>1. "server" \in {"client", "server"} /\ "rep" = (IF "server" = "client" THEN "req" ELSE "rep")
      OBVIOUS
    <2>2. /\ "rep" = "req" => m \in Requests
          /\ "rep" = "rep" => m \in Replies
      OBVIOUS
    <2> QED  BY <2>1, <2>2, SubmitPosts, Zenon
  <1> HIDE DEF x
  <1>3. \/ protocol_server_reply(tr, t, m) = x
        \/ protocol_server_reply(tr, t, m) = y /\ ~x[t].live
    BY Zenon DEF protocol_server_reply, transport_unref, Unreferenced, x
  <1>4. ASSUME ~x[t].live  PROVE Calm(tr, y) /\ SameReq(tr, y)
    <2>1. \A u \in Transports : /\ y[u].client = x[u].client /\ y[u].live = x[u].live
                                /\ y[u].req = x[u].req /\ (u # t => y[u].gen = x[u].gen)
      BY <1>2, Zenon DEF TransportRec
    <2> HIDE DEF y
    <2>2. SameReq(tr, y)
      BY <1>1, <2>1, Zenon DEF SameReq
    <2>3. Calm(tr, y)
      BY <1>1, <1>4, <2>1, Zenon DEF Calm
    <2> QED  BY <2>2, <2>3, Zenon
  <1> QED  BY <1>1, <1>3, <1>4, Zenon

\* One after the other.
LEMMA CalmTwice ==
    ASSUME NEW tr, NEW tr2, NEW tr3, Calm(tr, tr2), Calm(tr2, tr3)
    PROVE  /\ Calm(tr, tr3)
           /\ SameReq(tr, tr2) /\ SameReq(tr2, tr3) => SameReq(tr, tr3)
  <1>1. Calm(tr, tr3)
    BY Zenon DEF Calm
  <1>2. SameReq(tr, tr2) /\ SameReq(tr2, tr3) => SameReq(tr, tr3)
    BY Zenon DEF SameReq
  <1> QED  BY <1>1, <1>2, Zenon

\* The server reads a request: only the release it reads is no longer on its way.
LEMMA TailOnWay ==
    ASSUME NEW tr \in [Transports -> TransportRec], NEW t \in Transports, tr[t].req # <<>>,
           NEW s, OnWay(tr, s), Head(tr[t].req) # [kind |-> "release", slot |-> s]
    PROVE  OnWay([tr EXCEPT ![t].req = Tail(@)], s)
  <1> DEFINE x == [tr EXCEPT ![t].req = Tail(@)]
  <1>a. PICK u \in Transports :
           \E i \in 1 .. Len(tr[u].req) : tr[u].req[i] = [kind |-> "release", slot |-> s]
    BY Zenon DEF OnWay
  <1>1. PICK i \in 1 .. Len(tr[u].req) : tr[u].req[i] = [kind |-> "release", slot |-> s]
    BY <1>a, Zenon
  <1>2. tr[t].req \in Seq(Requests)
    BY Zenon DEF TransportRec
  <1>3. (\A v \in Transports : v # t => x[v].req = tr[v].req) /\ x[t].req = Tail(tr[t].req)
    BY Zenon DEF TransportRec
  <1> HIDE DEF x
  <1>4. CASE u # t
    BY <1>1, <1>3, <1>4, Zenon DEF OnWay
  <1>5. CASE u = t
    <2>1. i # 1
      BY <1>1, <1>2, <1>5
    <2>2. i - 1 \in 1 .. Len(Tail(tr[t].req)) /\ Tail(tr[t].req)[i - 1] = tr[t].req[i]
      BY <1>1, <1>2, <1>5, <2>1
    <2> QED  BY <1>1, <1>3, <1>5, <2>2, SMTT(30) DEF OnWay
  <1> QED  BY <1>4, <1>5, Zenon

\* As long as no transport is lost, every transport made is up at both ends,
Lines == \A t \in Transports : trans[t].client \in {"open", "gone"} /\ trans[t].live = (trans[t].client = "open")

\* every channel has one,
Usable == \A ch \in Channels : conn[ch].trans # 0 /\ trans[conn[ch].trans].client = "open"

\* the server keeps its connection object, since a transport that is up refers to it,
Held(tr, sv) ==
    \/ sv.gen = 0 /\ sv.last = 0
    \/ sv.gen = 1 /\ sv.last = 1 /\ \E t \in Transports : tr[t].live /\ tr[t].gen = 1

\* and a slot whose descriptor was released is about to be emptied.
Told ==
    \A s \in Slots : server.fds[s] # NoFd /\ file[server.fds[s]].state = "released" => OnWay(trans, s)

Sound == Lines /\ Usable /\ Held(trans, server) /\ Told

Unbroken == cuts \in Nat /\ (cuts = 0 => Sound)

\* Then server_connection_put destroys nothing.
LEMMA HeldPut ==
    ASSUME NEW tr, NEW sv, Held(tr, sv)
    PROVE  server_connection_put(tr, sv) = sv
  <1>1. CASE sv.gen = 0
    BY <1>1, Zenon DEF server_connection_put
  <1>2. CASE sv.gen # 0
    <2>1. \E t \in Transports : tr[t].gen = sv.gen
      BY <1>2, Zenon DEF Held
    <2> QED  BY <2>1, Zenon DEF server_connection_put
  <1> QED  BY <1>1, <1>2, Zenon

\* A transport that is up stays with the connection object.
LEMMA HeldCalm ==
    ASSUME NEW tr, NEW tr2, NEW sv, NEW sv2, Held(tr, sv), Calm(tr, tr2),
           sv2.gen = sv.gen, sv2.last = sv.last
    PROVE  Held(tr2, sv2)
  BY Zenon DEF Held, Calm

\* A step that cuts nobody off keeps all of this, if it keeps the last part.
LEMMA CalmStep ==
    ASSUME Sound, Calm(trans, trans'), \A ch \in Channels : conn'[ch].trans = conn[ch].trans,
           Conns, server'.gen = server.gen, server'.last = server.last, Told'
    PROVE  Sound'
  <1>1. Lines'
    BY Zenon DEF Sound, Lines, Calm
  <1>2. Usable'
    <2>1. \A ch \in Channels : conn[ch].trans \in Transports
      BY Zenon DEF Sound, Usable, Conns
    <2> QED  BY <2>1, Zenon DEF Sound, Usable, Calm
  <1>3. Held(trans, server)
    BY Zenon DEF Sound
  <1>4. Held(trans', server')
    BY <1>3, HeldCalm, Zenon
  <1> QED  BY <1>1, <1>2, <1>4, Zenon DEF Sound

\* What was released is known to the server or on its way, when the table, the
\* descriptors released and the releases on their way stay.
LEMMA ToldStep ==
    ASSUME Told, D, server'.fds = server.fds, \A s : OnWay(trans, s) => OnWay(trans', s),
           \A f \in Fds : file'[f].state = "released" => file[f].state = "released"
    PROVE  Told'
  <1>0. server.fds \in Tables
    <2>1. server \in ServerRec
      BY Zenon DEF D, Desc, Types, ServerRec
    <2> QED  BY <2>1, Zenon DEF ServerRec
  <1>1. ASSUME NEW s \in Slots, server.fds[s] # NoFd, file'[server.fds[s]].state = "released"
        PROVE  OnWay(trans', s)
    <2>1. server.fds[s] \in Fds
      BY <1>0, <1>1, Zenon DEF Tables
    <2>2. file[server.fds[s]].state = "released"
      BY <1>1, <2>1, Zenon
    <2> QED  BY <1>1, <2>2, Zenon DEF Told
  <1> QED  BY <1>1, Zenon DEF Told

\* An answer releases no descriptor.
LEMMA AnsweredFiles ==
    ASSUME NEW cl, NEW fl, fl \in [Fds -> FileRec], NEW c, NEW st, NEW slot, NEW gen,
           Answered(cl, fl, c, st, slot, gen), NEW f \in Fds, file'[f].state = "released"
    PROVE  fl[f].state = "released"
  <1> DEFINE r == [state |-> "open", slot |-> IF st = "ok" THEN slot ELSE 0,
                   gen |-> IF st = "ok" THEN gen ELSE 0]
  <1>1. file' = fl \/ file' = [fl EXCEPT ![cl[c].fd] = r]
    BY Zenon DEF Answered
  <1>2. r.state = "open"
    OBVIOUS
  <1> HIDE DEF r
  <1> QED  BY <1>1, <1>2, Zenon

\* A reply cuts nobody off and releases nothing (protocol_client_pollin).
LEMMA SoundPollin ==
    ASSUME Sound, D, Conns, SavedOut, NEW ch \in Channels, protocol_client_pollin(ch)
    PROVE  Sound'
  <1> DEFINE t == conn[ch].trans
  <1>0. trans \in [Transports -> TransportRec] /\ file \in [Fds -> FileRec]
    BY Zenon DEF D, Desc, Types
  <1>1. /\ t \in Transports /\ server' = server
        /\ trans' = [trans EXCEPT ![t].rep = Tail(trans[t].rep)]
        /\ \A e \in Channels : conn'[e].trans = conn[e].trans
    <2>1. /\ t \in Transports /\ server' = server
          /\ trans' = [trans EXCEPT ![t].rep = Tail(trans[t].rep)]
      BY Zenon DEF Conns, protocol_client_pollin
    <2>2. conn' = conn \/ conn' = [conn EXCEPT ![ch].connected = TRUE]
      BY Zenon DEF protocol_client_pollin
    <2>3. \A e \in Channels : conn'[e].trans = conn[e].trans
      BY <2>2 DEF Conns
    <2> QED  BY <2>1, <2>3, ZenonT(30)
  <1> HIDE DEF t
  <1>2. Calm(trans, trans') /\ SameReq(trans, trans')
    <2>1. LET x == [trans EXCEPT ![t].rep = Tail(trans[t].rep)] IN Calm(trans, x) /\ SameReq(trans, x)
      BY <1>0, <1>1, CalmFields, Zenon
    <2> QED  BY <1>1, <2>1, Zenon
  <1>3. \A f \in Fds : file'[f].state = "released" => file[f].state = "released"
    <2> DEFINE m == Head(trans[conn[ch].trans].rep)
    <2>1. \/ file' = file
          \/ Answered(call, file, m.c, m.status, m.slot, m.gen)
      BY PollinCases, Zenon
    <2> HIDE DEF m
    <2> QED  BY <1>0, <2>1, AnsweredFiles, Zenon
  <1>4. Told'
    <2>1. Told /\ server'.fds = server.fds
      BY <1>1, Zenon DEF Sound
    <2>2. \A s : OnWay(trans, s) => OnWay(trans', s)
      BY <1>2, SameReqOnWay, Zenon
    <2> QED  BY <1>3, <2>1, <2>2, ToldStep, Zenon
  <1>5. server'.gen = server.gen /\ server'.last = server.last
    BY <1>1, Zenon
  <1> QED  BY <1>1, <1>2, <1>4, <1>5, CalmStep, Zenon

\* Nor does a call that goes out, or is refused on the spot (protocol_client_xfer).
LEMMA SoundXfer ==
    ASSUME Sound, D, Conns, NEW cl, NEW fl, fl \in [Fds -> FileRec], NEW c \in Calls,
           cl[c].op \in Fops, protocol_client_xfer(cl, fl, c), conn' = conn, server' = server,
           \A f \in Fds : fl[f].state = "released" => file[f].state = "released"
    PROVE  Sound'
  <1> DEFINE ch == gf_fops[cl[c].op].channel  t == conn[ch].trans
             m == [kind |-> "fop", c |-> c, slot |-> cl[c].slot]
  <1>0. trans \in [Transports -> TransportRec]
    BY Zenon DEF D, Desc, Types
  <1>1. /\ Calm(trans, trans') /\ \A s : OnWay(trans, s) => OnWay(trans', s)
        /\ file' = fl \/ Answered(cl, fl, c, "notconn", 0, 0)
    <2>1. CASE conn[ch].connected /\ CanSubmit(t)
      <3>1. trans' = socket_submit(trans, t, "client", m) /\ file' = fl
        BY <2>1, Zenon DEF protocol_client_xfer
      <3>2. t \in Transports
        <4>1. ch \in Channels
          BY EndsAgree, Zenon DEF EndsAgree, Channels
        <4>2. t # 0
          BY <2>1, Zenon DEF CanSubmit
        <4> QED  BY <4>1, <4>2, Zenon DEF Conns
      <3>3. "client" \in {"client", "server"}
        OBVIOUS
      <3> HIDE DEF m, t, ch
      <3>4. LET x == socket_submit(trans, t, "client", m)
            IN  Calm(trans, x) /\ \A s : OnWay(trans, s) => OnWay(x, s)
        BY <1>0, <3>2, <3>3, CalmSubmit, Zenon
      <3> QED  BY <3>1, <3>4, Zenon
    <2>2. CASE ~(conn[ch].connected /\ CanSubmit(t))
      <3>1. trans' = trans /\ Answered(cl, fl, c, "notconn", 0, 0)
        BY <2>2, Zenon DEF protocol_client_xfer
      <3> QED  BY <3>1, Zenon DEF Calm
    <2> QED  BY <2>1, <2>2, Zenon
  <1>2. \A f \in Fds : file'[f].state = "released" => file[f].state = "released"
    BY <1>1, AnsweredFiles, Zenon
  <1>3. Told /\ server'.fds = server.fds
    BY Zenon DEF Sound
  <1>4. Told'
    BY <1>1, <1>2, <1>3, ToldStep, Zenon
  <1> QED  BY <1>1, <1>4, CalmStep, Zenon

\* So calls keep it,
LEMMA SoundCalls ==
    ASSUME Sound, D, Conns, mix \in Mixes, NEW c \in Calls, NEW op \in mix.ops,
           CallPath(c, op) \/ \E f \in Fds : CallFd(c, op, f)
    PROVE  Sound'
  <1>0. file \in [Fds -> FileRec] /\ op \in Fops /\ call \in [Calls -> CallRec]
    <2>1. file \in [Fds -> FileRec] /\ call \in [Calls -> CallRec]
      BY Zenon DEF D, Desc, Types
    <2> QED  BY <2>1, ConstantsAssumption, Zenon DEF ConstantsAssumption
  <1>1. \A f, slot, gen : Made(c, op, f, slot, gen)[c].op = op
    BY <1>0, Zenon DEF Made
  <1>2. CASE CallPath(c, op)
    <2>1. conn' = conn /\ server' = server
      BY <1>2, Zenon DEF CallPath
    <2>2. PICK f, fl : /\ protocol_client_xfer(Made(c, op, f, 0, 0), fl, c)
                       /\ fl = file \/ (f \in Fds /\ fl = [file EXCEPT ![f].state = "opening"])
      BY <1>2, Zenon DEF CallPath
    <2>3. /\ fl \in [Fds -> FileRec]
          /\ \A g \in Fds : fl[g].state = "released" => file[g].state = "released"
      BY <1>0, <2>2, Zenon DEF FileRec
    <2>4. Made(c, op, f, 0, 0)[c].op \in Fops
      BY <1>0, <1>1, Zenon
    <2> QED  BY <2>1, <2>2, <2>3, <2>4, SoundXfer, Zenon
  <1>3. ASSUME NEW f \in Fds, CallFd(c, op, f)  PROVE Sound'
    <2>1. conn' = conn /\ server' = server
      BY <1>3, Zenon DEF CallFd
    <2>2. CASE file[f].slot = 0
      <3>1. trans' = trans /\ file' = file
        BY <1>3, <2>2, Zenon DEF CallFd
      <3>2. Told /\ Calm(trans, trans')
        BY <3>1, Zenon DEF Sound, Calm
      <3>3. Told'
        BY <2>1, <3>1, <3>2, Zenon DEF Told
      <3> QED  BY <2>1, <3>2, <3>3, CalmStep, ZenonT(30)
    <2>3. CASE file[f].slot # 0
      <3>1. protocol_client_xfer(Made(c, op, f, file[f].slot, file[f].gen), file, c)
        BY <1>3, <2>3, Zenon DEF CallFd
      <3>2. Made(c, op, f, file[f].slot, file[f].gen)[c].op \in Fops
        BY <1>0, <1>1, Zenon
      <3> QED  BY <1>0, <2>1, <3>1, <3>2, SoundXfer, Zenon
    <2> QED  BY <2>2, <2>3, Zenon
  <1> QED  BY <1>2, <1>3, Zenon

\* and so does a release: a channel is there to send it on (client_release).
LEMMA SoundRelease ==
    ASSUME Sound, D, Conns, NEW f \in Fds, client_release(f)
    PROVE  Sound'
  <1> DEFINE t == conn["bulk"].trans
             told == file[f].slot # 0 /\ conn["bulk"].connected /\ CanSubmit(t)
             m == [kind |-> "release", slot |-> file[f].slot]
             x == socket_submit(trans, t, "client", m)
  <1>0. /\ trans \in [Transports -> TransportRec] /\ file \in [Fds -> FileRec]
        /\ Table(trans, call, file, server.fds) /\ server \in ServerRec
    BY Zenon DEF D, Desc, Types, ServerRec
  <1>1. /\ file[f].state = "open" /\ conn' = conn /\ server' = server
        /\ trans' = IF told THEN x ELSE trans
        /\ file' = [file EXCEPT ![f].state = IF told THEN "released" ELSE "dropped"]
    BY Zenon DEF client_release
  <1>2. t \in Transports /\ trans[t].client = "open" /\ trans[t].live
    BY Zenon DEF Sound, Usable, Lines, Conns, Channels
  <1>3. /\ Calm(trans, x) /\ \A s : OnWay(trans, s) => OnWay(x, s)
        /\ OnWay(x, file[f].slot)
    <2>1. "client" \in {"client", "server"} /\ m = [kind |-> "release", slot |-> file[f].slot]
      OBVIOUS
    <2> HIDE DEF t, m
    <2> QED  BY <1>0, <1>2, <2>1, CalmSubmit, Zenon
  <1> HIDE DEF x
  <1>4. Calm(trans, trans) /\ Calm(trans, trans')
    <2>1. Calm(trans, trans)
      BY Zenon DEF Calm
    <2> QED  BY <1>1, <1>3, <2>1, Zenon
  <1>5. /\ \A g \in Fds : g # f => file'[g] = file[g]
        /\ file'[f].state = "released" => told
    BY <1>0, <1>1, Zenon DEF FileRec
  <1>6. \A s : OnWay(trans, s) => OnWay(trans', s)
    BY <1>1, <1>3, Zenon
  <1>7. ASSUME NEW s \in Slots, server.fds[s] # NoFd, file'[server.fds[s]].state = "released"
        PROVE  OnWay(trans', s)
    <2>1. server.fds[s] \in Fds
      BY <1>0, <1>7, Zenon DEF ServerRec, Tables
    <2>2. CASE server.fds[s] # f
      <3>1. file[server.fds[s]].state = "released"
        BY <1>5, <1>7, <2>1, <2>2, Zenon
      <3> QED  BY <1>6, <1>7, <3>1, Zenon DEF Sound, Told
    <2>3. CASE server.fds[s] = f
      <3>1. told
        BY <1>5, <1>7, <2>3, Zenon
      <3>2. FilesTrue(file, server.fds)
        <4>1. Whole(server)
          BY Zenon DEF Sound, Held, Whole
        <4> QED  BY <4>1, Zenon DEF D, Desc, SlotsTrue
      <3>3. file[f].slot \in Slots /\ server.fds[file[f].slot] = f
        <4>1. file[f].slot # 0 /\ file[f].slot \in {0} \cup Slots
          BY <1>0, <3>1, Zenon DEF FileRec
        <4> QED  BY <1>1, <3>2, <4>1, Zenon DEF FilesTrue
      <3>4. s = file[f].slot
        BY <1>0, <1>7, <2>3, <3>3, Zenon DEF Table
      <3>5. trans' = x
        BY <1>1, <3>1, Zenon
      <3> QED  BY <1>3, <3>4, <3>5, Zenon
    <2> QED  BY <2>2, <2>3, Zenon
  <1>8. Told'
    BY <1>1, <1>7, Zenon DEF Told
  <1> QED  BY <1>1, <1>4, <1>8, CalmStep, Zenon

\* The server takes in a transport (mop_setvolume): the connection object it joins is
\* the first one.
LEMMA SoundSetvolume ==
    ASSUME Sound, D, Conns, NEW t \in Transports, trans[t].live, trans[t].req # <<>>,
           Head(trans[t].req).kind = "setvolume", mop_setvolume(t), conn' = conn, file' = file
    PROVE  Sound'
  <1> DEFINE g == IF server.gen = 0 THEN server.last + 1 ELSE server.gen
             x == [trans EXCEPT ![t].req = Tail(@)]
             y == [x EXCEPT ![t].gen = g]
             m == [kind |-> "setvolume"]
  <1>0. trans \in [Transports -> TransportRec] /\ server \in ServerRec
    BY Zenon DEF D, Desc, Types, ServerRec
  <1>1. /\ server' = [server EXCEPT !.gen = g, !.last = IF g > @ THEN g ELSE @]
        /\ trans' = socket_submit(y, t, "server", m)
    BY Zenon DEF mop_setvolume
  <1>2. g = 1 /\ (IF g > server.last THEN g ELSE server.last) = 1
    BY DEF Sound, Held
  <1>3. server'.gen = 1 /\ server'.last = 1 /\ server'.fds = server.fds
    BY <1>0, <1>1, <1>2, Zenon DEF ServerRec
  <1>4. x \in [Transports -> TransportRec] /\ Calm(trans, x)
    <2>1. trans[t].req \in Seq(Requests)
      BY <1>0, Zenon DEF TransportRec
    <2>2. Tail(trans[t].req) \in Seq(Requests)
      BY <2>1
    <2> QED  BY <1>0, <2>2, RecordTyped, CalmFields, Zenon
  <1>a. Head(trans[t].req) # [kind |-> "release", slot |-> 0]
    OBVIOUS
  <1>5. \A s : OnWay(trans, s) => OnWay(x, s)
    <2> SUFFICES ASSUME NEW s, OnWay(trans, s)  PROVE OnWay(x, s)
      BY Zenon
    <2>1. Head(trans[t].req) # [kind |-> "release", slot |-> s]
      OBVIOUS
    <2> QED  BY <1>0, <2>1, TailOnWay, Zenon
  <1> HIDE DEF x, g
  <1>6. /\ y \in [Transports -> TransportRec] /\ SameReq(x, y) /\ y[t].gen = g
        /\ \A u \in Transports : y[u].client = x[u].client /\ y[u].live = x[u].live
    <2>1. g \in Nat
      BY <1>2, Zenon
    <2>2. y \in [Transports -> TransportRec]
      BY <1>4, <2>1, RecordTyped, Zenon
    <2>3. \A u \in Transports : DOMAIN x[u] = DOMAIN y[u] /\ "gen" \in DOMAIN x[t]
      BY <1>4, <2>2, Zenon DEF TransportRec
    <2>4. ASSUME NEW u \in Transports
          PROVE  y[u].req = x[u].req /\ y[u].client = x[u].client /\ y[u].live = x[u].live
      <3>1. CASE u = t
        BY <1>4, <2>3, <3>1 DEF TransportRec
      <3>2. CASE u # t
        BY <1>4, <3>2, Zenon
      <3> QED  BY <3>1, <3>2, Zenon
    <2>5. y[t].gen = g
      BY <1>4, <2>3, Zenon
    <2> QED  BY <2>2, <2>4, <2>5, Zenon DEF SameReq
  <1> HIDE DEF y, m
  <1>7. /\ Calm(y, trans') /\ \A s : OnWay(y, s) => OnWay(trans', s)
    <2>1. "server" \in {"client", "server"}
      OBVIOUS
    <2>2. LET z == socket_submit(y, t, "server", m)
          IN  Calm(y, z) /\ \A s : OnWay(y, s) => OnWay(z, s)
      BY <1>6, <2>1, CalmSubmit, Zenon
    <2> QED  BY <1>1, <2>2, Zenon
  <1>8. \A s : OnWay(trans, s) => OnWay(trans', s)
    BY <1>5, <1>6, <1>7, SameReqOnWay, Zenon
  <1>9. Told'
    <2>1. Told
      BY Zenon DEF Sound
    <2> QED  BY <1>3, <1>8, <2>1, ToldStep, Zenon
  <1>10. \A u \in Transports : trans'[u].client = trans[u].client /\ trans'[u].live = trans[u].live
    BY <1>4, <1>6, <1>7, Zenon DEF Calm
  <1>11. Lines'
    BY <1>10, Zenon DEF Sound, Lines
  <1>12. Usable'
    <2>1. \A ch \in Channels : conn[ch].trans \in Transports
      BY Zenon DEF Sound, Usable, Conns
    <2> QED  BY <1>10, <2>1, Zenon DEF Sound, Usable
  <1>13. Held(trans', server')
    <2>1. trans'[t].live
      BY <1>10, Zenon
    <2>2. trans'[t].gen = 1
      BY <1>2, <1>4, <1>6, <1>7, Zenon DEF Calm
    <2> QED  BY <1>3, <2>1, <2>2, Zenon DEF Held
  <1> QED  BY <1>9, <1>11, <1>12, <1>13, Zenon DEF Sound

\* The server empties a slot (server_release).
LEMMA SoundServerRelease ==
    ASSUME Sound, D, Conns, NEW t \in Transports, trans[t].req # <<>>,
           Head(trans[t].req).kind = "release", server_release(t, Head(trans[t].req).slot),
           conn' = conn, file' = file
    PROVE  Sound'
  <1> DEFINE m == Head(trans[t].req)  x == [trans EXCEPT ![t].req = Tail(@)]
  <1>0. trans \in [Transports -> TransportRec] /\ server \in ServerRec
    BY Zenon DEF D, Desc, Types, ServerRec
  <1>1. server' = [server EXCEPT !.fds[m.slot] = NoFd] /\ trans' = x
    BY Zenon DEF server_release
  <1>2. m.slot \in Slots
    <2>1. trans[t].req \in Seq(Requests)
      BY <1>0, Zenon DEF TransportRec
    <2>2. m \in Requests
      BY <2>1
    <2> QED  BY <2>2, Zenon DEF Requests
  <1>3. /\ server'.gen = server.gen /\ server'.last = server.last /\ server'.fds[m.slot] = NoFd
        /\ \A s \in Slots : s # m.slot => server'.fds[s] = server.fds[s]
    <2>1. server.fds \in [Slots -> Fds \cup {NoFd}]
      BY <1>0, Zenon DEF ServerRec, Tables
    <2> HIDE DEF m
    <2> QED  BY <1>0, <1>1, <1>2, <2>1, Zenon DEF ServerRec
  <1>4. Calm(trans, x)
    BY <1>0, CalmFields, Zenon
  <1>5. ASSUME NEW s \in Slots, server'.fds[s] # NoFd, file'[server'.fds[s]].state = "released"
        PROVE  OnWay(x, s)
    <2>1. s # m.slot
      BY <1>3, <1>5, Zenon
    <2>2. OnWay(trans, s)
      <3>1. server'.fds[s] = server.fds[s]
        BY <1>3, <2>1, Zenon
      <3> QED  BY <1>5, <3>1, Zenon DEF Sound, Told
    <2>3. Head(trans[t].req) # [kind |-> "release", slot |-> s]
      BY <2>1
    <2> QED  BY <1>0, <2>2, <2>3, TailOnWay, Zenon
  <1> HIDE DEF x
  <1>6. Told'
    BY <1>1, <1>5, Zenon DEF Told
  <1>7. Calm(trans, trans')
    BY <1>1, <1>4, Zenon
  <1> QED  BY <1>3, <1>6, <1>7, CalmStep, Zenon

\* The server takes up a fop, or refuses it (server_<fop>).
LEMMA SoundFop ==
    ASSUME Sound, D, Conns, NEW t \in Transports, trans[t].req # <<>>,
           Head(trans[t].req).kind = "fop", server_fop(t, Head(trans[t].req)), conn' = conn, file' = file
    PROVE  Sound'
  <1> DEFINE m == Head(trans[t].req)  x == [trans EXCEPT ![t].req = Tail(@)]  c == m.c
             a == Reply(c, "error", 0)
  <1>0. trans \in [Transports -> TransportRec] /\ server \in ServerRec
    BY Zenon DEF D, Desc, Types, ServerRec
  <1>1. /\ server' = server
        /\ \/ trans' = protocol_server_reply(x, t, a)
           \/ \E q : trans' = [x EXCEPT ![t].running = q]
           \/ \E q : trans' = [x EXCEPT ![t].walking = q]
    <2>1. CASE "fd" \in gf_fops[call[c].op].needs
      BY <2>1, Zenon DEF server_fop
    <2>2. CASE "fd" \notin gf_fops[call[c].op].needs
      BY <2>2, Zenon DEF server_fop
    <2> QED  BY <2>1, <2>2, Zenon
  <1>2. /\ x \in [Transports -> TransportRec] /\ Calm(trans, x) /\ a \in Replies
        /\ \A s : OnWay(trans, s) => OnWay(x, s)
    <2>1. trans[t].req \in Seq(Requests)
      BY <1>0, Zenon DEF TransportRec
    <2>2. Tail(trans[t].req) \in Seq(Requests) /\ m \in Requests
      BY <2>1
    <2>3. x \in [Transports -> TransportRec] /\ Calm(trans, x)
      BY <1>0, <2>2, RecordTyped, CalmFields, ZenonT(30)
    <2>4. a \in Replies
      <3>1. c \in Calls
        BY <2>2, Zenon DEF Requests
      <3> HIDE DEF c
      <3> QED  BY <1>0, <3>1, Zenon DEF Reply, Replies, ServerRec
    <2>5. ASSUME NEW s, OnWay(trans, s)  PROVE OnWay(x, s)
      <3>1. Head(trans[t].req) # [kind |-> "release", slot |-> s]
        OBVIOUS
      <3> QED  BY <1>0, <2>5, <3>1, TailOnWay, Zenon
    <2> QED  BY <2>3, <2>4, <2>5, Zenon
  <1> HIDE DEF x, a, m
  <1>3. Calm(x, trans') /\ SameReq(x, trans')
    <2>1. CASE trans' = protocol_server_reply(x, t, a)
      BY <1>2, <2>1, CalmReply, Zenon
    <2>2. ASSUME NEW q, trans' = [x EXCEPT ![t].running = q]  PROVE Calm(x, trans') /\ SameReq(x, trans')
      <3>1. Calm(x, [x EXCEPT ![t].running = q]) /\ SameReq(x, [x EXCEPT ![t].running = q])
        BY <1>2, CalmFields, Zenon
      <3> QED  BY <2>2, <3>1, Zenon
    <2>3. ASSUME NEW q, trans' = [x EXCEPT ![t].walking = q]  PROVE Calm(x, trans') /\ SameReq(x, trans')
      <3>1. Calm(x, [x EXCEPT ![t].walking = q]) /\ SameReq(x, [x EXCEPT ![t].walking = q])
        BY <1>2, CalmFields, Zenon
      <3> QED  BY <2>3, <3>1, Zenon
    <2> QED  BY <1>1, <2>1, <2>2, <2>3, Zenon
  <1>4. Calm(trans, trans')
    BY <1>2, <1>3, CalmTwice, Zenon
  <1>5. Told'
    <2>1. \A s : OnWay(trans, s) => OnWay(trans', s)
      BY <1>2, <1>3, SameReqOnWay, Zenon
    <2>2. Told /\ server'.fds = server.fds
      BY <1>1, Zenon DEF Sound
    <2> QED  BY <2>1, <2>2, ToldStep, Zenon
  <1>6. server'.gen = server.gen /\ server'.last = server.last
    BY <1>1, Zenon
  <1> QED  BY <1>4, <1>5, <1>6, CalmStep, Zenon

\* A walk is over (server_stub_resume).
LEMMA SoundResume ==
    ASSUME Sound, D, Conns, NEW t \in Transports, NEW c \in Calls, NEW found,
           server_stub_resume(t, c, found)
    PROVE  Sound'
  <1> DEFINE x == [trans EXCEPT ![t].walking = @ \ {c}]  a == Reply(c, "error", 0)
  <1>0. trans \in [Transports -> TransportRec] /\ server \in ServerRec
    BY Zenon DEF D, Desc, Types, ServerRec
  <1>1. /\ \/ trans' = protocol_server_reply(x, t, a)
           \/ \E q : trans' = [x EXCEPT ![t].running = q]
        /\ server' = server_connection_put(trans', server)
        /\ conn' = conn /\ file' = file
    BY Zenon DEF server_stub_resume
  <1>2. x \in [Transports -> TransportRec] /\ Calm(trans, x) /\ SameReq(trans, x) /\ a \in Replies
    <2>1. trans[t].walking \ {c} \in SUBSET Calls
      BY <1>0, Zenon DEF TransportRec
    <2>2. x \in [Transports -> TransportRec] /\ Calm(trans, x) /\ SameReq(trans, x)
      BY <1>0, <2>1, RecordTyped, CalmFields, Zenon
    <2>3. a \in Replies
      BY <1>0, Zenon DEF Reply, Replies, ServerRec
    <2> QED  BY <2>2, <2>3, Zenon
  <1> HIDE DEF x, a
  <1>3. Calm(x, trans') /\ SameReq(x, trans')
    <2>1. CASE trans' = protocol_server_reply(x, t, a)
      BY <1>2, <2>1, CalmReply, Zenon
    <2>2. ASSUME NEW q, trans' = [x EXCEPT ![t].running = q]  PROVE Calm(x, trans') /\ SameReq(x, trans')
      <3>1. Calm(x, [x EXCEPT ![t].running = q]) /\ SameReq(x, [x EXCEPT ![t].running = q])
        BY <1>2, CalmFields, Zenon
      <3> QED  BY <2>2, <3>1, Zenon
    <2> QED  BY <1>1, <2>1, <2>2, Zenon
  <1>4. Calm(trans, trans') /\ SameReq(trans, trans')
    BY <1>2, <1>3, CalmTwice, Zenon
  <1>5. server' = server
    <2>1. Held(trans', server)
      BY <1>4, HeldCalm, Zenon DEF Sound
    <2> QED  BY <1>1, <2>1, HeldPut, Zenon
  <1>6. Told'
    <2>1. \A s : OnWay(trans, s) => OnWay(trans', s)
      BY <1>4, SameReqOnWay, Zenon
    <2>2. Told /\ server'.fds = server.fds
      BY <1>5, Zenon DEF Sound
    <2> QED  BY <1>1, <2>1, <2>2, ToldStep, Zenon
  <1>7. server'.gen = server.gen /\ server'.last = server.last
    BY <1>5, Zenon
  <1> QED  BY <1>1, <1>4, <1>6, <1>7, CalmStep, Zenon

\* A fop is done (server_<fop>_cbk): the descriptor an open puts in a slot cannot have
\* been released, since its open is not answered yet.
LEMMA SoundCbk ==
    ASSUME SlotToSpare, Sound, D, Conns, Earned(call, file), NEW t \in Transports, NEW c \in Calls,
           NEW ok \in BOOLEAN, server_cbk(t, c, ok)
    PROVE  Sound'
  <1> DEFINE x == [trans EXCEPT ![t].running = @ \ {c}]
             opens == ok /\ "fd" \in gf_fops[call[c].op].done
             s0 == gf_fd_unused_get(server.fds)
             slot == IF opens THEN s0 ELSE 0
             st == IF ok THEN "ok" ELSE "error"
             a == Reply(c, st, slot)
             sv == IF opens THEN [server EXCEPT !.fds[slot] = call[c].fd] ELSE server
  <1>1. /\ trans' = protocol_server_reply(x, t, a)
        /\ server' = server_connection_put(trans', sv)
        /\ conn' = conn /\ file' = file /\ c \in trans[t].running
    BY Zenon DEF server_cbk
  <1>2. "run" \in {"walk", "run"} /\ c \in Set(trans, "run", t)
    BY <1>1, Zenon DEF Set
  <1>3. x = IF "run" = "walk" THEN [trans EXCEPT ![t].walking = @ \ {c}]
                              ELSE [trans EXCEPT ![t].running = @ \ {c}]
    OBVIOUS
  <1>4. server \in ServerRec /\ trans \in [Transports -> TransportRec] /\ file \in [Fds -> FileRec]
    BY Zenon DEF D, Desc, Types, ServerRec
  <1>5. Calm(trans, x) /\ SameReq(trans, x)
    BY <1>4, CalmFields, Zenon
  <1> HIDE DEF x, s0
  <1>6. /\ x \in [Transports -> TransportRec] /\ Desc(x, call, file, server, ran)
        /\ Nowhere(x, c) /\ call[c].status \in {"out", "notconn"} /\ call[c].op \in Fops
        /\ Opens(call, c) => \A s \in Slots : server.fds[s] # call[c].fd
    BY <1>2, <1>3, LetGo, Zenon
  <1>7. opens => /\ Opens(call, c) /\ s0 \in Slots /\ sv = [server EXCEPT !.fds[s0] = call[c].fd]
    <2> HAVE opens
    <2>1. "fd" \in gf_fops[call[c].op].learns
      BY <1>6, EndsAgree, Zenon DEF EndsAgree
    <2>2. Opens(call, c)
      BY <1>6, <2>1, Zenon DEF Opens
    <2>3. sv = [server EXCEPT !.fds[s0] = call[c].fd]
      OBVIOUS
    <2>4. s0 = gf_fd_unused_get(server.fds)
      BY Zenon DEF s0
    <2> HIDE DEF sv
    <2>5. \A s \in Slots : server.fds[s] # call[c].fd
      BY <1>6, <2>2, Zenon
    <2> HIDE DEF opens, slot
    <2>6. Desc(x, call, file, server, ran) /\ Nowhere(x, c) /\ Opens(call, c)
      BY <1>6, <2>2, Zenon
    <2>7. sv = [server EXCEPT !.fds[s0] = call[c].fd] /\ s0 = gf_fd_unused_get(server.fds)
      BY <2>3, <2>4, Zenon
    <2>8. Desc(x, call, file, sv, ran) /\ s0 \in Slots
      BY <2>5, <2>6, <2>7, InstallKeeps, ZenonT(30)
    <2> QED  BY <2>2, <2>3, <2>8, Zenon
  <1>8. a \in Replies
    <2>1. slot \in {0} \cup Slots
      BY <1>7, Zenon
    <2>2. st \in {"ok", "error"}
      OBVIOUS
    <2> HIDE DEF slot, st
    <2> QED  BY <1>4, <2>1, <2>2, Zenon DEF Reply, Replies, ServerRec
  <1>9. ~opens => sv = server
    OBVIOUS
  <1> HIDE DEF a, slot, st, sv, opens
  <1>10. Calm(x, trans') /\ SameReq(x, trans')
    BY <1>1, <1>6, <1>8, CalmReply, Zenon
  <1>11. Calm(trans, trans') /\ SameReq(trans, trans')
    BY <1>5, <1>10, CalmTwice, Zenon
  <1>12. sv.gen = server.gen /\ sv.last = server.last
    BY <1>4, <1>7, <1>9, Zenon DEF ServerRec
  <1>13. server' = sv
    <2>1. Held(trans, server)
      BY Zenon DEF Sound
    <2>2. Held(trans', sv)
      BY <1>11, <1>12, <2>1, HeldCalm, Zenon
    <2> QED  BY <1>1, <2>2, HeldPut, Zenon
  <1>14. ASSUME NEW s \in Slots, sv.fds[s] # NoFd, file[sv.fds[s]].state = "released"
         PROVE  server.fds[s] = sv.fds[s]
    <2>1. CASE ~opens
      BY <1>9, <2>1, Zenon
    <2>2. CASE opens /\ s # s0
      <3>1. server.fds \in [Slots -> Fds \cup {NoFd}]
        BY <1>4, Zenon DEF ServerRec, Tables
      <3> QED  BY <1>4, <1>7, <2>2, <3>1, Zenon DEF ServerRec
    <2>3. CASE opens /\ s = s0
      <3>1. server.fds \in [Slots -> Fds \cup {NoFd}]
        BY <1>4, Zenon DEF ServerRec, Tables
      <3>2. sv.fds[s] = call[c].fd
        BY <1>4, <1>7, <2>3, <3>1, Zenon DEF ServerRec
      <3>3. Opens(call, c) /\ call[c].fd \in Fds
        BY <1>6, <1>7, <2>3, Zenon DEF Desc, Openers
      <3>4. file[call[c].fd].slot # 0
        BY <1>14, <3>2, <3>3, Zenon DEF Earned
      <3>5. call[c].status = "ok"
        BY <3>3, <3>4, Zenon DEF Earned
      <3> QED  BY <1>6, <3>5, Zenon
    <2> QED  BY <2>1, <2>2, <2>3, Zenon
  <1>15. Told'
    <2>1. ASSUME NEW s \in Slots, server'.fds[s] # NoFd, file'[server'.fds[s]].state = "released"
          PROVE  OnWay(trans', s)
      <3>1. sv.fds[s] # NoFd /\ file[sv.fds[s]].state = "released"
        BY <1>1, <1>13, <2>1, Zenon
      <3>2. server.fds[s] = sv.fds[s]
        BY <1>14, <3>1, Zenon
      <3>3. OnWay(trans, s)
        BY <3>1, <3>2, Zenon DEF Sound, Told
      <3> QED  BY <1>11, <3>3, SameReqOnWay, Zenon
    <2> QED  BY <2>1, Zenon DEF Told
  <1>16. server'.gen = server.gen /\ server'.last = server.last
    BY <1>12, <1>13, Zenon
  <1> QED  BY <1>1, <1>11, <1>15, <1>16, CalmStep, Zenon

\* Every step keeps it: what loses a transport is counted, and what follows such a
\* loss (cleanup, reconnect, POLLERR on the server) cannot come without one.
LEMMA UnbrokenStep ==
    ASSUME SlotToSpare, Unbroken, Earned(call, file), D, Conns, SavedOut, mix \in Mixes, [Next]_vars
    PROVE  Unbroken'
  <1>0. cuts \in Nat
    BY Zenon DEF Unbroken
  <1>1. ASSUME NEW t \in Transports, Break(t)  PROVE Unbroken'
    <2>1. cuts' = cuts + 1
      BY <1>1, Zenon DEF Break
    <2> QED  BY <1>0, <2>1 DEF Unbroken
  <1>2. ASSUME NEW ch \in Channels, Bail(ch)  PROVE Unbroken'
    <2>1. cuts' = cuts + 1
      BY <1>2, Zenon DEF Bail
    <2> QED  BY <1>0, <2>1 DEF Unbroken
  <1>3. ASSUME cuts' = cuts, Sound => Sound'  PROVE Unbroken'
    <2>1. cuts' \in Nat /\ (cuts' = 0 => cuts = 0)
      BY <1>0, <1>3, Zenon
    <2> QED  BY <1>3, <2>1, Zenon DEF Unbroken
  <1>4. CASE ClientNext
    <2>1. ASSUME NEW ch \in Channels, client_protocol_reconnect(ch)  PROVE Unbroken'
      <3>1. cuts' = cuts /\ conn[ch].trans = 0
        BY <2>1, Zenon DEF client_protocol_reconnect
      <3>2. ~Sound
        BY <3>1, Zenon DEF Sound, Usable
      <3> QED  BY <1>3, <3>1, <3>2, Zenon
    <2>2. ASSUME NEW ch \in Channels, protocol_client_pollin(ch)  PROVE Unbroken'
      <3>1. cuts' = cuts
        BY <2>2, Zenon DEF protocol_client_pollin
      <3> QED  BY <1>3, <2>2, <3>1, SoundPollin, Zenon
    <2>3. ASSUME NEW ch \in Channels, protocol_client_cleanup(ch)  PROVE Unbroken'
      <3>1. cuts' = cuts /\ trans[conn[ch].trans].client \in {"broken", "shut"}
        BY <2>3, Zenon DEF protocol_client_cleanup
      <3>2. ~Sound
        BY <3>1, Zenon DEF Sound, Usable
      <3> QED  BY <1>3, <3>1, <3>2, Zenon
    <2>4. ASSUME NEW c \in Calls, NEW op \in mix.ops, CallPath(c, op)  PROVE Unbroken'
      <3>1. cuts' = cuts
        BY <2>4, Zenon DEF CallPath
      <3> QED  BY <1>3, <2>4, <3>1, SoundCalls, Zenon
    <2>5. ASSUME NEW c \in Calls, NEW op \in mix.ops, NEW f \in Fds, CallFd(c, op, f)  PROVE Unbroken'
      <3>1. cuts' = cuts
        BY <2>5, Zenon DEF CallFd
      <3> QED  BY <1>3, <2>5, <3>1, SoundCalls, Zenon
    <2>6. ASSUME NEW f \in Fds, client_release(f)  PROVE Unbroken'
      <3>1. cuts' = cuts
        BY <2>6, Zenon DEF client_release
      <3> QED  BY <1>3, <2>6, <3>1, SoundRelease, Zenon
    <2> QED  BY <1>2, <1>4, <2>1, <2>2, <2>3, <2>4, <2>5, <2>6, Zenon DEF ClientNext
  <1>5. CASE ServerNext
    <2>1. ASSUME NEW t \in Transports, protocol_server_interpret(t)  PROVE Unbroken'
      <3>1. /\ cuts' = cuts /\ trans[t].req # <<>> /\ trans[t].live /\ call' = call
            /\ file' = file /\ conn' = conn
        BY <2>1, Zenon DEF protocol_server_interpret
      <3>2. CASE Head(trans[t].req).kind = "setvolume"
        <4>1. mop_setvolume(t)
          BY <2>1, <3>2, Zenon DEF protocol_server_interpret
        <4> QED  BY <1>3, <3>1, <3>2, <4>1, SoundSetvolume, Zenon
      <3>3. CASE Head(trans[t].req).kind = "release"
        <4>1. server_release(t, Head(trans[t].req).slot)
          BY <2>1, <3>3, Zenon DEF protocol_server_interpret
        <4> QED  BY <1>3, <3>1, <3>3, <4>1, SoundServerRelease, Zenon
      <3>4. CASE Head(trans[t].req).kind = "fop"
        <4>1. server_fop(t, Head(trans[t].req))
          BY <2>1, <3>4, ZenonT(30) DEF protocol_server_interpret
        <4> QED  BY <1>3, <3>1, <3>4, <4>1, SoundFop, Zenon
      <3>5. Head(trans[t].req).kind \in {"setvolume", "release", "fop"}
        <4>1. trans \in [Transports -> TransportRec]
          BY Zenon DEF D, Desc, Types
        <4>2. trans[t].req \in Seq(Requests)
          BY <4>1, Zenon DEF TransportRec
        <4>3. Head(trans[t].req) \in Requests
          BY <3>1, <4>2
        <4> QED  BY <4>3, Zenon DEF Requests
      <3> QED  BY <3>2, <3>3, <3>4, <3>5, Zenon
    <2>2. ASSUME NEW t \in Transports, server_pollerr(t)  PROVE Unbroken'
      <3>1. cuts' = cuts /\ trans[t].live /\ trans[t].client # "open"
        BY <2>2, Zenon DEF server_pollerr
      <3>2. ~Sound
        BY <3>1, Zenon DEF Sound, Lines
      <3> QED  BY <1>3, <3>1, <3>2, Zenon
    <2>3. ASSUME NEW t \in Transports, NEW c \in Calls, NEW found, server_stub_resume(t, c, found)
          PROVE  Unbroken'
      <3>1. cuts' = cuts
        BY <2>3, Zenon DEF server_stub_resume
      <3> QED  BY <1>3, <2>3, <3>1, SoundResume, Zenon
    <2>4. ASSUME NEW t \in Transports, NEW c \in Calls, NEW ok \in BOOLEAN, server_cbk(t, c, ok)
          PROVE  Unbroken'
      <3>1. cuts' = cuts
        BY <2>4, Zenon DEF server_cbk
      <3> QED  BY <1>3, <2>4, <3>1, SoundCbk, Zenon
    <2> QED  BY <1>5, <2>1, <2>2, <2>3, <2>4, Zenon DEF ServerNext
  <1>6. CASE UNCHANGED vars
    <2>1. cuts' = cuts /\ trans' = trans /\ conn' = conn /\ file' = file /\ server' = server
      BY <1>6, Zenon DEF vars
    <2>2. Lines' = Lines /\ Usable' = Usable /\ Told' = Told
      BY <2>1, Zenon DEF Lines, Usable, Told
    <2>3. Sound => Sound'
      BY <2>1, <2>2, Zenon DEF Sound
    <2> QED  BY <1>3, <2>1, <2>3, Zenon
  <1> QED  BY <1>1, <1>4, <1>5, <1>6, Zenon DEF Next

\* Nothing is lost, open or released at the start.
LEMMA UnbrokenInit ==
    ASSUME Init
    PROVE  Unbroken /\ Earned(call, file)
  <1>0. MaxCuts \in Nat
    BY ConstantsAssumption, Zenon DEF ConstantsAssumption
  <1>1. \A f \in Fds : file[f].state = "free"
    BY Zenon DEF Init
  <1>2. \A c \in Calls : call[c].status = "idle"
    BY Zenon DEF Init, NoCall
  <1>3. Earned(call, file)
    <2>1. \A c : ~Opens(call, c)
      BY <1>2, Zenon DEF Opens
    <2> QED  BY <1>1, <2>1, Zenon DEF Earned
  <1>4. \A t \in Transports :
           \/ trans[t].client = "gone" /\ ~trans[t].live /\ ~\E ch \in Channels : First(ch) = t
           \/ trans[t].client = "open" /\ trans[t].live
    BY Zenon DEF Init, NewTransport, NoTransport
  <1>5. Lines
    <2>1. \A t \in Transports : trans[t].live \in BOOLEAN
      BY DescInit, Zenon DEF D, Desc, Types, TransportRec
    <2> QED  BY <1>4, <2>1, Zenon DEF Lines
  <1>6. Usable
    <2>1. \A ch \in Channels : First(ch) \in Transports /\ First(ch) # 0
      BY <1>0, SMTT(30) DEF First, Transports, Channels
    <2>2. \A ch \in Channels : conn[ch].trans = First(ch)
      BY Zenon DEF Init
    <2> QED  BY <1>4, <2>1, <2>2, Zenon DEF Usable
  <1>7. server.gen = 0 /\ server.last = 0 /\ \A s \in Slots : server.fds[s] = NoFd
    BY Zenon DEF Init
  <1>8. Held(trans, server) /\ Told
    BY <1>7, Zenon DEF Held, Told
  <1>9. cuts \in Nat
    BY Zenon DEF Init
  <1> QED  BY <1>3, <1>5, <1>6, <1>8, <1>9, Zenon DEF Unbroken, Sound
-----------------------------------------------------------------------------
(* The table has a slot to spare, and the theorems.                        *)

\* The library's facts, brought in here because only what follows needs them.
FST == INSTANCE FiniteSetTheorems

\* They are about the same finite sets and the same cardinality.
LEMMA SameNotions ==
    \A S : (FST!IsFiniteSet(S) <=> IsFiniteSet(S)) /\ FST!Cardinality(S) = Cardinality(S)
  <1>1. \A S : FST!IsFiniteSet(S) <=> IsFiniteSet(S)
    BY Zenon DEF FST!IsFiniteSet, IsFiniteSet
  <1>2. \A S : FST!Cardinality(S) = Cardinality(S)
    BY Zenon DEF FST!Cardinality, Cardinality
  <1> QED  BY <1>1, <1>2, Zenon

\* A set of naturals has a least element.
LEMMA LeastNat ==
    ASSUME NEW S \in SUBSET Nat, S # {}
    PROVE  \E x \in S : \A y \in S : x <= y
  <1>1. PICK x \in S : \A y \in S : ~(<<y, x>> \in FST!OpToRel(<, Nat))
    BY FST!NatLessThanWellFounded, FST!WFMin, ZenonT(30)
  <1>2. ASSUME NEW y \in S, ~(x <= y)  PROVE FALSE
    <2>1. <<y, x>> \in Nat \X Nat /\ y < x
      BY <1>2, SMTT(30)
    <2>2. <<y, x>> \in FST!OpToRel(<, Nat)
      BY <2>1, Zenon DEF FST!OpToRel
    <2> QED  BY <1>1, <2>2, Zenon
  <1> QED  BY <1>2, Zenon

\* As long as a descriptor is not in the table there is a free slot, and
\* gf_fd_unused_get finds one: the table has as many slots as there are descriptors.
LEMMA UnusedSlot == SlotToSpare
  <1> SUFFICES ASSUME NEW fds \in Tables, NEW x \in Fds, \A s \in Slots : fds[s] # x,
                      \A r, s \in Slots : fds[r] = fds[s] /\ fds[r] # NoFd => r = s
               PROVE  gf_fd_unused_get(fds) \in Slots /\ fds[gf_fd_unused_get(fds)] = NoFd
    BY Zenon DEF SlotToSpare
  <1> DEFINE Free == {s \in Slots : fds[s] = NoFd}
  <1>1. IsFiniteSet(Fds)
    BY ConstantsAssumption, Zenon DEF ConstantsAssumption
  <1>2. Cardinality(Fds) \in Nat
    BY <1>1, SameNotions, FST!FS_CardinalityType, Zenon
  <1>3. Free # {}
    <2> SUFFICES ASSUME Free = {} PROVE FALSE
      OBVIOUS
    <2>1. fds \in [Slots -> Fds \ {x}]
      BY Zenon DEF Tables
    <2>2. IsFiniteSet(Fds \ {x}) /\ Cardinality(Fds \ {x}) = Cardinality(Fds) - 1
      BY <1>1, SameNotions, FST!FS_RemoveElement, SMTT(30)
    <2>3. IsFiniteSet(Slots) /\ Cardinality(Slots) = Cardinality(Fds)
      <3>1. /\ FST!IsFiniteSet(1 .. Cardinality(Fds))
            /\ FST!Cardinality(1 .. Cardinality(Fds)) = Cardinality(Fds)
        BY <1>2, FST!FS_Interval, SMTT(30)
      <3> QED  BY <3>1, SameNotions, ZenonT(30) DEF Slots
    <2>4. Cardinality(Fds \ {x}) < Cardinality(Slots)
      BY <1>2, <2>2, <2>3, SMTT(30)
    <2>5. \E r, s \in Slots : r # s /\ fds[r] = fds[s]
      BY <2>1, <2>2, <2>3, <2>4, SameNotions, FST!FS_PigeonHole, SMTT(30)
    <2> QED  BY <2>5, Zenon
  <1>4. Free \in SUBSET Nat
    BY <1>2, SMTT(30) DEF Slots
  <1>5. PICK l \in Free : \A y \in Free : l <= y
    BY <1>3, <1>4, LeastNat, Zenon
  <1>6. \A r \in 1 .. (l - 1) : r \in Slots /\ r < l
    BY <1>2, <1>5, SMTT(30) DEF Slots
  <1>7. \A r \in 1 .. (l - 1) : fds[r] # NoFd
    BY <1>2, <1>5, <1>6, SMTT(30) DEF Slots
  <1>8. \E s \in Slots : fds[s] = NoFd /\ \A r \in 1 .. (s - 1) : fds[r] # NoFd
    BY <1>5, <1>7, Zenon
  <1> QED  BY <1>8, Zenon DEF gf_fd_unused_get

\* As long as the server keeps the connection object it first made for the client,
\* client and server mean the same descriptor by a slot: the slot a descriptor of the
\* client remembers holds that descriptor (this_fd_get, gf_fd_unused_get), and what the
\* server reports of a fop on a descriptor it did to the one meant.
THEOREM DescriptorsAgree == Spec => []RightDescriptor
  <1> DEFINE IInv == mix \in Mixes /\ SavedOut /\ Conns /\ D
  <1>1. Init => IInv
    BY DescInit, Zenon DEF Init, SavedOut
  <1>2. IInv /\ [Next]_vars => IInv'
    BY UnusedSlot, MixFixed, SavedOutStep, ConnsStep, DescStep, SMTT(30)
  <1>3. IInv => RightDescriptor
    <2> SUFFICES ASSUME D, OneConnection  PROVE RightDescriptor
      BY Zenon DEF RightDescriptor, KeepsSlot, RightFile
    <2>1. Whole(server)
      BY Zenon DEF OneConnection, Whole
    <2>2. FilesTrue(file, server.fds) /\ RunsTrue(trans, call, ran)
      BY <2>1, Zenon DEF D, Desc, SlotsTrue
    <2>3. KeepsSlot
      BY <2>2, Zenon DEF KeepsSlot, FilesTrue
    <2>4. ASSUME NEW c \in Calls, call[c].status \in {"ok", "error"}, "fd" \in gf_fops[call[c].op].sends
          PROVE  ran[c].fd = call[c].fd
      <3>1. Uses(call, c)
        BY <2>4, Zenon DEF Uses
      <3> QED  BY <2>2, <2>4, <3>1, Zenon DEF RunsTrue
    <2> QED  BY <2>3, <2>4, Zenon DEF RightDescriptor, RightFile
  <1> QED  BY <1>1, <1>2, <1>3, PTL DEF Spec

\* As long as no transport is lost, the server leaks no descriptor: a slot whose
\* descriptor the client has released (client_release) is emptied, or the release is
\* still in the queue of a transport and will empty it (server_release).
THEOREM ReleasesReachServer == Spec => []NoLeak
  <1> DEFINE IInv == mix \in Mixes /\ SavedOut /\ Conns /\ D /\ Earned(call, file) /\ Unbroken
  <1>1. Init => IInv
    BY DescInit, UnbrokenInit, ZenonT(30) DEF Init, SavedOut
  <1>2. IInv /\ [Next]_vars => IInv'
    BY UnusedSlot, MixFixed, SavedOutStep, ConnsStep, DescStep, EarnedStep, UnbrokenStep, SMTT(30)
  <1>3. IInv => NoLeak
    <2> SUFFICES ASSUME Unbroken, cuts = 0, NEW s \in Slots, server.fds[s] # NoFd,
                        file[server.fds[s]].state = "released"
                 PROVE  \E t \in Transports : [kind |-> "release", slot |-> s] \in
                           {trans[t].req[i] : i \in {j \in 1 .. Len(trans[t].req) :
                                                        trans[t].req[j].kind = "release"}}
      BY Zenon DEF NoLeak
    <2>1. OnWay(trans, s)
      BY Zenon DEF Unbroken, Sound, Told
    <2> QED  BY <2>1, SMTT(30) DEF OnWay
  <1> QED  BY <1>1, <1>2, <1>3, PTL DEF Spec
=============================================================================
