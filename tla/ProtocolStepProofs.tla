------------------------ MODULE ProtocolStepProofs ------------------------
(***************************************************************************)
(* Every step of Protocol keeps what the descriptors, the calls and the    *)
(* queues have to do with each other (D).                                  *)
(***************************************************************************)
EXTENDS ProtocolProofs

\* Desc, of the state; and the client's connections are typed.
D == Desc(trans, call, file, server, ran)

Conns == conn \in [Channels -> [connected : BOOLEAN, trans : {0} \cup Transports]]

\* A step that only loses messages, or the server's connection object.
LEMMA QuietStep ==
    ASSUME D, call' = call, file' = file, ran' = ran, trans' \in [Transports -> TransportRec],
           Fewer(trans, trans'),
           server' = server \/ server' = server_connection_put(trans', server)
    PROVE  D'
  <1>1. Desc(trans', call, file, server, ran)
    BY FewerKeeps, Zenon DEF D
  <1>2. Desc(trans', call, file, server_connection_put(trans', server), ran)
    BY <1>1, PutKeeps, Zenon
  <1> QED  BY <1>1, <1>2, Zenon DEF D

\* Connections are made, and lost.
LEMMA ConnectionStep ==
    ASSUME D, Conns,
           \/ \E ch \in Channels : client_protocol_reconnect(ch) \/ Bail(ch)
           \/ \E t \in Transports : Break(t) \/ server_pollerr(t)
    PROVE  D'
  <1>0. trans \in [Transports -> TransportRec]
    BY Zenon DEF D, Desc, Types
  <1>1. ASSUME NEW ch \in Channels, client_protocol_reconnect(ch)  PROVE D'
    <2>1. PICK t \in Transports : trans' = [trans EXCEPT ![t] = NewTransport(ch)]
      BY <1>1, Zenon DEF client_protocol_reconnect
    <2>2. call' = call /\ file' = file /\ ran' = ran /\ server' = server
      BY <1>1, Zenon DEF client_protocol_reconnect
    <2>3. trans' \in [Transports -> TransportRec] /\ Fewer(trans, trans')
      <3>1. /\ [trans EXCEPT ![t] = NewTransport(ch)] \in [Transports -> TransportRec]
            /\ Fewer(trans, [trans EXCEPT ![t] = NewTransport(ch)])
        BY <1>0, NewFewer, Zenon
      <3> QED  BY <2>1, <3>1, Zenon
    <2> QED  BY <2>2, <2>3, QuietStep, Zenon
  <1>2. ASSUME NEW t \in Transports, NEW st \in {"broken", "shut"},
               trans' = [trans EXCEPT ![t].client = st],
               call' = call, file' = file, ran' = ran, server' = server
        PROVE  D'
    <2>1. st \in {"open", "broken", "shut", "gone"}
      OBVIOUS
    <2>2. [trans EXCEPT ![t].client = st] \in [Transports -> TransportRec]
      BY <1>0, <2>1, RecordTyped, Zenon
    <2>3. Fewer(trans, [trans EXCEPT ![t].client = st])
      BY <1>0, FieldFewer, Zenon
    <2> QED  BY <1>2, <2>2, <2>3, QuietStep, Zenon
  <1>3. ASSUME NEW ch \in Channels, Bail(ch)  PROVE D'
    <2>1. conn[ch].trans \in Transports
      BY <1>3, Zenon DEF Bail, Conns
    <2>2. /\ trans' = [trans EXCEPT ![conn[ch].trans].client = "shut"]
          /\ call' = call /\ file' = file /\ ran' = ran /\ server' = server
      BY <1>3, Zenon DEF Bail
    <2>3. "shut" \in {"broken", "shut"}
      OBVIOUS
    <2> QED  BY <1>2, <2>1, <2>2, <2>3, Zenon
  <1>4. ASSUME NEW t \in Transports, Break(t)  PROVE D'
    <2>1. /\ trans' = [trans EXCEPT ![t].client = "broken"]
          /\ call' = call /\ file' = file /\ ran' = ran /\ server' = server
      BY <1>4, Zenon DEF Break
    <2>2. "broken" \in {"broken", "shut"}
      OBVIOUS
    <2> QED  BY <1>2, <2>1, <2>2, Zenon
  <1>5. ASSUME NEW t \in Transports, server_pollerr(t)  PROVE D'
    <2> DEFINE x == [trans EXCEPT ![t].live = FALSE]  y == [x EXCEPT ![t].req = <<>>]
    <2>1. /\ trans' = transport_unref(y, t) /\ server' = server_connection_put(trans', server)
          /\ call' = call /\ file' = file /\ ran' = ran
      BY <1>5, Zenon DEF server_pollerr
    <2>2. x \in [Transports -> TransportRec] /\ Fewer(trans, x)
      <3>1. FALSE \in BOOLEAN
        OBVIOUS
      <3> QED  BY <1>0, <3>1, RecordTyped, FieldFewer, Zenon
    <2> HIDE DEF x
    <2>3. y \in [Transports -> TransportRec] /\ Fewer(x, y)
      <3>1. <<>> \in Seq(Requests)
        OBVIOUS
      <3> QED  BY <2>2, <3>1, RecordTyped, FieldFewer, Zenon
    <2> HIDE DEF y
    <2>4. trans' \in [Transports -> TransportRec] /\ Fewer(y, trans')
      <3>1. transport_unref(y, t) \in [Transports -> TransportRec] /\ SameQueues(y, transport_unref(y, t))
        BY <2>3, UnrefSame, Zenon
      <3>2. Fewer(y, transport_unref(y, t))
        BY <3>1, SameIsFewer, Zenon
      <3> QED  BY <2>1, <3>1, <3>2, Zenon
    <2>5. Desc(x, call, file, server, ran)
      BY <2>2, FewerKeeps, Zenon DEF D
    <2>6. Desc(y, call, file, server, ran)
      BY <2>3, <2>5, FewerKeeps, Zenon
    <2>7. Desc(trans', call, file, server, ran)
      BY <2>4, <2>6, FewerKeeps, Zenon
    <2>8. Desc(trans', call, file, server_connection_put(trans', server), ran)
      BY <2>7, PutKeeps, Zenon
    <2> QED  BY <2>1, <2>8, Zenon DEF D
  <1> QED  BY <1>1, <1>3, <1>4, <1>5, Zenon

\* A transport joins the connection of its client (mop_setvolume).
LEMMA SetvolumeStep ==
    ASSUME D, NEW t \in Transports, trans[t].req # <<>>, mop_setvolume(t), call' = call, file' = file
    PROVE  D'
  <1>0. trans \in [Transports -> TransportRec]
    BY Zenon DEF D, Desc, Types
  <1> DEFINE g == IF server.gen = 0 THEN server.last + 1 ELSE server.gen
             x == [trans EXCEPT ![t].req = Tail(@)]
             y == [x EXCEPT ![t].gen = g]
             m == [kind |-> "setvolume"]
  <1>1. /\ server' = [server EXCEPT !.gen = g, !.last = IF g > @ THEN g ELSE @]
        /\ trans' = socket_submit(y, t, "server", m) /\ ran' = ran
    BY Zenon DEF mop_setvolume
  <1>2. Desc(trans, call, file, server', ran) /\ g \in Nat \ {0}
    <2>1. Desc(trans, call, file, server, ran)
      BY Zenon DEF D
    <2>2. g = IF server.gen = 0 THEN server.last + 1 ELSE server.gen
      OBVIOUS
    <2>3. server' = [server EXCEPT !.gen = g, !.last = IF g > @ THEN g ELSE @]
      BY <1>1, Zenon
    <2> HIDE DEF x, y, m, g
    <2> QED  BY <2>1, <2>2, <2>3, GetKeeps, Zenon
  <1>3. x \in [Transports -> TransportRec] /\ Fewer(trans, x)
    <2>1. Queue(trans, "req", t) # <<>> /\ "req" \in {"req", "rep"}
      BY Zenon DEF Queue
    <2>2. x = IF "req" = "req" THEN [trans EXCEPT ![t].req = Tail(@)]
                               ELSE [trans EXCEPT ![t].rep = Tail(@)]
      OBVIOUS
    <2> HIDE DEF x
    <2>3. x \in [Transports -> TransportRec] /\ Pops(trans, x, "req", t)
      BY <1>0, <2>1, <2>2, TailPops, Zenon
    <2> QED  BY <2>3, Zenon DEF Pops
  <1>g. g \in Nat
    BY <1>2, Zenon
  <1> HIDE DEF x, g
  <1>4. y \in [Transports -> TransportRec] /\ Fewer(x, y)
    BY <1>g, <1>3, RecordTyped, FieldFewer, Zenon
  <1> HIDE DEF y
  <1>5. trans' \in [Transports -> TransportRec] /\ Fewer(y, trans')
    <2>1. m \in Replies /\ m.kind = "setvolume"
      BY Zenon DEF Replies
    <2> QED  BY <1>1, <1>4, <2>1, SubmitPosts
  <1>6. Desc(x, call, file, server', ran)
    BY <1>2, <1>3, FewerKeeps, Zenon
  <1>7. Desc(y, call, file, server', ran)
    BY <1>4, <1>6, FewerKeeps, Zenon
  <1>8. Desc(trans', call, file, server', ran)
    BY <1>5, <1>7, FewerKeeps, Zenon
  <1> QED  BY <1>1, <1>8, Zenon DEF D

\* The server reads a request: what is known of it and of what is left.
LEMMA ReadRequest ==
    ASSUME D, NEW t \in Transports, trans[t].req # <<>>, NEW m, m = Head(trans[t].req),
           m.kind # "setvolume", NEW x, x = [trans EXCEPT ![t].req = Tail(@)]
    PROVE  /\ x \in [Transports -> TransportRec] /\ Pops(trans, x, "req", t)
           /\ Has(trans, "req", t, 1, m) /\ m \in Requests
           /\ Desc(x, call, file, server, ran)
  <1>0. trans \in [Transports -> TransportRec]
    BY Zenon DEF D, Desc, Types
  <1>1. Queue(trans, "req", t) = trans[t].req /\ "req" \in {"req", "rep"}
    BY Zenon DEF Queue
  <1>2. x = IF "req" = "req" THEN [trans EXCEPT ![t].req = Tail(@)]
                             ELSE [trans EXCEPT ![t].rep = Tail(@)]
    OBVIOUS
  <1>3. /\ x \in [Transports -> TransportRec] /\ Pops(trans, x, "req", t)
        /\ Head(Queue(trans, "req", t)).kind # "setvolume" =>
              Has(trans, "req", t, 1, Head(Queue(trans, "req", t)))
    BY <1>0, <1>1, <1>2, TailPops, Zenon
  <1>4. Has(trans, "req", t, 1, m)
    BY <1>1, <1>3, Zenon
  <1>5. m \in Requests
    BY <1>0, <1>4, MessageTyped, Zenon
  <1>6. Fewer(trans, x)
    BY <1>3, Zenon DEF Pops
  <1>7. Desc(x, call, file, server, ran)
    BY <1>3, <1>6, FewerKeeps, Zenon DEF D
  <1> QED  BY <1>3, <1>4, <1>5, <1>7, Zenon

\* A slot is emptied (server_release).
LEMMA ReleaseStep ==
    ASSUME D, NEW t \in Transports, trans[t].req # <<>>, Head(trans[t].req).kind = "release",
           server_release(t, Head(trans[t].req).slot), call' = call, file' = file
    PROVE  D'
  <1> DEFINE m == Head(trans[t].req)  x == [trans EXCEPT ![t].req = Tail(@)]
  <1>1. server' = [server EXCEPT !.fds[m.slot] = NoFd] /\ trans' = x /\ ran' = ran
    BY Zenon DEF server_release
  <1>a. m.kind = "release" /\ m.kind # "setvolume" /\ trans[t].req # <<>>
    OBVIOUS
  <1>b. m = Head(trans[t].req) /\ x = [trans EXCEPT ![t].req = Tail(@)]
    OBVIOUS
  <1> HIDE DEF m, x
  <1>2. /\ x \in [Transports -> TransportRec] /\ Pops(trans, x, "req", t)
        /\ Has(trans, "req", t, 1, m) /\ m \in Requests
        /\ Desc(x, call, file, server, ran)
    BY <1>a, <1>b, ReadRequest, Zenon
  <1>3. m.slot \in Slots
    BY <1>2, <1>a, Zenon DEF Requests
  <1>4. ASSUME Whole(server)
        PROVE  /\ Released(file, server.fds, m.slot)
               /\ \A u, i, o : Has(x, "req", u, i, o) /\ o.kind = "release" => o.slot # m.slot
    <2>1. ReleasesTrue(trans, file, server.fds)
      BY <1>4, Zenon DEF D, Desc, SlotsTrue
    <2>2. Released(file, server.fds, m.slot)
      BY <1>2, <1>a, <2>1, Zenon DEF ReleasesTrue
    <2>3. ASSUME NEW u, NEW i, NEW o, Has(x, "req", u, i, o), o.kind = "release", o.slot = m.slot
          PROVE  FALSE
      <3>1. PICK n \in Nat : \A j, p : Has(x, "req", u, j, p) => Has(trans, "req", u, j + n, p)
        BY <1>2, Zenon DEF Pops, Fewer
      <3>2. Has(trans, "req", u, i + n, o)
        BY <2>3, <3>1, Zenon
      <3>3. SamePlace("req", t, 1, "req", u, i + n)
        BY <1>2, <1>a, <2>1, <2>3, <3>2, Zenon DEF ReleasesTrue, OneRelease
      <3>4. u = t
        BY <3>3, Zenon DEF SamePlace
      <3>5. Has(trans, "req", t, i + 1, o)
        BY <1>2, <2>3, <3>4, Zenon DEF Pops
      <3>6. SamePlace("req", t, 1, "req", t, i + 1)
        BY <1>2, <1>a, <2>1, <2>3, <3>5, Zenon DEF ReleasesTrue, OneRelease
      <3>7. i \in Nat \ {0}
        BY <2>3, PlaceIsNat, Zenon
      <3> QED  BY <3>6, <3>7 DEF SamePlace
    <2> QED  BY <2>2, <2>3, Zenon
  <1>5. Desc(x, call, file, server', ran)
    BY <1>1, <1>2, <1>3, <1>4, EmptyKeeps, Zenon
  <1> QED  BY <1>1, <1>5, Zenon DEF D

\* The server takes up a fop, or refuses it for want of its descriptor (server_<fop>).
LEMMA FopStep ==
    ASSUME D, NEW t \in Transports, trans[t].req # <<>>, Head(trans[t].req).kind = "fop",
           server_fop(t, Head(trans[t].req)), call' = call, file' = file
    PROVE  D'
  <1> DEFINE m == Head(trans[t].req)  x == [trans EXCEPT ![t].req = Tail(@)]  c == m.c
             r == [fd |-> server.fds[m.slot], gen |-> server.gen]
             a == Reply(c, "error", 0)
  <1>1. /\ "fd" \in gf_fops[call[c].op].needs =>
              /\ ran' = [ran EXCEPT ![c] = r]
              /\ trans' = IF server.fds[m.slot] = NoFd THEN protocol_server_reply(x, t, a)
                          ELSE [x EXCEPT ![t].running = @ \cup {c}]
        /\ "fd" \notin gf_fops[call[c].op].needs =>
              /\ \/ trans' = [x EXCEPT ![t].running = @ \cup {c}]
                 \/ trans' = [x EXCEPT ![t].walking = @ \cup {c}]
              /\ ran' = ran
        /\ server' = server
    <2>1. CASE "fd" \in gf_fops[call[c].op].needs
      BY <2>1, Zenon DEF server_fop
    <2>2. CASE "fd" \notin gf_fops[call[c].op].needs
      BY <2>2, Zenon DEF server_fop
    <2> QED  BY <2>1, <2>2, Zenon
  <1>a. m.kind = "fop" /\ m.kind # "setvolume" /\ trans[t].req # <<>>
    OBVIOUS
  <1>b. m = Head(trans[t].req) /\ x = [trans EXCEPT ![t].req = Tail(@)]
    OBVIOUS
  <1> HIDE DEF m, x
  <1>2. /\ x \in [Transports -> TransportRec] /\ Pops(trans, x, "req", t)
        /\ Has(trans, "req", t, 1, m) /\ m \in Requests
        /\ Desc(x, call, file, server, ran)
    BY <1>a, <1>b, ReadRequest, Zenon
  <1>3. c \in Calls /\ m.slot \in {0} \cup Slots
    BY <1>2, <1>a, Zenon DEF Requests
  <1>4. /\ OnePlace(trans, call) /\ Openers(call, file) /\ Users(call, file)
        /\ Table(trans, call, file, server.fds) /\ Names(trans, call)
        /\ server \in ServerRec
    BY Zenon DEF D, Desc, Types, ServerRec
  <1>5. In(trans, "req", t, 1, c) /\ Pending(trans, c)
    <2>1. m.kind \in {"fop", "reply"} /\ "req" # "rep"
      BY <1>a, Zenon
    <2>2. In(trans, "req", t, 1, c)
      BY <1>2, <2>1, Zenon DEF In
    <2> QED  BY <2>1, <2>2, Zenon DEF Pending
  <1>6. Nowhere(x, c) /\ call[c].status \in {"out", "notconn"}
    <2>1. m.kind \in {"fop", "reply"}
      BY <1>a, Zenon
    <2>2. Nowhere(x, m.c)
      BY <1>2, <1>4, <2>1, PopsCall, Zenon
    <2> QED  BY <1>4, <1>5, <2>2, Zenon DEF OnePlace, Nowhere
  <1>7. call[c].op \in Fops /\ m.slot = call[c].slot /\ call[c].status \notin {"idle", "badfd"}
    <2>1. call[c].status # "idle" /\ call[c].status # "badfd"
      BY <1>6, Zenon
    <2>2. call[c].op \in Fops
      BY <1>3, <1>4, <2>1, Zenon DEF Users
    <2>3. m.slot = call[c].slot
      BY <1>2, <1>4, <1>a, Zenon DEF Names
    <2> QED  BY <2>1, <2>2, <2>3, Zenon
  <1>8. Opens(call, c) => \A s \in Slots : server.fds[s] # call[c].fd
    BY <1>4, <1>5, Zenon DEF Table
  <1>9. Uses(call, c) <=> "fd" \in gf_fops[call[c].op].needs
    <2>1. ("fd" \in gf_fops[call[c].op].sends) = ("fd" \in gf_fops[call[c].op].needs)
      BY <1>7, EndsAgree, Zenon DEF EndsAgree
    <2>2. Uses(call, c) <=> "fd" \in gf_fops[call[c].op].sends
      BY <1>3, <1>7, Zenon DEF Uses
    <2> QED  BY <2>1, <2>2, Zenon
  <1>10. ASSUME Uses(call, c)
         PROVE  r \in RanRec /\ (call[c].status = "out" /\ Whole(server) => r.fd = call[c].fd)
    <2>1. /\ call[c].slot # 0 /\ call[c].fd \in Fds
          /\ call[c].status = "out" =>
                file[call[c].fd].state = "open" /\ file[call[c].fd].slot = call[c].slot
      BY <1>4, <1>7, <1>10, Zenon DEF Users
    <2>2. m.slot \in Slots
      BY <1>3, <1>7, <2>1, Zenon
    <2>3. r \in RanRec
      BY <1>4, <2>2, Zenon DEF RanRec, ServerRec, Tables
    <2>4. ASSUME call[c].status = "out", Whole(server)  PROVE server.fds[m.slot] = call[c].fd
      <3>1. FilesTrue(file, server.fds)
        BY <2>4, Zenon DEF D, Desc, SlotsTrue
      <3>2. server.fds[file[call[c].fd].slot] = call[c].fd
        BY <2>1, <2>4, <3>1, Zenon DEF FilesTrue
      <3> QED  BY <1>7, <2>1, <2>4, <3>2, Zenon
    <2> QED  BY <2>3, <2>4, Zenon
  <1>11. a \in Replies /\ a.kind = "reply" /\ a.c = c /\ a.status = "error"
    BY <1>3, <1>4, Zenon DEF Reply, Replies, ServerRec
  <1> HIDE DEF c, r, a
  <1>12. ASSUME NEW rn, Desc(x, call, file, server, rn),
                Uses(call, c) /\ call[c].status = "out" /\ Whole(server) => rn[c].fd = call[c].fd
         PROVE  /\ trans' = [x EXCEPT ![t].running = @ \cup {c}] =>
                      Desc(trans', call, file, server, rn)
                /\ trans' = [x EXCEPT ![t].walking = @ \cup {c}] =>
                      Desc(trans', call, file, server, rn)
                /\ trans' = protocol_server_reply(x, t, a) => Desc(trans', call, file, server, rn)
    <2>1. ASSUME trans' = [x EXCEPT ![t].running = @ \cup {c}]
          PROVE  Desc(trans', call, file, server, rn)
      <3>1. "run" \in {"walk", "run"} /\ "run" # "walk"
        OBVIOUS
      <3>2. trans' = IF "run" = "walk" THEN [x EXCEPT ![t].walking = @ \cup {c}]
                                       ELSE [x EXCEPT ![t].running = @ \cup {c}]
        BY <2>1, <3>1, Zenon
      <3>3. trans' \in [Transports -> TransportRec] /\ Takes(x, trans', "run", c)
        BY <1>2, <1>3, <3>1, <3>2, TakesUp, Zenon
      <3> QED  BY <1>3, <1>6, <1>8, <1>12, <3>1, <3>3, ServeKeeps, Zenon
    <2>2. ASSUME trans' = [x EXCEPT ![t].walking = @ \cup {c}]
          PROVE  Desc(trans', call, file, server, rn)
      <3>1. "walk" \in {"walk", "run"}
        OBVIOUS
      <3>2. trans' = IF "walk" = "walk" THEN [x EXCEPT ![t].walking = @ \cup {c}]
                                        ELSE [x EXCEPT ![t].running = @ \cup {c}]
        BY <2>2, Zenon
      <3>3. trans' \in [Transports -> TransportRec] /\ Takes(x, trans', "walk", c)
        BY <1>2, <1>3, <3>1, <3>2, TakesUp, Zenon
      <3> QED  BY <1>3, <1>6, <1>8, <1>12, <3>1, <3>3, ServeKeeps, Zenon
    <2>3. ASSUME trans' = protocol_server_reply(x, t, a)
          PROVE  Desc(trans', call, file, server, rn)
      <3>1. a.status # "ok"
        BY <1>11, Zenon
      <3> QED  BY <1>3, <1>6, <1>11, <1>12, <2>3, <3>1, ReplyKeeps, Zenon
    <2> QED  BY <2>1, <2>2, <2>3, Zenon
  <1>13. CASE "fd" \in gf_fops[call[c].op].needs
    <2>1. ran' = [ran EXCEPT ![c] = r] /\ r \in RanRec
      BY <1>1, <1>9, <1>10, <1>13, Zenon
    <2>2. Desc(x, call, file, server, ran') /\ ran'[c] = r
      <3>1. Desc(x, call, file, server, ran) /\ c \in Calls /\ Nowhere(x, c)
        BY <1>2, <1>3, <1>6, Zenon
      <3>2. call[c].status \in {"out", "notconn"}
        BY <1>6, Zenon
      <3>3. r \in RanRec
        BY <2>1, Zenon
      <3>4. ran' = Ran(ran, c, r)
        BY <2>1, Zenon DEF Ran
      <3>5. Desc(x, call, file, server, Ran(ran, c, r))
        BY <3>1, <3>2, <3>3, RanKeeps, Zenon
      <3>6. Ran(ran, c, r)[c] = r
        <4>1. ran \in [Calls -> RanRec]
          BY <3>1, Zenon DEF Desc, Types
        <4> QED  BY <3>1, <4>1, Zenon DEF Ran
      <3> QED  BY <3>4, <3>5, <3>6, Zenon
    <2>3. Uses(call, c) /\ call[c].status = "out" /\ Whole(server) => ran'[c].fd = call[c].fd
      BY <1>10, <2>2, Zenon
    <2>4. \/ trans' = protocol_server_reply(x, t, a)
          \/ trans' = [x EXCEPT ![t].running = @ \cup {c}]
      BY <1>1, <1>13, Zenon
    <2>5. Desc(trans', call, file, server, ran')
      BY <1>12, <2>2, <2>3, <2>4, Zenon
    <2> QED  BY <1>1, <2>5, Zenon DEF D
  <1>14. CASE "fd" \notin gf_fops[call[c].op].needs
    <2>1. ~Uses(call, c)
      BY <1>9, <1>14, Zenon
    <2>2. Desc(trans', call, file, server, ran)
      BY <1>1, <1>2, <1>12, <1>14, <2>1, Zenon
    <2> QED  BY <1>1, <1>14, <2>2, Zenon DEF D
  <1> QED  BY <1>13, <1>14, Zenon

\* The server has done with a walk or a call: what is known of the call.
LEMMA LetGo ==
    ASSUME D, NEW t \in Transports, NEW k \in {"walk", "run"}, NEW c \in Set(trans, k, t), NEW x,
           x = IF k = "walk" THEN [trans EXCEPT ![t].walking = @ \ {c}]
                             ELSE [trans EXCEPT ![t].running = @ \ {c}]
    PROVE  /\ x \in [Transports -> TransportRec] /\ Desc(x, call, file, server, ran)
           /\ c \in Calls /\ Nowhere(x, c) /\ call[c].status \in {"out", "notconn"}
           /\ call[c].op \in Fops
           /\ Opens(call, c) => \A s \in Slots : server.fds[s] # call[c].fd
           /\ Uses(call, c) /\ call[c].status = "out" /\ Whole(server) => ran[c].fd = call[c].fd
  <1>0. /\ trans \in [Transports -> TransportRec] /\ OnePlace(trans, call) /\ Users(call, file)
        /\ Table(trans, call, file, server.fds)
    BY Zenon DEF D, Desc, Types
  <1>1. x \in [Transports -> TransportRec] /\ Fewer(trans, x) /\ c \notin Set(x, k, t)
    BY <1>0, LetsGo, Zenon
  <1>2. Desc(x, call, file, server, ran)
    BY <1>1, FewerKeeps, Zenon DEF D
  <1>3. Nowhere(x, c)
    BY <1>0, <1>1, DropsCall, Zenon
  <1>4. In(trans, k, t, 0, c) /\ k # "rep" /\ k # "req"
    BY Zenon DEF In
  <1>5. c \in Calls /\ call[c].status \in {"out", "notconn"}
    BY <1>0, <1>4, Zenon DEF OnePlace, Nowhere
  <1>6. Pending(trans, c)
    BY <1>4, Zenon DEF Pending
  <1>7. call[c].op \in Fops
    <2>1. call[c].status # "idle"
      BY <1>5, Zenon
    <2> QED  BY <1>0, <1>5, <2>1, Zenon DEF Users
  <1>8. Opens(call, c) => \A s \in Slots : server.fds[s] # call[c].fd
    BY <1>0, <1>6, Zenon DEF Table
  <1>9. ASSUME Uses(call, c), call[c].status = "out", Whole(server)
        PROVE  ran[c].fd = call[c].fd
    <2>1. RunsTrue(trans, call, ran)
      BY <1>9, Zenon DEF D, Desc, SlotsTrue
    <2> QED  BY <1>4, <1>9, <2>1, Zenon DEF RunsTrue
  <1> QED  BY <1>1, <1>2, <1>3, <1>5, <1>7, <1>8, <1>9, Zenon

\* A walk is over (server_stub_resume).
LEMMA ResumeStep ==
    ASSUME D, NEW t \in Transports, NEW c \in Calls, NEW found, server_stub_resume(t, c, found)
    PROVE  D'
  <1> DEFINE x == [trans EXCEPT ![t].walking = @ \ {c}]  a == Reply(c, "error", 0)
  <1>1. /\ \/ trans' = [x EXCEPT ![t].running = @ \cup {c}]
           \/ trans' = protocol_server_reply(x, t, a)
        /\ server' = server_connection_put(trans', server)
        /\ call' = call /\ file' = file /\ ran' = ran /\ c \in trans[t].walking
    BY Zenon DEF server_stub_resume
  <1>2. "walk" \in {"walk", "run"} /\ c \in Set(trans, "walk", t)
    BY <1>1, Zenon DEF Set
  <1>3. x = IF "walk" = "walk" THEN [trans EXCEPT ![t].walking = @ \ {c}]
                               ELSE [trans EXCEPT ![t].running = @ \ {c}]
    OBVIOUS
  <1>4. a \in Replies /\ a.kind = "reply" /\ a.c = c /\ a.status # "ok"
    <2>1. server \in ServerRec
      BY Zenon DEF D, Desc, Types, ServerRec
    <2> QED  BY <2>1, Zenon DEF Reply, Replies, ServerRec
  <1> HIDE DEF x, a
  <1>5. /\ x \in [Transports -> TransportRec] /\ Desc(x, call, file, server, ran)
        /\ Nowhere(x, c) /\ call[c].status \in {"out", "notconn"}
        /\ Opens(call, c) => \A s \in Slots : server.fds[s] # call[c].fd
        /\ Uses(call, c) /\ call[c].status = "out" /\ Whole(server) => ran[c].fd = call[c].fd
    BY <1>2, <1>3, LetGo, Zenon
  <1>6. Desc(trans', call, file, server, ran)
    <2>1. ASSUME trans' = [x EXCEPT ![t].running = @ \cup {c}]
          PROVE  Desc(trans', call, file, server, ran)
      <3>1. "run" \in {"walk", "run"} /\ "run" # "walk"
        OBVIOUS
      <3>2. trans' = IF "run" = "walk" THEN [x EXCEPT ![t].walking = @ \cup {c}]
                                       ELSE [x EXCEPT ![t].running = @ \cup {c}]
        BY <2>1, <3>1, Zenon
      <3>3. trans' \in [Transports -> TransportRec] /\ Takes(x, trans', "run", c)
        BY <1>5, <3>1, <3>2, TakesUp, Zenon
      <3> QED  BY <1>5, <3>1, <3>3, ServeKeeps, Zenon
    <2>2. ASSUME trans' = protocol_server_reply(x, t, a)
          PROVE  Desc(trans', call, file, server, ran)
      BY <1>4, <1>5, <2>2, ReplyKeeps, Zenon
    <2> QED  BY <1>1, <2>1, <2>2, Zenon
  <1>7. Desc(trans', call, file, server_connection_put(trans', server), ran)
    BY <1>6, PutKeeps, Zenon
  <1> QED  BY <1>1, <1>7, Zenon DEF D

\* The exported volume has answered (server_<fop>_cbk).
LEMMA CbkStep ==
    ASSUME SlotToSpare, D, NEW t \in Transports, NEW c \in Calls, NEW ok \in BOOLEAN, server_cbk(t, c, ok)
    PROVE  D'
  <1> DEFINE x == [trans EXCEPT ![t].running = @ \ {c}]
             opens == ok /\ "fd" \in gf_fops[call[c].op].done
             s0 == gf_fd_unused_get(server.fds)
             slot == IF opens THEN s0 ELSE 0
             st == IF ok THEN "ok" ELSE "error"
             a == Reply(c, st, slot)
             sv == IF opens THEN [server EXCEPT !.fds[slot] = call[c].fd] ELSE server
  <1>1. /\ trans' = protocol_server_reply(x, t, a)
        /\ server' = server_connection_put(trans', sv)
        /\ call' = call /\ file' = file /\ ran' = ran /\ c \in trans[t].running
    BY Zenon DEF server_cbk
  <1>2. "run" \in {"walk", "run"} /\ c \in Set(trans, "run", t)
    BY <1>1, Zenon DEF Set
  <1>3. x = IF "run" = "walk" THEN [trans EXCEPT ![t].walking = @ \ {c}]
                              ELSE [trans EXCEPT ![t].running = @ \ {c}]
    OBVIOUS
  <1>4. server \in ServerRec
    BY Zenon DEF D, Desc, Types, ServerRec
  <1> HIDE DEF x, s0
  <1>5. /\ x \in [Transports -> TransportRec] /\ Desc(x, call, file, server, ran)
        /\ Nowhere(x, c) /\ call[c].status \in {"out", "notconn"} /\ call[c].op \in Fops
        /\ Opens(call, c) => \A s \in Slots : server.fds[s] # call[c].fd
        /\ Uses(call, c) /\ call[c].status = "out" /\ Whole(server) => ran[c].fd = call[c].fd
    BY <1>2, <1>3, LetGo, Zenon
  <1>6. Opens(call, c) <=> "fd" \in gf_fops[call[c].op].done
    <2>1. ("fd" \in gf_fops[call[c].op].learns) = ("fd" \in gf_fops[call[c].op].done)
      BY <1>5, EndsAgree, Zenon DEF EndsAgree
    <2>2. Opens(call, c) <=> "fd" \in gf_fops[call[c].op].learns
      BY <1>5, Zenon DEF Opens
    <2> QED  BY <2>1, <2>2, Zenon
  <1>7. CASE opens
    <2>1. Opens(call, c) /\ ok /\ slot = s0 /\ st = "ok"
      BY <1>6, <1>7, Zenon
    <2>2. sv = [server EXCEPT !.fds[s0] = call[c].fd] /\ s0 = gf_fd_unused_get(server.fds)
      <3> HIDE DEF slot
      <3>1. sv = [server EXCEPT !.fds[slot] = call[c].fd]
        BY <1>7, Zenon
      <3>2. s0 = gf_fd_unused_get(server.fds)
        BY Zenon DEF s0
      <3> HIDE DEF sv
      <3> QED  BY <2>1, <3>1, <3>2, Zenon
    <2> HIDE DEF sv, slot
    <2>3. Desc(x, call, file, sv, ran) /\ s0 \in Slots /\ sv.fds[s0] = call[c].fd
      <3>1. \A s \in Slots : server.fds[s] # call[c].fd
        BY <1>5, <2>1, Zenon
      <3>2. Desc(x, call, file, server, ran) /\ Nowhere(x, c) /\ Opens(call, c)
        BY <1>5, <2>1, Zenon
      <3>3. Desc(x, call, file, sv, ran)
        BY <2>2, <3>1, <3>2, InstallKeeps, Zenon
      <3>4. s0 \in Slots
        BY <2>2, <3>1, <3>2, InstallKeeps, ZenonT(30)
      <3>5. sv.fds[s0] = call[c].fd
        <4>1. server.fds \in [Slots -> Fds \cup {NoFd}]
          BY <1>4, Zenon DEF ServerRec, Tables
        <4> QED  BY <1>4, <2>2, <3>4, <4>1, Zenon DEF ServerRec
      <3> QED  BY <3>3, <3>4, <3>5, Zenon
    <2>4. a \in Replies /\ a.kind = "reply" /\ a.c = c /\ a.slot = s0
      BY <1>4, <2>1, <2>3, Zenon DEF Reply, Replies, ServerRec
    <2>5. sv.gen = server.gen /\ sv.last = server.last
      BY <1>4, <2>2, Zenon DEF ServerRec
    <2>6. Uses(call, c) /\ call[c].status = "out" /\ Whole(sv) => ran[c].fd = call[c].fd
      BY <1>5, <2>5, Zenon DEF Whole
    <2>7. a.slot # 0 /\ sv.fds[a.slot] = call[c].fd
      BY <2>3, <2>4 DEF Slots
    <2> HIDE DEF a
    <2>8. Desc(trans', call, file, sv, ran)
      BY <1>1, <1>5, <2>3, <2>4, <2>6, <2>7, ReplyKeeps, Zenon
    <2>9. Desc(trans', call, file, server_connection_put(trans', sv), ran)
      BY <2>8, PutKeeps, Zenon
    <2> QED  BY <1>1, <2>9, Zenon DEF D
  <1>8. CASE ~opens
    <2>1. slot = 0 /\ sv = server
      BY <1>8, Zenon
    <2>2. a \in Replies /\ a.kind = "reply" /\ a.c = c /\ a.status = st
      BY <1>4, <2>1, Zenon DEF Reply, Replies, ServerRec
    <2>3. st = "ok" => ok
      OBVIOUS
    <2>4. ~(a.status = "ok" /\ Opens(call, c))
      BY <1>6, <1>8, <2>2, <2>3, Zenon
    <2> HIDE DEF sv, slot, a, st
    <2>5. Desc(trans', call, file, server, ran)
      BY <1>1, <1>5, <2>2, <2>4, ReplyKeeps, Zenon
    <2>6. Desc(trans', call, file, server_connection_put(trans', server), ran)
      BY <2>5, PutKeeps, Zenon
    <2> QED  BY <1>1, <2>1, <2>6, Zenon DEF D
  <1> QED  BY <1>7, <1>8, Zenon

\* A call is answered (client_<fop>_cbk): by a reply, or with ENOTCONN.
LEMMA AnsweredKeeps ==
    ASSUME NEW tr, NEW cl, NEW fl, NEW sv, NEW rn, Desc(tr, cl, fl, sv, rn), NEW c \in Calls,
           cl[c].status = "out", NEW st \in {"ok", "error", "notconn"}, NEW slot \in {0} \cup Slots,
           NEW gen \in Nat, Answered(cl, fl, c, st, slot, gen),
           st # "notconn" => Nowhere(tr, c),
           st = "ok" /\ Opens(cl, c) /\ Whole(sv) => slot # 0 /\ sv.fds[slot] = cl[c].fd,
           st # "notconn" /\ Whole(sv) /\ Uses(cl, c) => rn[c].fd = cl[c].fd
    PROVE  Desc(tr, call', file', sv, rn)
  <1>0. /\ cl \in [Calls -> CallRec] /\ fl \in [Fds -> FileRec] /\ Openers(cl, fl) /\ Users(cl, fl)
    BY Zenon DEF Desc, Types
  <1>1. call' = [cl EXCEPT ![c].status = st]
    BY Zenon DEF Answered
  <1>2. AnswersCalls(cl, call', {c}, st)
    <2>1. st \in Answers
      BY Zenon DEF Answers
    <2>2. call' \in [Calls -> CallRec]
      BY <1>0, <1>1, <2>1 DEF CallRec
    <2> QED  BY <1>0, <1>1, <2>2 DEF AnswersCalls, CallRec
  <1>3. Opens(cl, c) <=> "fd" \in gf_fops[cl[c].op].learns
    BY Zenon DEF Opens
  <1>4. /\ file' \in [Fds -> FileRec]
        /\ \A f \in Fds : file'[f] = fl[f] \/ AnswersFile(cl, fl, file', sv, {c}, f)
        /\ Opens(cl, c) => file'[cl[c].fd].state = "open"
    <2>1. CASE ~Opens(cl, c)
      <3>1. file' = fl
        BY <1>3, <2>1, Zenon DEF Answered
      <3> QED  BY <1>0, <2>1, <3>1, Zenon
    <2>2. CASE Opens(cl, c)
      <3> DEFINE r == [state |-> "open", slot |-> IF st = "ok" THEN slot ELSE 0,
                       gen |-> IF st = "ok" THEN gen ELSE 0]
                 x == cl[c].fd
      <3>1. file' = [fl EXCEPT ![x] = r]
        BY <1>3, <2>2, Zenon DEF Answered
      <3>2. x \in Fds /\ fl[x].state = "opening"
        BY <1>0, <2>2, Zenon DEF Openers
      <3>3. r \in FileRec /\ r.state = "open"
        BY Zenon DEF FileRec
      <3>4. r.slot # 0 => st = "ok" /\ r.slot = slot
        OBVIOUS
      <3> HIDE DEF r, x
      <3>5. file' \in [Fds -> FileRec] /\ file'[x] = r /\ \A f \in Fds : f # x => file'[f] = fl[f]
        BY <1>0, <3>1, <3>2, <3>3, Zenon
      <3>6. file'[x].slot # 0 /\ Whole(sv) => sv.fds[file'[x].slot] = x
        <4>1. ASSUME r.slot # 0, Whole(sv)  PROVE sv.fds[slot] = x
          BY <2>2, <3>4, <4>1, Zenon DEF x
        <4> QED  BY <3>4, <3>5, <4>1, Zenon
      <3>7. \E d \in {c} : Opens(cl, d) /\ cl[d].fd = x
        BY <2>2, Zenon DEF x
      <3>8. AnswersFile(cl, fl, file', sv, {c}, x)
        BY <3>2, <3>3, <3>5, <3>6, <3>7, Zenon DEF AnswersFile
      <3>9. file'[cl[c].fd].state = "open"
        BY <3>3, <3>5, Zenon DEF x
      <3> QED  BY <3>5, <3>8, <3>9, Zenon
    <2> QED  BY <2>1, <2>2, Zenon
  <1>5. {c} \in SUBSET Calls /\ \A d \in {c} : d = c
    OBVIOUS
  <1>6. /\ \A d \in {c} : Opens(cl, d) => file'[cl[d].fd].state = "open"
        /\ st # "notconn" => \A d \in {c} : Nowhere(tr, d)
        /\ st # "notconn" /\ Whole(sv) => \A d \in {c} : Uses(cl, d) => rn[d].fd = cl[d].fd
    BY <1>4, <1>5, Zenon
  <1> QED  BY <1>2, <1>4, <1>5, <1>6, AnswersKeep, Zenon

\* What protocol_client_pollin does to the calls depends on the reply: it answers the
\* call whose frame is saved, and does nothing otherwise (lookup_frame).
LEMMA PollinCases ==
    ASSUME SavedOut, NEW ch \in Channels, protocol_client_pollin(ch)
    PROVE  LET m == Head(trans[conn[ch].trans].rep)
           IN  \/ call' = call /\ file' = file
               \/ /\ m.kind # "setvolume" /\ m.kind = "reply" /\ m.c \in Calls
                  /\ call[m.c].status = "out"
                  /\ Answered(call, file, m.c, m.status, m.slot, m.gen)
  <1> DEFINE m == Head(trans[conn[ch].trans].rep)
  <1>1. CASE m.kind # "setvolume" /\ m.kind = "reply" /\ m.c \in saved[ch]
    <2>1. Answered(call, file, m.c, m.status, m.slot, m.gen)
      BY <1>1, Zenon DEF protocol_client_pollin
    <2>2. m.c \in Calls /\ call[m.c].status = "out"
      BY <1>1, Zenon DEF SavedOut
    <2> QED  BY <1>1, <2>1, <2>2, Zenon
  <1>2. CASE ~(m.kind # "setvolume" /\ m.kind = "reply" /\ m.c \in saved[ch])
    <2>1. call' = call /\ file' = file
      BY <1>2, Zenon DEF protocol_client_pollin
    <2> QED  BY <2>1, Zenon
  <1> QED  BY <1>1, <1>2, Zenon

\* A reply comes in (protocol_client_pollin).
LEMMA PollinStep ==
    ASSUME D, Conns, SavedOut, NEW ch \in Channels, protocol_client_pollin(ch)
    PROVE  D'
  <1> DEFINE t == conn[ch].trans  m == Head(trans[conn[ch].trans].rep)
  <1>0. /\ trans \in [Transports -> TransportRec] /\ OnePlace(trans, call)
        /\ server' = server /\ ran' = ran
    BY Zenon DEF D, Desc, Types, protocol_client_pollin
  <1>1. /\ t \in Transports /\ trans[t].rep # <<>>
        /\ trans' = [trans EXCEPT ![t].rep = Tail(@)]
    BY Zenon DEF Conns, protocol_client_pollin
  <1>2. trans' \in [Transports -> TransportRec] /\ Pops(trans, trans', "rep", t)
        /\ (m.kind # "setvolume" => Has(trans, "rep", t, 1, m))
    <2>1. Queue(trans, "rep", t) = trans[t].rep /\ "rep" \in {"req", "rep"} /\ "rep" # "req"
      BY Zenon DEF Queue
    <2>2. m = Head(trans[t].rep)
      BY Zenon
    <2> HIDE DEF m, t
    <2>3. trans' = IF "rep" = "req" THEN [trans EXCEPT ![t].req = Tail(@)]
                                    ELSE [trans EXCEPT ![t].rep = Tail(@)]
      BY <1>1, <2>1, Zenon
    <2>4. /\ trans' \in [Transports -> TransportRec] /\ Pops(trans, trans', "rep", t)
          /\ Head(Queue(trans, "rep", t)).kind # "setvolume" =>
                Has(trans, "rep", t, 1, Head(Queue(trans, "rep", t)))
      BY <1>0, <1>1, <2>1, <2>3, TailPops, Zenon
    <2> QED  BY <2>1, <2>2, <2>4, Zenon
  <1>3. Fewer(trans, trans')
    BY <1>2, Zenon DEF Pops
  <1>a. \/ call' = call /\ file' = file
        \/ /\ m.kind # "setvolume" /\ m.kind = "reply" /\ m.c \in Calls
           /\ call[m.c].status = "out" /\ Answered(call, file, m.c, m.status, m.slot, m.gen)
    <2>1. m = Head(trans[conn[ch].trans].rep)
      OBVIOUS
    <2> HIDE DEF m
    <2> QED  BY <2>1, PollinCases, Zenon
  <1> HIDE DEF m, t
  <1>4. CASE call' = call /\ file' = file
    BY <1>0, <1>2, <1>3, <1>4, QuietStep, Zenon
  <1>5. CASE /\ m.kind # "setvolume" /\ m.kind = "reply" /\ m.c \in Calls
             /\ call[m.c].status = "out" /\ Answered(call, file, m.c, m.status, m.slot, m.gen)
    <2>1. Answered(call, file, m.c, m.status, m.slot, m.gen)
      BY <1>5, Zenon
    <2>2. m.c \in Calls /\ call[m.c].status = "out"
      BY <1>5, Zenon
    <2>3. Has(trans, "rep", t, 1, m)
      BY <1>2, <1>5, Zenon
    <2>4. m \in Replies /\ In(trans, "rep", t, 1, m.c)
      BY <1>0, <2>3, MessageTyped, Zenon
    <2>5. m.status \in {"ok", "error"} /\ m.slot \in {0} \cup Slots /\ m.gen \in Nat
      BY <1>5, <2>4, Zenon DEF Replies
    <2>6. m.kind \in {"fop", "reply"} /\ m.status \in {"ok", "error", "notconn"}
      BY <1>5, <2>5, Zenon
    <2>7. Nowhere(trans', m.c)
      BY <1>0, <1>2, <2>3, <2>6, PopsCall, Zenon
    <2>8. Desc(trans', call, file, server, ran)
      BY <1>2, <1>3, FewerKeeps, Zenon DEF D
    <2>9. ASSUME Whole(server)
          PROVE  /\ m.status = "ok" /\ Opens(call, m.c) =>
                       m.slot # 0 /\ server.fds[m.slot] = call[m.c].fd
                 /\ Uses(call, m.c) => ran[m.c].fd = call[m.c].fd
      <3>1. RepliesTrue(trans, call, server.fds) /\ RunsTrue(trans, call, ran)
        BY <2>9, Zenon DEF D, Desc, SlotsTrue
      <3>2. "rep" # "req"
        OBVIOUS
      <3>3. Uses(call, m.c) => ran[m.c].fd = call[m.c].fd
        BY <2>2, <2>4, <3>1, <3>2, Zenon DEF RunsTrue
      <3>4. m.status = "ok" /\ Opens(call, m.c) =>
               m.slot # 0 /\ server.fds[m.slot] = call[m.c].fd
        BY <2>2, <2>3, <3>1, Zenon DEF RepliesTrue
      <3> QED  BY <3>3, <3>4, Zenon
    <2>10. Desc(trans', call', file', server, ran)
      BY <2>1, <2>2, <2>5, <2>6, <2>7, <2>8, <2>9, AnsweredKeeps, Zenon
    <2> QED  BY <1>0, <2>10, Zenon DEF D
  <1> QED  BY <1>a, <1>4, <1>5, Zenon

\* A lost channel is cleaned up (protocol_client_cleanup).
LEMMA CleanupStep ==
    ASSUME D, Conns, SavedOut, NEW ch \in Channels, protocol_client_cleanup(ch)
    PROVE  D'
  <1> DEFINE t == conn[ch].trans  S == saved[ch]  x == [trans EXCEPT ![t].client = "gone"]
  <1>0. /\ trans \in [Transports -> TransportRec] /\ call \in [Calls -> CallRec]
        /\ file \in [Fds -> FileRec] /\ Openers(call, file) /\ Users(call, file)
    BY Zenon DEF D, Desc, Types
  <1>1. /\ t \in Transports /\ server' = server /\ ran' = ran
        /\ trans' = [trans EXCEPT ![t].client = "gone", ![t].rep = <<>>]
    BY Zenon DEF Conns, protocol_client_cleanup
  <1>2. /\ call' = [c \in Calls |-> IF c \in S THEN [call[c] EXCEPT !.status = "notconn"] ELSE call[c]]
        /\ file' = [f \in Fds |->
                       IF \E c \in S : call[c].fd = f /\ file[f].state = "opening"
                         THEN [file[f] EXCEPT !.state = "open"] ELSE file[f]]
    BY Zenon DEF protocol_client_cleanup, saved_frames_unwind
  <1>3. S \in SUBSET Calls /\ \A c \in S : call[c].status = "out"
    BY Zenon DEF SavedOut
  <1> HIDE DEF t, S
  <1>4. Desc(trans', call, file, server, ran)
    <2>1. trans' = [x EXCEPT ![t].rep = <<>>]
      BY <1>0, <1>1, Zenon
    <2>2. "gone" \in {"open", "broken", "shut", "gone"} /\ <<>> \in Seq(Replies)
      OBVIOUS
    <2>3. x \in [Transports -> TransportRec] /\ Fewer(trans, x)
      BY <1>0, <1>1, <2>2, RecordTyped, FieldFewer, Zenon
    <2>4. Desc(x, call, file, server, ran)
      BY <2>3, FewerKeeps, Zenon DEF D
    <2> HIDE DEF x
    <2>5. trans' \in [Transports -> TransportRec] /\ Fewer(x, trans')
      <3>1. /\ [x EXCEPT ![t].rep = <<>>] \in [Transports -> TransportRec]
            /\ Fewer(x, [x EXCEPT ![t].rep = <<>>])
        BY <1>1, <2>2, <2>3, RecordTyped, FieldFewer, Zenon
      <3> QED  BY <2>1, <3>1, Zenon
    <2> QED  BY <2>4, <2>5, FewerKeeps, Zenon
  <1>5. AnswersCalls(call, call', S, "notconn")
    <2>1. "notconn" \in Answers
      BY Zenon DEF Answers
    <2>2. call' \in [Calls -> CallRec]
      BY <1>0, <1>2, <2>1 DEF CallRec
    <2> QED  BY <1>0, <1>2, <1>3, <2>2, Zenon DEF AnswersCalls, CallRec
  <1>6. /\ file' \in [Fds -> FileRec]
        /\ \A f \in Fds : file'[f].slot = file[f].slot
        /\ \A f \in Fds : \/ file'[f] = file[f]
                          \/ /\ file[f].state = "opening" /\ file'[f].state = "open"
                             /\ \E c \in S : call[c].fd = f
        /\ \A f \in Fds : file[f].state = "opening" /\ (\E c \in S : call[c].fd = f) =>
              file'[f].state = "open"
    BY <1>0, <1>2 DEF FileRec
  <1>7. ASSUME NEW f \in Fds
        PROVE  file'[f] = file[f] \/ AnswersFile(call, file, file', server, S, f)
    <2>1. CASE file'[f] # file[f]
      <3>1. file[f].state = "opening" /\ file'[f].state = "open" /\ file[f].state # "open"
        BY <1>6, <2>1, Zenon
      <3>2. PICK c \in S : call[c].fd = f
        BY <1>6, <2>1, Zenon
      <3>3. Opens(call, c)
        BY <1>0, <1>3, <3>1, <3>2, Zenon DEF Users
      <3>4. file'[f].slot = 0
        BY <1>0, <1>6, <3>1 DEF Openers
      <3> QED  BY <3>1, <3>2, <3>3, <3>4, Zenon DEF AnswersFile
    <2> QED  BY <2>1, Zenon
  <1>8. \A c \in S : Opens(call, c) => file'[call[c].fd].state = "open"
    <2> SUFFICES ASSUME NEW c \in S, Opens(call, c)  PROVE file'[call[c].fd].state = "open"
      BY Zenon
    <2>1. call[c].fd \in Fds /\ file[call[c].fd].state = "opening"
      BY <1>0, <1>3, Zenon DEF Openers
    <2> QED  BY <1>6, <2>1, Zenon
  <1>9. "notconn" \in {"ok", "error", "notconn"}
    OBVIOUS
  <1>10. Desc(trans', call', file', server, ran)
    <2>1. S \in SUBSET Calls /\ file' \in [Fds -> FileRec]
      BY <1>3, <1>6, Zenon
    <2>2. /\ "notconn" # "notconn" => \A c \in S : Nowhere(trans', c)
          /\ "notconn" # "notconn" /\ Whole(server) =>
                \A c \in S : Uses(call, c) => ran[c].fd = call[c].fd
      OBVIOUS
    <2> QED  BY <1>4, <1>5, <1>7, <1>8, <1>9, <2>1, <2>2, AnswersKeep, Zenon
  <1> QED  BY <1>1, <1>10, Zenon DEF D

\* A new call goes out, or is answered on the spot (protocol_client_xfer).
LEMMA XferKeeps ==
    ASSUME Conns, NEW cl, NEW fl, Desc(trans, cl, fl, server, ran), NEW c \in Calls,
           cl[c].status = "out", cl[c].op \in Fops, Nowhere(trans, c),
           Opens(cl, c) => \A s \in Slots : server.fds[s] # cl[c].fd,
           protocol_client_xfer(cl, fl, c)
    PROVE  Desc(trans', call', file', server, ran)
  <1> DEFINE ch == gf_fops[cl[c].op].channel  t == conn[ch].trans
             m == [kind |-> "fop", c |-> c, slot |-> cl[c].slot]
  <1>0. trans \in [Transports -> TransportRec] /\ cl \in [Calls -> CallRec]
    BY Zenon DEF Desc, Types
  <1>1. CASE conn[ch].connected /\ CanSubmit(t)
    <2>1. trans' = socket_submit(trans, t, "client", m) /\ call' = cl /\ file' = fl
      BY <1>1, Zenon DEF protocol_client_xfer
    <2>2. t \in Transports
      <3>1. ch \in Channels
        BY EndsAgree, Zenon DEF EndsAgree, Channels
      <3>2. t # 0
        BY <1>1, Zenon DEF CanSubmit
      <3> QED  BY <3>1, <3>2, Zenon DEF Conns
    <2>3. m \in Requests /\ m.kind = "fop" /\ m.c = c /\ m.slot = cl[c].slot
      BY <1>0, Zenon DEF Requests, CallRec
    <2> HIDE DEF m, t, ch
    <2>4. trans' \in [Transports -> TransportRec] /\ Posts(trans, trans', "req", m)
      <3>1. "client" \in {"client", "server"} /\ "req" = (IF "client" = "client" THEN "req" ELSE "rep")
        OBVIOUS
      <3>2. /\ "req" = "req" => m \in Requests
            /\ "req" = "rep" => m \in Replies
        BY <2>3, Zenon
      <3>3. /\ socket_submit(trans, t, "client", m) \in [Transports -> TransportRec]
            /\ Posts(trans, socket_submit(trans, t, "client", m), "req", m)
        BY <1>0, <2>2, <3>1, <3>2, SubmitPosts, Zenon
      <3> QED  BY <2>1, <3>3, Zenon
    <2>5. m.kind \in {"fop", "reply"} /\ "req" # "rep" /\ cl[c].status \in {"out", "notconn"}
      BY <2>3, Zenon
    <2>6. \E m0 : /\ Posts(trans, trans', "req", m0) /\ m0.kind \in {"fop", "reply"} /\ m0.c = c
                  /\ "req" = "req" => m0.slot = cl[c].slot
                  /\ "req" = "rep" /\ m0.status = "ok" /\ Opens(cl, c) /\ Whole(server) =>
                        m0.slot # 0 /\ server.fds[m0.slot] = cl[c].fd
      BY <2>3, <2>4, <2>5, Zenon
    <2>7. Desc(trans', cl, fl, server, ran)
      BY <2>4, <2>5, <2>6, AddKeeps, Zenon
    <2> QED  BY <2>1, <2>7, Zenon
  <1>2. CASE ~(conn[ch].connected /\ CanSubmit(t))
    <2>1. trans' = trans /\ Answered(cl, fl, c, "notconn", 0, 0)
      BY <1>2, Zenon DEF protocol_client_xfer
    <2>2. /\ "notconn" \in {"ok", "error", "notconn"} /\ 0 \in {0} \cup Slots /\ 0 \in Nat
          /\ "notconn" # "ok"
      OBVIOUS
    <2>3. Desc(trans, call', file', server, ran)
      BY <2>1, <2>2, AnsweredKeeps, Zenon
    <2> QED  BY <2>1, <2>3, Zenon
  <1> QED  BY <1>1, <1>2, Zenon

\* A fop on a path is called.
LEMMA CallPathStep ==
    ASSUME D, Conns, mix \in Mixes, NEW c \in Calls, NEW op \in mix.ops, CallPath(c, op)
    PROVE  D'
  <1>0. /\ call \in [Calls -> CallRec] /\ file \in [Fds -> FileRec]
        /\ server' = server /\ ran' = ran /\ op \in Fops
    <2>1. call \in [Calls -> CallRec] /\ file \in [Fds -> FileRec]
      BY Zenon DEF D, Desc, Types
    <2>2. server' = server /\ ran' = ran
      BY Zenon DEF CallPath
    <2> QED  BY <2>1, <2>2, ConstantsAssumption, Zenon DEF ConstantsAssumption
  <1>1. call[c].status = "idle" /\ "fd" \notin gf_fops[op].sends
    BY DEF CallPath, NewCall, NoCall
  <1>2. ASSUME NEW f \in Fds \cup {NoFd}, NEW fl, fl \in [Fds -> FileRec],
               protocol_client_xfer(Made(c, op, f, 0, 0), fl, c),
               IF "fd" \in gf_fops[op].learns
                 THEN f \in Fds /\ file[f].state = "free" /\ fl = [file EXCEPT ![f].state = "opening"]
                 ELSE f = NoFd /\ fl = file
        PROVE  D'
    <2> DEFINE r == [op |-> op, fd |-> f, slot |-> 0, gen |-> 0, status |-> "out"]
               cl == Made(c, op, f, 0, 0)
    <2>1. cl = [call EXCEPT ![c] = r]
      BY Zenon DEF Made
    <2>2. r \in CallRec /\ r.op = op /\ r.fd = f /\ r.status = "out"
      BY <1>0, Zenon DEF CallRec
    <2>3. /\ "fd" \in gf_fops[op].learns => f \in Fds /\ file[f].state = "free" /\ fl[f].state = "opening"
          /\ f \in Fds => "fd" \in gf_fops[op].learns
          /\ \A g \in Fds : \/ fl[g] = file[g]
                            \/ /\ file[g].state = "free" /\ fl[g].state = "opening"
                               /\ fl[g].slot = file[g].slot /\ g = f
      <3>1. CASE "fd" \in gf_fops[op].learns
        BY <1>0, <1>2, <3>1 DEF FileRec
      <3>2. CASE "fd" \notin gf_fops[op].learns
        BY <1>2, <3>2, ConstantsAssumption, Zenon DEF ConstantsAssumption
      <3> QED  BY <3>1, <3>2, Zenon
    <2> HIDE DEF r, cl
    <2>4. Fresh(r, file, fl)
      <3>1. r.status \in {"out", "badfd"}
        BY <2>2, Zenon
      <3> QED  BY <1>0, <1>1, <1>2, <2>2, <2>3, <3>1, Zenon DEF Fresh
    <2>5. /\ Desc(trans, cl, fl, server, ran) /\ Nowhere(trans, c)
          /\ Opens(cl, c) => \A s \in Slots : server.fds[s] # r.fd
      <3>1. Desc(trans, call, file, server, ran) /\ call[c].status = "idle"
        BY <1>1, Zenon DEF D
      <3>2. Desc(trans, cl, fl, server, ran)
        BY <2>1, <2>4, <3>1, FreshKeeps, Zenon
      <3>a. OnePlace(trans, call) /\ Table(trans, call, file, server.fds)
        BY <3>1, Zenon DEF Desc
      <3>3. Nowhere(trans, c)
        BY <3>1, <3>a, Zenon DEF OnePlace
      <3>4. ASSUME Opens(cl, c), NEW s \in Slots  PROVE server.fds[s] # r.fd
        <4>1. cl[c] = r
          BY <1>0, <2>1, Zenon
        <4>2. "fd" \in gf_fops[op].learns
          BY <2>2, <3>4, <4>1, Zenon DEF Opens
        <4>3. f \in Fds /\ file[f].state = "free"
          BY <2>3, <4>2, Zenon
        <4> QED  BY <2>2, <3>a, <4>3, Zenon DEF Table
      <3> QED  BY <3>2, <3>3, <3>4, Zenon
    <2>6. cl[c] = r
      BY <1>0, <2>1, Zenon
    <2>7. cl[c].status = "out" /\ cl[c].op \in Fops /\ cl[c].fd = r.fd
      BY <1>0, <2>2, <2>6, Zenon
    <2>8. protocol_client_xfer(cl, fl, c)
      BY <1>2, Zenon DEF cl
    <2>9. Opens(cl, c) => \A s \in Slots : server.fds[s] # cl[c].fd
      BY <2>5, <2>7, Zenon
    <2>10. Desc(trans', call', file', server, ran)
      BY <2>5, <2>7, <2>8, <2>9, XferKeeps, Zenon
    <2> QED  BY <1>0, <2>10, Zenon DEF D
  <1>3. CASE "fd" \in gf_fops[op].learns
    <2>1. PICK f \in Fds : /\ file[f].state = "free"
                           /\ protocol_client_xfer(Made(c, op, f, 0, 0),
                                                   [file EXCEPT ![f].state = "opening"], c)
      BY <1>3, Zenon DEF CallPath
    <2>2. [file EXCEPT ![f].state = "opening"] \in [Fds -> FileRec]
      BY <1>0, Zenon DEF FileRec
    <2>3. f \in Fds \cup {NoFd}
      OBVIOUS
    <2>4. PICK fl : fl = [file EXCEPT ![f].state = "opening"]
      BY ZenonT(30)
    <2>5. fl \in [Fds -> FileRec] /\ protocol_client_xfer(Made(c, op, f, 0, 0), fl, c)
      BY <2>1, <2>2, <2>4, Zenon
    <2> QED  BY <1>2, <1>3, <2>1, <2>3, <2>4, <2>5, Zenon
  <1>4. CASE "fd" \notin gf_fops[op].learns
    <2>1. protocol_client_xfer(Made(c, op, NoFd, 0, 0), file, c)
      BY <1>4, Zenon DEF CallPath
    <2>2. NoFd \in Fds \cup {NoFd}
      OBVIOUS
    <2> QED  BY <1>0, <1>2, <1>4, <2>1, <2>2, Zenon
  <1> QED  BY <1>3, <1>4, Zenon

\* A fop on a descriptor is called.
LEMMA CallFdStep ==
    ASSUME D, Conns, mix \in Mixes, NEW c \in Calls, NEW op \in mix.ops, NEW f \in Fds,
           CallFd(c, op, f)
    PROVE  D'
  <1>0. /\ call \in [Calls -> CallRec] /\ file \in [Fds -> FileRec]
        /\ server' = server /\ ran' = ran /\ op \in Fops
    <2>1. call \in [Calls -> CallRec] /\ file \in [Fds -> FileRec]
      BY Zenon DEF D, Desc, Types
    <2>2. server' = server /\ ran' = ran
      BY Zenon DEF CallFd
    <2> QED  BY <2>1, <2>2, ConstantsAssumption, Zenon DEF ConstantsAssumption
  <1>1. call[c].status = "idle" /\ "fd" \in gf_fops[op].sends /\ file[f].state = "open"
    BY DEF CallFd, NewCall, NoCall
  <1>2. "fd" \notin gf_fops[op].learns
    BY <1>0, <1>1, EndsAgree, Zenon DEF EndsAgree
  <1> DEFINE R(st) == [op |-> op, fd |-> f, slot |-> file[f].slot, gen |-> file[f].gen, status |-> st]
             made == Made(c, op, f, file[f].slot, file[f].gen)
  <1>3. ASSUME NEW st \in {"out", "badfd"}, st = "out" => file[f].slot # 0,
               NEW cl, cl = [call EXCEPT ![c] = R(st)]
        PROVE  /\ Desc(trans, cl, file, server, ran) /\ Nowhere(trans, c)
               /\ cl[c].op = op /\ cl[c].status = st /\ ~Opens(cl, c)
    <2> DEFINE r == R(st)
    <2>1. /\ r \in CallRec /\ r.op = op /\ r.fd = f /\ r.status = st /\ r.slot = file[f].slot
      <3>1. st \in Answers \cup {"idle", "out"}
        BY Zenon DEF Answers
      <3>2. file[f].slot \in {0} \cup Slots /\ file[f].gen \in Nat
        BY <1>0, Zenon DEF FileRec
      <3> QED  BY <1>0, <3>1, <3>2, Zenon DEF CallRec
    <2>2. cl = [call EXCEPT ![c] = r]
      BY <1>3, Zenon
    <2> HIDE DEF r
    <2>3. Fresh(r, file, file)
      BY <1>0, <1>1, <1>2, <1>3, <2>1, Zenon DEF Fresh
    <2>4. Desc(trans, cl, file, server, ran) /\ Nowhere(trans, c)
      <3>1. Desc(trans, call, file, server, ran) /\ call[c].status = "idle"
        BY <1>1, Zenon DEF D
      <3>2. Desc(trans, cl, file, server, ran)
        BY <2>2, <2>3, <3>1, FreshKeeps, Zenon
      <3>a. OnePlace(trans, call)
        BY <3>1, Zenon DEF Desc
      <3>3. Nowhere(trans, c)
        BY <3>1, <3>a, Zenon DEF OnePlace
      <3> QED  BY <3>2, <3>3, Zenon
    <2>5. cl[c] = r
      BY <1>0, <2>2, Zenon
    <2>6. cl[c].op = op /\ cl[c].status = st
      BY <2>1, <2>5, Zenon
    <2>7. ~Opens(cl, c)
      BY <1>2, <2>6, Zenon DEF Opens
    <2> QED  BY <2>4, <2>6, <2>7, Zenon
  <1>4. CASE file[f].slot = 0
    <2>1. /\ call' = [made EXCEPT ![c].status = "badfd"] /\ trans' = trans /\ file' = file
      BY <1>4, Zenon DEF CallFd
    <2>2. call' = [call EXCEPT ![c] = R("badfd")]
      BY <1>0, <2>1 DEF Made
    <2>3. "badfd" \in {"out", "badfd"} /\ "badfd" # "out"
      OBVIOUS
    <2>4. PICK cl : cl = call'
      OBVIOUS
    <2>5. cl = [call EXCEPT ![c] = R("badfd")]
      BY <2>2, <2>4, Zenon
    <2> HIDE DEF R
    <2>6. Desc(trans, cl, file, server, ran)
      BY <1>3, <2>3, <2>5, Zenon
    <2> QED  BY <1>0, <2>1, <2>4, <2>6, Zenon DEF D
  <1>5. CASE file[f].slot # 0
    <2>1. protocol_client_xfer(made, file, c)
      BY <1>5, Zenon DEF CallFd
    <2>2. made = [call EXCEPT ![c] = R("out")]
      BY Zenon DEF Made
    <2>3. "out" \in {"out", "badfd"}
      OBVIOUS
    <2> HIDE DEF made, R
    <2>4. /\ Desc(trans, made, file, server, ran) /\ Nowhere(trans, c)
          /\ made[c].op = op /\ made[c].status = "out" /\ ~Opens(made, c)
      <3>1. PICK cl : cl = made
        OBVIOUS
      <3>2. cl = [call EXCEPT ![c] = R("out")]
        BY <2>2, <3>1, Zenon
      <3>3. /\ Desc(trans, cl, file, server, ran) /\ Nowhere(trans, c)
            /\ cl[c].op = op /\ cl[c].status = "out" /\ ~Opens(cl, c)
        BY <1>3, <1>5, <2>3, <3>2, Zenon
      <3> QED  BY <3>1, <3>3, Zenon
    <2>5. made[c].op \in Fops
      BY <1>0, <2>4, Zenon
    <2>6. Desc(trans', call', file', server, ran)
      BY <2>1, <2>4, <2>5, XferKeeps, Zenon
    <2> QED  BY <1>0, <2>6, Zenon DEF D
  <1> QED  BY <1>4, <1>5, Zenon

\* A descriptor is released (client_release).
LEMMA ClientReleaseStep ==
    ASSUME D, Conns, NEW f \in Fds, client_release(f)
    PROVE  D'
  <1> DEFINE t == conn["bulk"].trans
             told == file[f].slot # 0 /\ conn["bulk"].connected /\ CanSubmit(t)
             st == IF told THEN "released" ELSE "dropped"
             m == [kind |-> "release", slot |-> file[f].slot]
  <1>1. /\ file[f].state = "open" /\ ~Referenced(f)
        /\ call' = call /\ server' = server /\ ran' = ran
        /\ trans' = IF told THEN socket_submit(trans, t, "client", m) ELSE trans
        /\ file' = [file EXCEPT ![f].state = st]
    BY Zenon DEF client_release
  <1>2. st \in {"released", "dropped"} /\ (told => st = "released")
    OBVIOUS
  <1>3. Unused(call, f)
    BY <1>1, Zenon DEF Referenced, Unused
  <1> HIDE DEF st
  <1>4. Desc(trans, call, file, server, ran)
    BY Zenon DEF D
  <1>5. PICK fl : fl = file'
    OBVIOUS
  <1>6. Desc(trans, call, fl, server, ran)
    <2>1. fl = WithState(file, f, st)
      BY <1>1, <1>5, Zenon DEF WithState
    <2>2. st \in {"released", "dropped"}
      BY <1>2, Zenon
    <2>3. file[f].state = "open"
      BY <1>1, Zenon
    <2> HIDE DEF told
    <2>4. Desc(trans, call, WithState(file, f, st), server, ran)
      BY <1>3, <1>4, <2>2, <2>3, FileGoneKeeps, Zenon
    <2> QED  BY <2>1, <2>4, Zenon
  <1>7. fl[f].state = st /\ fl[f].slot = file[f].slot
    <2>1. file \in [Fds -> FileRec]
      BY <1>4, Zenon DEF Desc, Types
    <2> QED  BY <1>1, <1>5, <2>1, Zenon DEF FileRec
  <1>8. CASE ~told
    <2>1. trans' = trans
      BY <1>1, <1>8, Zenon
    <2> QED  BY <1>1, <1>5, <1>6, <2>1, Zenon DEF D
  <1>9. CASE told
    <2>1. trans' = socket_submit(trans, t, "client", m) /\ t \in Transports /\ file[f].slot # 0
      <3>1. "bulk" \in Channels /\ t # 0
        BY <1>9, Zenon DEF CanSubmit, Channels
      <3>2. t \in Transports
        BY <3>1, Zenon DEF Conns
      <3> QED  BY <1>1, <1>9, <3>2, Zenon
    <2>2. trans \in [Transports -> TransportRec] /\ file \in [Fds -> FileRec]
      BY <1>4, Zenon DEF Desc, Types
    <2>3. m \in Requests /\ m.kind = "release" /\ m.slot = file[f].slot
      BY <2>1, <2>2, Zenon DEF Requests, FileRec
    <2> HIDE DEF m, t
    <2>4. trans' \in [Transports -> TransportRec] /\ Posts(trans, trans', "req", m)
      <3>1. "client" \in {"client", "server"} /\ "req" = (IF "client" = "client" THEN "req" ELSE "rep")
        OBVIOUS
      <3>2. /\ "req" = "req" => m \in Requests
            /\ "req" = "rep" => m \in Replies
        BY <2>3, Zenon
      <3>3. /\ socket_submit(trans, t, "client", m) \in [Transports -> TransportRec]
            /\ Posts(trans, socket_submit(trans, t, "client", m), "req", m)
        BY <2>1, <2>2, <3>1, <3>2, SubmitPosts, Zenon
      <3> QED  BY <2>1, <3>3, Zenon
    <2>5. ASSUME Whole(server)
          PROVE  /\ Released(fl, server.fds, m.slot)
                 /\ \A u, i, o : Has(trans, "req", u, i, o) /\ o.kind = "release" => o.slot # m.slot
      <3>1. FilesTrue(file, server.fds) /\ ReleasesTrue(trans, file, server.fds)
        BY <1>4, <2>5, Zenon DEF Desc, SlotsTrue
      <3>2. server.fds[m.slot] = f
        BY <1>1, <2>1, <2>3, <3>1, Zenon DEF FilesTrue
      <3>3. fl[f].state = "released" /\ fl[f].slot = m.slot
        BY <1>2, <1>7, <1>9, <2>3, Zenon
      <3>4. Released(fl, server.fds, m.slot)
        BY <3>2, <3>3, Zenon DEF Released
      <3>5. ASSUME NEW u, NEW i, NEW o, Has(trans, "req", u, i, o), o.kind = "release",
                   o.slot = m.slot
            PROVE  FALSE
        <4>1. Released(file, server.fds, m.slot)
          <5>1. Released(file, server.fds, o.slot)
            BY <3>1, <3>5, Zenon DEF ReleasesTrue
          <5> QED  BY <3>5, <5>1, Zenon
        <4>2. file[f].state = "released"
          BY <3>2, <4>1, Zenon DEF Released
        <4> QED  BY <1>1, <4>2, Zenon
      <3> QED  BY <3>4, <3>5, Zenon
    <2>6. Desc(trans', call, fl, server, ran)
      BY <1>6, <2>3, <2>4, <2>5, PostReleaseKeeps, Zenon
    <2> QED  BY <1>1, <1>5, <2>6, Zenon DEF D
  <1> QED  BY <1>8, <1>9, Zenon

\* The channels keep pointing at transports.
LEMMA ConnsStep ==
    ASSUME Conns, [Next]_vars
    PROVE  Conns'
  <1>1. ASSUME NEW ch \in Channels, client_protocol_reconnect(ch)  PROVE Conns'
    BY <1>1 DEF client_protocol_reconnect, Conns
  <1>2. ASSUME NEW ch \in Channels, protocol_client_pollin(ch)  PROVE Conns'
    <2>1. conn' = conn \/ conn' = [conn EXCEPT ![ch].connected = TRUE]
      BY <1>2, Zenon DEF protocol_client_pollin
    <2> QED  BY <2>1, Zenon DEF Conns
  <1>3. ASSUME NEW ch \in Channels, Bail(ch)  PROVE Conns'
    BY <1>3, Zenon DEF Bail, Conns
  <1>4. ASSUME NEW ch \in Channels, protocol_client_cleanup(ch)  PROVE Conns'
    <2>1. conn' = [conn EXCEPT ![ch] = [connected |-> FALSE, trans |-> 0]]
      BY <1>4, Zenon DEF protocol_client_cleanup
    <2> QED  BY <2>1, Zenon DEF Conns
  <1>5. ASSUME NEW c \in Calls, NEW op, CallPath(c, op)  PROVE Conns'
    BY <1>5, Zenon DEF CallPath, Conns
  <1>6. ASSUME NEW c \in Calls, NEW op, NEW f \in Fds, CallFd(c, op, f)  PROVE Conns'
    BY <1>6, Zenon DEF CallFd, Conns
  <1>7. ASSUME NEW f \in Fds, client_release(f)  PROVE Conns'
    BY <1>7, Zenon DEF client_release, Conns
  <1>8. ASSUME conn' = conn  PROVE Conns'
    BY <1>8, Zenon DEF Conns
  <1>9. CASE ClientNext
    BY <1>1, <1>2, <1>3, <1>4, <1>5, <1>6, <1>7, <1>9, Zenon DEF ClientNext
  <1>10. CASE ServerNext \/ (\E t \in Transports : Break(t)) \/ UNCHANGED vars
    BY <1>8, <1>10, ClientUntouched, Zenon
  <1> QED  BY <1>9, <1>10, Zenon DEF Next

\* Every step keeps what the descriptors, the calls and the queues have to do with
\* each other.
LEMMA DescStep ==
    ASSUME SlotToSpare, D, Conns, SavedOut, mix \in Mixes, [Next]_vars
    PROVE  D'
  <1>1. CASE ClientNext
    <2>1. CASE \E ch \in Channels : client_protocol_reconnect(ch) \/ Bail(ch)
      BY <2>1, ConnectionStep, Zenon
    <2>2. CASE \E ch \in Channels : protocol_client_pollin(ch)
      BY <2>2, PollinStep, Zenon
    <2>3. CASE \E ch \in Channels : protocol_client_cleanup(ch)
      BY <2>3, CleanupStep, Zenon
    <2>4. CASE \E c \in Calls, op \in mix.ops : CallPath(c, op)
      BY <2>4, CallPathStep, Zenon
    <2>5. CASE \E c \in Calls, op \in mix.ops : \E f \in Fds : CallFd(c, op, f)
      BY <2>5, CallFdStep, Zenon
    <2>6. CASE \E f \in Fds : client_release(f)
      BY <2>6, ClientReleaseStep, Zenon
    <2> QED  BY <1>1, <2>1, <2>2, <2>3, <2>4, <2>5, <2>6, Zenon DEF ClientNext
  <1>2. CASE ServerNext
    <2>1. ASSUME NEW t \in Transports, protocol_server_interpret(t)  PROVE D'
      <3>1. trans[t].req # <<>> /\ call' = call /\ file' = file
        BY <2>1, Zenon DEF protocol_server_interpret
      <3>2. CASE Head(trans[t].req).kind = "setvolume"
        <4>1. mop_setvolume(t)
          BY <2>1, <3>2, Zenon DEF protocol_server_interpret
        <4> QED  BY <3>1, <4>1, SetvolumeStep, Zenon
      <3>3. CASE Head(trans[t].req).kind = "release"
        <4>1. server_release(t, Head(trans[t].req).slot)
          BY <2>1, <3>3, Zenon DEF protocol_server_interpret
        <4> QED  BY <3>1, <3>3, <4>1, ReleaseStep, Zenon
      <3>4. CASE Head(trans[t].req).kind = "fop"
        <4>1. server_fop(t, Head(trans[t].req))
          BY <2>1, <3>4, Zenon DEF protocol_server_interpret
        <4> QED  BY <3>1, <3>4, <4>1, FopStep, Zenon
      <3>5. Head(trans[t].req).kind \in {"setvolume", "release", "fop"}
        <4>1. trans \in [Transports -> TransportRec]
          BY Zenon DEF D, Desc, Types
        <4>2. trans[t].req \in Seq(Requests)
          BY <4>1, Zenon DEF TransportRec
        <4>3. Head(trans[t].req) \in Requests
          BY <3>1, <4>2
        <4> QED  BY <4>3, Zenon DEF Requests
      <3> QED  BY <3>2, <3>3, <3>4, <3>5, Zenon
    <2>2. CASE \E t \in Transports : server_pollerr(t)
      BY <2>2, ConnectionStep, Zenon
    <2>3. CASE \E t \in Transports, c \in Calls, found \in SUBSET {"parent", "inode"} :
                  server_stub_resume(t, c, found)
      BY <2>3, ResumeStep, Zenon
    <2>4. CASE \E t \in Transports, c \in Calls, ok \in BOOLEAN : server_cbk(t, c, ok)
      BY <2>4, CbkStep, Zenon
    <2> QED  BY <1>2, <2>1, <2>2, <2>3, <2>4, Zenon DEF ServerNext
  <1>3. CASE \E t \in Transports : Break(t)
    BY <1>3, ConnectionStep, Zenon
  <1>4. CASE UNCHANGED vars
    BY <1>4, Zenon DEF vars, D
  <1> QED  BY <1>1, <1>2, <1>3, <1>4, Zenon DEF Next

\* Nothing is under way at the start.
LEMMA DescInit ==
    ASSUME Init
    PROVE  D /\ Conns
  <1>0. MaxCuts \in Nat /\ NoFd \notin Fds
    BY ConstantsAssumption, Zenon DEF ConstantsAssumption
  <1>1. /\ call = [c \in Calls |-> NoCall]
        /\ file = [f \in Fds |-> [state |-> "free", slot |-> 0, gen |-> 0]]
        /\ server = [gen |-> 0, last |-> 0, fds |-> [s \in Slots |-> NoFd]]
        /\ ran = [c \in Calls |-> [fd |-> NoFd, gen |-> 0]]
    BY Zenon DEF Init
  <1>2. /\ server.gen = 0 /\ server.last = 0 /\ \A s \in Slots : server.fds[s] = NoFd
        /\ server \in [gen : Nat, last : Nat, fds : Tables]
    BY <1>1, Zenon DEF Tables
  <1>3. \A t \in Transports :
           \/ trans[t] = NoTransport
           \/ \E ch \in Channels : trans[t] = NewTransport(ch)
    <2>1. ASSUME NEW t \in Transports, \E ch \in Channels : First(ch) = t
          PROVE  \E ch \in Channels : trans[t] = NewTransport(ch)
      <3>1. (CHOOSE ch \in Channels : First(ch) = t) \in Channels
        BY <2>1, Zenon
      <3>2. trans[t] = NewTransport(CHOOSE ch \in Channels : First(ch) = t)
        BY <2>1, Zenon DEF Init
      <3> QED  BY <3>1, <3>2, Zenon
    <2>2. ASSUME NEW t \in Transports, ~\E ch \in Channels : First(ch) = t
          PROVE  trans[t] = NoTransport
      BY <2>2, Zenon DEF Init
    <2> QED  BY <2>1, <2>2, Zenon
  <1>4. \A ch \in Channels :
           /\ NewTransport(ch) \in TransportRec /\ NewTransport(ch).rep = <<>>
           /\ NewTransport(ch).req = <<[kind |-> "setvolume"]>>
           /\ NewTransport(ch).walking = {} /\ NewTransport(ch).running = {}
    <2>1. [kind |-> "setvolume"] \in Requests
      BY Zenon DEF Requests
    <2> QED  BY <2>1 DEF NewTransport, TransportRec
  <1>5. /\ NoTransport \in TransportRec /\ NoTransport.rep = <<>> /\ NoTransport.req = <<>>
        /\ NoTransport.walking = {} /\ NoTransport.running = {}
    BY DEF NoTransport, TransportRec
  <1>6. trans \in [Transports -> TransportRec]
    <2>1. trans = [t \in Transports |-> trans[t]]
      BY Zenon DEF Init
    <2>2. \A t \in Transports : trans[t] \in TransportRec
      BY <1>3, <1>4, <1>5, Zenon
    <2> QED  BY <2>1, <2>2, Zenon
  <1>7. \A k, t, i, m : ~Has(trans, k, t, i, m)
    <2> SUFFICES ASSUME NEW k, NEW t, NEW i, NEW m, Has(trans, k, t, i, m)  PROVE FALSE
      BY Zenon
    <2>1. /\ t \in Transports /\ i \in 1 .. Len(Queue(trans, k, t)) /\ m = Queue(trans, k, t)[i]
          /\ m.kind # "setvolume"
      BY Zenon DEF Has
    <2>2. Queue(trans, k, t) \in {<<>>, <<[kind |-> "setvolume"]>>}
      BY <1>3, <1>4, <1>5, <2>1, Zenon DEF Queue
    <2>3. Queue(trans, k, t) = <<[kind |-> "setvolume"]>>
      BY <2>1, <2>2
    <2>4. i = 1
      BY <2>1, <2>3
    <2>5. m = [kind |-> "setvolume"]
      BY <2>1, <2>3, <2>4
    <2> QED  BY <2>1, <2>5
  <1>8. \A k, t, i, c : ~In(trans, k, t, i, c)
    <2>1. \A k, t : t \in Transports => Set(trans, k, t) = {}
      BY <1>3, <1>4, <1>5, Zenon DEF Set
    <2> QED  BY <1>7, <2>1, Zenon DEF In
  <1>9. \A c \in Calls : call[c].status = "idle"
    BY <1>1, Zenon DEF NoCall
  <1>10. (\A c : ~Opens(call, c)) /\ (\A c : ~Uses(call, c))
    BY <1>9, Zenon DEF Opens, Uses
  <1>11. \A f \in Fds : file[f].state = "free" /\ file[f].slot = 0
    BY <1>1, Zenon
  <1>12. Types(trans, call, file, server, ran)
    <2>1. NoCall \in CallRec
      BY Zenon DEF NoCall, CallRec, Answers
    <2>2. call \in [Calls -> CallRec]
      BY <1>1, <2>1, Zenon
    <2>3. file \in [Fds -> FileRec]
      BY <1>1, Zenon DEF FileRec
    <2>4. ran \in [Calls -> RanRec]
      BY <1>1, Zenon DEF RanRec
    <2> QED  BY <1>2, <1>6, <2>2, <2>3, <2>4, Zenon DEF Types
  <1>13. OnePlace(trans, call)
    BY <1>8, Zenon DEF OnePlace, Nowhere
  <1>14. Openers(call, file)
    BY <1>10, <1>11, Zenon DEF Openers
  <1>15. Users(call, file)
    <2>1. \A c \in Calls : call[c].status # "out"
      BY <1>9, Zenon
    <2> QED  BY <1>9, <1>10, <2>1, Zenon DEF Users
  <1>16. Table(trans, call, file, server.fds)
    <2>1. \A f \in Fds, s \in Slots : server.fds[s] # f
      BY <1>0, <1>2, Zenon
    <2>2. \A r, s \in Slots : server.fds[r] = server.fds[s] /\ server.fds[r] # NoFd => r = s
      BY <1>2, Zenon
    <2> QED  BY <1>10, <2>1, <2>2, Zenon DEF Table
  <1>17. Names(trans, call)
    BY <1>7, Zenon DEF Names
  <1>18. SlotsTrue(trans, call, file, server.fds, ran)
    <2>1. FilesTrue(file, server.fds)
      BY <1>11, Zenon DEF FilesTrue
    <2>2. RepliesTrue(trans, call, server.fds) /\ ReleasesTrue(trans, file, server.fds)
      BY <1>7, Zenon DEF RepliesTrue, ReleasesTrue, OneRelease
    <2>3. RunsTrue(trans, call, ran)
      BY <1>10, Zenon DEF RunsTrue
    <2> QED  BY <2>1, <2>2, <2>3, Zenon DEF SlotsTrue
  <1>19. server.gen \in {0, server.last}
    BY <1>2, Zenon
  <1>20. D
    BY <1>12, <1>13, <1>14, <1>15, <1>16, <1>17, <1>18, <1>19, Zenon DEF D, Desc
  <1>21. Conns
    <2>1. \A ch \in Channels : First(ch) \in {0} \cup Transports
      BY <1>0 DEF First, Transports, Channels
    <2> QED  BY <2>1, Zenon DEF Init, Conns
  <1> QED  BY <1>20, <1>21, Zenon
=============================================================================
