------------------------------ MODULE Protocol ------------------------------
(***************************************************************************)
(* Remote calls between one protocol/client volume and the protocol/server *)
(* that exports it. The client keeps two connections, a low-latency and a  *)
(* bulk channel; every fop uses the channel its row of gf_fops names. The  *)
(* server ties the transports of one client process together into one      *)
(* server_connection_t, which owns the table of open descriptors and lives  *)
(* as long as a transport refers to it.                                    *)
(*                                                                         *)
(* Transports are numbered in the order they are made; a reconnect makes a *)
(* new one. A transport breaks in the network, or the client shuts it when *)
(* a timer (call_bail, ping) expires; each end notices on its own.         *)
(*                                                                         *)
(* Not here: the ping and bail timers themselves (a cut may come at any    *)
(* time), forget, the management fops other than SETVOLUME, refused        *)
(* authentication, a subvolume attached locally (conf->child).             *)
(***************************************************************************)
EXTENDS ProtocolFops, Integers, Sequences, FiniteSets

CONSTANTS
    Fds,        \* the fd_t objects of the client
    NoFd,       \* no descriptor
    Mixes,      \* what clients do: the fops they call and how many calls they make
    MaxCuts     \* bound on the transports that are lost

\* What the model reads of a row. Fops of one kind behave alike, so the mixes need
\* only have one of each.
Kind(f) == [channel |-> gf_fops[f].channel, needs |-> gf_fops[f].needs,
            must |-> gf_fops[f].must, fd |-> "fd" \in gf_fops[f].learns]

ASSUME ConstantsAssumption ==
    /\ Fds # {} /\ IsFiniteSet(Fds) /\ NoFd \notin Fds
    /\ \A m \in Mixes : m.ops \subseteq Fops /\ m.calls \in Nat
    /\ \A f \in Fops : \E m \in Mixes : \E g \in m.ops : Kind(f) = Kind(g)
    /\ MaxCuts \in Nat

Channels == {"lowlat", "bulk"}
Transports == 1 .. (2 + MaxCuts)
Calls == UNION {1 .. m.calls : m \in Mixes}
Slots == 1 .. Cardinality(Fds)

VARIABLES
    mix,     \* what this client does; never changes
    conn,    \* per channel, the client's connection: its transport (0: none) and
             \* conn->connected, set by the answer to SETVOLUME
    saved,   \* per channel, saved_frames: the calls waiting for a reply
    trans,   \* the transports, both ends
    call,    \* what the client called, and how it was answered
    file,    \* the client's descriptors and the remote slot each remembers, with
             \* (for the properties only) the generation it was opened in
    server,  \* the server's connection object: its generation (0: none), the
             \* last generation made, and its descriptor table
    ran,     \* what the server ran a call on, and for which generation
    view,    \* the last CHILD_UP or CHILD_DOWN the client's parents saw
    cuts     \* the transports lost so far

vars == <<mix, conn, saved, trans, call, file, server, ran, view, cuts>>

NoTransport == [ch |-> "none", client |-> "gone", live |-> FALSE, req |-> <<>>,
                rep |-> <<>>, walking |-> {}, running |-> {}, gen |-> 0]

\* A transport that has just connected: the SETVOLUME request of
\* protocol_client_handshake is on its way.
NewTransport(ch) ==
    [ch |-> ch, client |-> "open", live |-> TRUE, req |-> <<[kind |-> "setvolume"]>>,
     rep |-> <<>>, walking |-> {}, running |-> {}, gen |-> 0]

First(ch) == IF ch = "bulk" THEN 1 ELSE 2

NoCall == [op |-> "none", fd |-> NoFd, slot |-> 0, gen |-> 0, status |-> "idle"]

\* notify (PARENT_UP) has connected both channels (client_protocol_reconnect).
Init ==
    /\ mix \in Mixes
    /\ conn = [ch \in Channels |-> [connected |-> FALSE, trans |-> First(ch)]]
    /\ saved = [ch \in Channels |-> {}]
    /\ trans = [t \in Transports |->
                   IF \E ch \in Channels : First(ch) = t
                     THEN NewTransport(CHOOSE ch \in Channels : First(ch) = t)
                     ELSE NoTransport]
    /\ call = [c \in Calls |-> NoCall]
    /\ file = [f \in Fds |-> [state |-> "free", slot |-> 0, gen |-> 0]]
    /\ server = [gen |-> 0, last |-> 0, fds |-> [s \in Slots |-> NoFd]]
    /\ ran = [c \in Calls |-> [fd |-> NoFd, gen |-> 0]]
    /\ view = "down"
    /\ cuts = 0

-----------------------------------------------------------------------------
\* The transport (transport/socket)

\* socket_submit: refused unless the socket is connected. On a connection that has
\* already failed in the network the message is accepted and goes nowhere.
CanSubmit(t) == t # 0 /\ trans[t].client \in {"open", "broken"}

socket_submit(tr, t, end, msg) ==
    IF tr[t].client = "open" /\ tr[t].live
      THEN IF end = "client" THEN [tr EXCEPT ![t].req = Append(@, msg)]
                             ELSE [tr EXCEPT ![t].rep = Append(@, msg)]
      ELSE tr

\* transport_unref down to zero: no event handler and no frame refers to the
\* transport any more, so it leaves its connection (notify, TRANSPORT_CLEANUP).
Unreferenced(t) == ~t.live /\ t.walking = {} /\ t.running = {}

transport_unref(tr, t) ==
    IF Unreferenced(tr[t]) THEN [tr EXCEPT ![t].gen = 0] ELSE tr

\* server_connection_put: the last transport to leave destroys the connection and
\* with it every descriptor of its table (gf_fd_fdtable_destroy).
server_connection_put(tr, srv) ==
    IF srv.gen # 0 /\ \A t \in Transports : tr[t].gen # srv.gen
      THEN [srv EXCEPT !.gen = 0, !.fds = [s \in Slots |-> NoFd]]
      ELSE srv

-----------------------------------------------------------------------------
\* The client

\* client_protocol_reconnect, socket_connect and protocol_client_handshake: a
\* channel without a socket gets a new transport, and the SETVOLUME request goes
\* out as soon as it is connected.
client_protocol_reconnect(ch) ==
    /\ conn[ch].trans = 0
    /\ \E t \in Transports :
        /\ trans[t].ch = "none" /\ \A u \in 1 .. (t - 1) : trans[u].ch # "none"
        /\ trans' = [trans EXCEPT ![t] = NewTransport(ch)]
        /\ conn' = [conn EXCEPT ![ch].trans = t]
    /\ UNCHANGED <<mix, saved, call, file, server, ran, view, cuts>>

\* The answer of a call reaches the caller: client_<fop>_cbk. A reply to an open
\* gives the descriptor its remote slot (this_fd_set); an open that failed leaves
\* it without one.
Answered(cl, fl, c, status, slot, gen) ==
    /\ call' = [cl EXCEPT ![c].status = status]
    /\ file' = IF "fd" \in gf_fops[cl[c].op].learns
                 THEN [fl EXCEPT ![cl[c].fd] =
                          [state |-> "open", slot |-> IF status = "ok" THEN slot ELSE 0,
                           gen |-> IF status = "ok" THEN gen ELSE 0]]
                 ELSE fl

\* protocol_client_xfer: the request goes out and its frame is saved, or the call
\* is answered on the spot with ENOTCONN.
protocol_client_xfer(cl, fl, c) ==
    LET ch == gf_fops[cl[c].op].channel
        t == conn[ch].trans
    IN IF conn[ch].connected /\ CanSubmit(t)
         THEN /\ trans' = socket_submit(trans, t, "client",
                              [kind |-> "fop", c |-> c, slot |-> cl[c].slot])
              /\ saved' = [saved EXCEPT ![ch] = @ \cup {c}]
              /\ call' = cl /\ file' = fl
         ELSE /\ Answered(cl, fl, c, "notconn", 0, 0)
              /\ UNCHANGED <<trans, saved>>

\* c is the next call the client makes, of a fop of its mix.
NewCall(c, op) ==
    /\ call[c] = NoCall /\ \A d \in 1 .. (c - 1) : call[d] # NoCall
    /\ op \in mix.ops /\ c \in 1 .. mix.calls

Made(c, op, f, slot, gen) ==
    [call EXCEPT ![c] = [op |-> op, fd |-> f, slot |-> slot, gen |-> gen, status |-> "out"]]

\* A fop on a path: only the fops that open take an fd along, a fresh one.
CallPath(c, op) ==
    /\ NewCall(c, op)
    /\ "fd" \notin gf_fops[op].sends
    /\ IF "fd" \in gf_fops[op].learns
         THEN \E f \in Fds :
                /\ file[f].state = "free"
                /\ protocol_client_xfer(Made(c, op, f, 0, 0),
                                        [file EXCEPT ![f].state = "opening"], c)
         ELSE protocol_client_xfer(Made(c, op, NoFd, 0, 0), file, c)
    /\ UNCHANGED <<mix, conn, server, ran, view, cuts>>

\* A fop on a descriptor: this_fd_get fails, and the call is answered with EBADFD,
\* on one whose open did not succeed here.
CallFd(c, op, f) ==
    /\ NewCall(c, op)
    /\ "fd" \in gf_fops[op].sends /\ file[f].state = "open"
    /\ LET made == Made(c, op, f, file[f].slot, file[f].gen)
       IN IF file[f].slot = 0
            THEN /\ call' = [made EXCEPT ![c].status = "badfd"]
                 /\ UNCHANGED <<trans, saved, file>>
            ELSE protocol_client_xfer(made, file, c)
    /\ UNCHANGED <<mix, conn, server, ran, view, cuts>>

\* fd_unref: the release of a descriptor waits for its last reference, so for the
\* calls on it that are out.
Referenced_never(f) == FALSE
Referenced(f) == \E c \in Calls : call[c].fd = f /\ call[c].status = "out"

\* client_release and client_releasedir. Without a remote slot or a bulk connection
\* the server is never told ("dropped").
client_release(f) ==
    LET t == conn["bulk"].trans
        told == file[f].slot # 0 /\ conn["bulk"].connected /\ CanSubmit(t)
    IN  /\ file[f].state = "open" /\ ~Referenced(f)
        /\ file' = [file EXCEPT ![f].state = IF told THEN "released" ELSE "dropped"]
        /\ trans' = IF told
                      THEN socket_submit(trans, t, "client",
                                         [kind |-> "release", slot |-> file[f].slot])
                      ELSE trans
        /\ UNCHANGED <<mix, conn, saved, call, server, ran, view, cuts>>

\* lookup_frame (saved_frames_get): the frame of a reply is taken off the list.
lookup_frame_peek(ch, c) == saved
lookup_frame(ch, c) == [saved EXCEPT ![ch] = @ \ {c}]

\* client_setvolume_cbk: the channel is usable, and the parents hear CHILD_UP.
\* Every other reply finds its frame by its callid (protocol_client_interpret,
\* lookup_frame); one without a frame is ignored.
protocol_client_pollin(ch) ==
    LET t == conn[ch].trans
    IN  /\ t # 0 /\ trans[t].client = "open" /\ trans[t].rep # <<>>
        /\ trans' = [trans EXCEPT ![t].rep = Tail(@)]
        /\ LET m == Head(trans[t].rep)
           IN CASE m.kind = "setvolume" ->
                     /\ conn' = [conn EXCEPT ![ch].connected = TRUE]
                     /\ view' = "up"
                     /\ UNCHANGED <<saved, call, file>>
                [] m.kind = "reply" /\ m.c \in saved[ch] ->
                     /\ saved' = lookup_frame(ch, m.c)
                     /\ Answered(call, file, m.c, m.status, m.slot, m.gen)
                     /\ UNCHANGED <<conn, view>>
                [] OTHER -> UNCHANGED <<conn, saved, call, file, view>>
        /\ UNCHANGED <<mix, server, ran, cuts>>

\* The connection fails in the network: what is under way to the server may still
\* arrive there, nothing else does.
Break(t) ==
    /\ cuts < MaxCuts /\ trans[t].client = "open"
    /\ trans' = [trans EXCEPT ![t].client = "broken"]
    /\ cuts' = cuts + 1
    /\ UNCHANGED <<mix, conn, saved, call, file, server, ran, view>>

\* call_bail and client_ping_timer_expired: with calls (or releases, whose frames the
\* model does not keep) out and no sign of the server the client shuts the socket.
Bail(ch) ==
    LET t == conn[ch].trans
    IN  /\ cuts < MaxCuts /\ t # 0 /\ trans[t].client = "open"
        /\ trans' = [trans EXCEPT ![t].client = "shut"]
        /\ cuts' = cuts + 1
        /\ UNCHANGED <<mix, conn, saved, call, file, server, ran, view>>

\* saved_frames_unwind: every saved frame is answered with ENOTCONN.
saved_frames_unwind_none(ch) == call
saved_frames_unwind(ch) ==
    [c \in Calls |-> IF c \in saved[ch] THEN [call[c] EXCEPT !.status = "notconn"] ELSE call[c]]

\* What the parents hear when a channel goes: CHILD_DOWN if it was usable.
ChildDown_silent(ch) == view
ChildDown(ch) == IF conn[ch].connected THEN "down" ELSE view

\* notify (POLLERR) and protocol_client_cleanup: the saved frames are answered and the
\* channel is usable no more. The descriptors keep their remote slots.
protocol_client_cleanup(ch) ==
    LET t == conn[ch].trans
    IN  /\ t # 0 /\ trans[t].client \in {"broken", "shut"}
        /\ call' = saved_frames_unwind(ch)
        /\ file' = [f \in Fds |->
                       IF \E c \in saved[ch] : call[c].fd = f /\ file[f].state = "opening"
                         THEN [file[f] EXCEPT !.state = "open"] ELSE file[f]]
        /\ saved' = [saved EXCEPT ![ch] = {}]
        /\ trans' = [trans EXCEPT ![t].client = "gone", ![t].rep = <<>>]
        /\ conn' = [conn EXCEPT ![ch] = [connected |-> FALSE, trans |-> 0]]
        /\ view' = ChildDown(ch)
        /\ UNCHANGED <<mix, server, ran, cuts>>

-----------------------------------------------------------------------------
\* The server

\* gf_fd_unused_get: the first free slot of the table.
gf_fd_unused_get(fds) ==
    CHOOSE s \in Slots : fds[s] = NoFd /\ \A r \in 1 .. (s - 1) : fds[r] # NoFd

\* The frame of a call is done: protocol_server_reply, and the frame's reference to
\* the transport goes.
protocol_server_reply(tr, t, msg) == transport_unref(socket_submit(tr, t, "server", msg), t)

Reply(c, status, slot) ==
    [kind |-> "reply", c |-> c, status |-> status, slot |-> slot, gen |-> server.gen]

\* mop_setvolume: the transport joins the connection of the client process, made
\* anew when there is none (server_connection_get).
mop_setvolume(t) ==
    LET gen == IF server.gen = 0 THEN server.last + 1 ELSE server.gen
    IN  /\ server' = [server EXCEPT !.gen = gen, !.last = IF gen > @ THEN gen ELSE @]
        /\ trans' = socket_submit([trans EXCEPT ![t].req = Tail(@), ![t].gen = gen],
                                  t, "server", [kind |-> "setvolume"])
        /\ UNCHANGED ran

\* server_release and server_releasedir: the slot is emptied (gf_fd_put).
server_release_keep(t, slot) ==
    trans' = [trans EXCEPT ![t].req = Tail(@)] /\ UNCHANGED <<server, ran>>
server_release(t, slot) ==
    /\ server' = [server EXCEPT !.fds[slot] = NoFd]
    /\ trans' = [trans EXCEPT ![t].req = Tail(@)]
    /\ UNCHANGED ran

\* server_<fop>: a fop on a descriptor takes it from its slot (gf_fd_fdptr_get) or
\* fails; one on a path runs at once if the inode table has all it needs, else the
\* path is walked first (do_path_lookup).
server_fop(t, m) ==
    LET needs == gf_fops[call[m.c].op].needs
        got == [trans EXCEPT ![t].req = Tail(@)]
    IN  /\ IF "fd" \in needs
             THEN /\ ran' = [ran EXCEPT ![m.c] = [fd |-> server.fds[m.slot], gen |-> server.gen]]
                  /\ trans' = IF server.fds[m.slot] = NoFd
                                THEN protocol_server_reply(got, t, Reply(m.c, "error", 0))
                                ELSE [got EXCEPT ![t].running = @ \cup {m.c}]
             ELSE /\ \/ trans' = [got EXCEPT ![t].running = @ \cup {m.c}]
                     \/ needs # {} /\ trans' = [got EXCEPT ![t].walking = @ \cup {m.c}]
                  /\ UNCHANGED ran
        /\ UNCHANGED server

\* protocol_server_interpret: a transport's requests, in the order they were sent.
protocol_server_interpret(t) ==
    /\ trans[t].live /\ trans[t].req # <<>>
    /\ LET m == Head(trans[t].req)
       IN CASE m.kind = "setvolume" -> mop_setvolume(t)
            [] m.kind = "release" -> server_release(t, m.slot)
            [] m.kind = "fop" -> server_fop(t, m)
    /\ UNCHANGED <<mix, conn, saved, call, file, view, cuts>>

\* server_stub_resume: the walk has found some of the path. The call goes on if
\* what it must have is there, else it is answered with ENOENT.
server_stub_resume(t, c, found) ==
    LET over == [trans EXCEPT ![t].walking = @ \ {c}]
    IN  /\ c \in trans[t].walking
        /\ "inode" \in found => "parent" \in found
        /\ trans' = IF gf_fops[call[c].op].must \subseteq found
                      THEN [over EXCEPT ![t].running = @ \cup {c}]
                      ELSE protocol_server_reply(over, t, Reply(c, "error", 0))
        /\ server' = server_connection_put(trans', server)
        /\ UNCHANGED <<mix, conn, saved, call, file, ran, view, cuts>>

\* server_<fop>_cbk: the exported volume has answered, in any order. An open that
\* succeeded gets a slot; the reply goes to the transport the call came from.
server_cbk(t, c, ok) ==
    LET opens == ok /\ "fd" \in gf_fops[call[c].op].done
        slot == IF opens THEN gf_fd_unused_get(server.fds) ELSE 0
        over == [trans EXCEPT ![t].running = @ \ {c}]
    IN  /\ c \in trans[t].running
        /\ trans' = protocol_server_reply(over, t, Reply(c, IF ok THEN "ok" ELSE "error", slot))
        /\ server' = server_connection_put(trans',
               IF opens THEN [server EXCEPT !.fds[slot] = call[c].fd] ELSE server)
        /\ UNCHANGED <<mix, conn, saved, call, file, ran, view, cuts>>

\* notify (POLLERR) on the server: the other end is gone. Requests not yet read are
\* lost; calls that run go on, and hold on to the transport.
server_pollerr(t) ==
    /\ trans[t].live /\ trans[t].client # "open"
    /\ trans' = transport_unref([trans EXCEPT ![t].live = FALSE, ![t].req = <<>>], t)
    /\ server' = server_connection_put(trans', server)
    /\ UNCHANGED <<mix, conn, saved, call, file, ran, view, cuts>>

-----------------------------------------------------------------------------
ClientNext ==
    \/ \E ch \in Channels :
          client_protocol_reconnect(ch) \/ protocol_client_pollin(ch)
             \/ Bail(ch) \/ protocol_client_cleanup(ch)
    \/ \E c \in Calls, op \in mix.ops : CallPath(c, op) \/ \E f \in Fds : CallFd(c, op, f)
    \/ \E f \in Fds : client_release(f)

ServerNext ==
    \E t \in Transports :
       \/ protocol_server_interpret(t) \/ server_pollerr(t)
       \/ \E c \in Calls : \/ \E found \in SUBSET {"parent", "inode"} :
                                 server_stub_resume(t, c, found)
                           \/ \E ok \in BOOLEAN : server_cbk(t, c, ok)

Next == ClientNext \/ ServerNext \/ \E t \in Transports : Break(t)

Spec == Init /\ [][Next]_vars

\* The event loops of both ends run, and the exported volume answers. A connection
\* that failed in the network is noticed, at the latest by the timers, when calls
\* are out on it.
Fairness ==
    /\ \A ch \in Channels :
          /\ WF_vars(protocol_client_pollin(ch))
          /\ WF_vars(saved[ch] # {} /\ protocol_client_cleanup(ch))
    /\ \A t \in Transports :
          /\ WF_vars(protocol_server_interpret(t))
          /\ WF_vars(\E c \in Calls, found \in SUBSET {"parent", "inode"} :
                        server_stub_resume(t, c, found))
          /\ WF_vars(\E c \in Calls, ok \in BOOLEAN : server_cbk(t, c, ok))

FairSpec == Spec /\ Fairness

-----------------------------------------------------------------------------
Answers == {"ok", "error", "notconn", "badfd"}

TypeOK ==
    /\ mix \in Mixes
    /\ conn \in [Channels -> [connected : BOOLEAN, trans : 0 .. (2 + MaxCuts)]]
    /\ saved \in [Channels -> SUBSET Calls]
    /\ \A t \in Transports :
          /\ trans[t].ch \in Channels \cup {"none"}
          /\ trans[t].client \in {"open", "broken", "shut", "gone"}
          /\ trans[t].walking \cup trans[t].running \subseteq Calls
          /\ trans[t].gen \in 0 .. server.last
    /\ call \in [Calls -> [op : Fops \cup {"none"}, fd : Fds \cup {NoFd}, slot : {0} \cup Slots,
                           gen : Nat, status : Answers \cup {"idle", "out"}]]
    /\ file \in [Fds -> [state : {"free", "opening", "open", "released", "dropped"},
                          slot : {0} \cup Slots, gen : Nat]]
    /\ server \in [gen : Nat, last : Nat, fds : [Slots -> Fds \cup {NoFd}]]
    /\ ran \in [Calls -> [fd : Fds \cup {NoFd}, gen : Nat]]
    /\ view \in {"up", "down"}
    /\ cuts \in 0 .. MaxCuts

\* A call is answered once. A reply that comes in after protocol_client_cleanup has
\* unwound the frame, or after the transport was replaced, changes nothing.
AnsweredOnce ==
    [][\A c \in Calls : call[c].status \in Answers => call'[c].status = call[c].status]_vars

\* The server has had one connection object for the client all along: no loss of
\* transports, if any, left it without one.
OneConnection == server.last = 1 /\ server.gen = 1

\* As long as the server keeps its connection object, the slot the client remembers
\* for a descriptor holds that descriptor and no other, whichever channel was lost
\* and made again, and whatever opens and releases are under way.
KeepsSlot ==
    OneConnection =>
        \A f \in Fds :
            file[f].state = "open" /\ file[f].slot # 0 => server.fds[file[f].slot] = f

\* What the server reports of a fop on a descriptor it did to the descriptor that
\* the client meant, as long as it keeps its connection object.
RightFile ==
    OneConnection =>
        \A c \in Calls :
            call[c].status \in {"ok", "error"} /\ "fd" \in gf_fops[call[c].op].sends
                => ran[c].fd = call[c].fd

\* Client and server mean the same descriptor by a slot, between calls and in the
\* calls that name it (gf_fd_unused_get, this_fd_get in client-protocol.c).
RightDescriptor == KeepsSlot /\ RightFile

\* The parents of the client volume see it up when both channels are usable and
\* down when neither is (client_setvolume_cbk, notify).
ViewSound ==
    /\ (\A ch \in Channels : conn[ch].connected) => view = "up"
    /\ (\A ch \in Channels : ~conn[ch].connected) => view = "down"

\* As long as no transport is lost the server holds no descriptor whose release the
\* client has sent, but for one whose release is on its way.
NoLeak ==
    cuts = 0 =>
        \A s \in Slots :
            \/ server.fds[s] = NoFd
            \/ file[server.fds[s]].state # "released"
            \/ \E t \in Transports : [kind |-> "release", slot |-> s] \in
                  {trans[t].req[i] : i \in {j \in 1 .. Len(trans[t].req) :
                                               trans[t].req[j].kind = "release"}}

\* Every call is answered in the end: by a reply, or by the cleanup of the channel it
\* went out on.
EveryCallAnswered == []<>(\A c \in Calls : call[c].status # "out")

=============================================================================
