------------------------------- MODULE Cluster -------------------------------
(* One cluster translator over its children.  A call from above is a fop of   *)
(* the translator chosen in Init; its winds reach children that run them,     *)
(* refuse them, or lose their connection before or after running them; the    *)
(* replies return in any order and CHILD_UP and CHILD_DOWN arrive at any      *)
(* time.  A call that changed the namespace is followed by a fresh lookup of  *)
(* each name, with every child connected.                                     *)
EXTENDS Stripe, Ha, MapVol, Unify, Dht, TLC
LOCAL INSTANCE SequencesExt

CONSTANTS Setups,      \* the translators, with what their children hold
          Regions,     \* the regions that are read and written, as <<offset, size>>
          MaxDown, MaxUp, MaxRefused

VARIABLES
    x,        \* the translator's private state and the contexts it keeps
    disk,     \* disk[s]: what store s holds under the two names and in the directory
    conn,     \* the children whose connection is up
    l,        \* the frame and its local
    out,      \* winds not yet answered
    ans,      \* the answers unwound so far, oldest first
    asked,    \* ha: the replies to the fop that was called, the path and its error
    calls,    \* 0 nothing yet, 1 the call, 2 the lookup after it
    first,    \* the fop that is called and its answer, kept through the lookup;
              \* raced: stripe_writev was answered by a comparison out of date
    budget    \* faults left: disconnections, reconnections, refusals

vars == <<x, disk, conn, l, out, ans, asked, calls, first, budget>>

Names == {"old", "new"}

(* An entry: its type, where a linkfile points, the hash range a directory    *)
(* keeps, and which object it is.                                             *)
Entry(t, id) == [t |-> t, to |-> 0, lay |-> <<>>, id |-> id]
Nothing == Entry("none", "none")

(* ---- the children (external: storage behind protocol/client) ---- *)

(* The children of ha are paths to one store, those of the others are stores. *)
StoreOf(c) == IF x.vol = "ha" THEN 1 ELSE c

Dents == <<"p", "q">>     \* the names in the directory "old", in the order they are read
DentNames == {"p", "q"}

Present(d, types) == {n \in DentNames : d.dents[n] \in types}
Pos(n) == CHOOSE i \in DOMAIN Dents : Dents[i] = n

(* At most count names of the given types, after position off of the listing. *)
Batched(d, types, off, count) ==
    LET all == SelectSeq(Dents, LAMBDA n : n \in Present(d, types))
    IN  SubSeq(all, off + 1, IF off + count < Len(all) THEN off + count ELSE Len(all))

Answer(d, op_ret, op_errno) ==
    [op_ret |-> op_ret, op_errno |-> op_errno, d |-> d, e |-> Nothing, ents |-> <<>>,
     dents |-> {}, files |-> {}, dirs |-> {}]
Yes(d) == Answer(d, 0, "0")
No(d, op_errno) == Answer(d, -1, op_errno)

AlwaysOps == {"statfs", "stats", "flush", "fsync", "fsyncdir", "fstat", "fchmod", "fchown",
              "ftruncate", "readv", "writev", "lk", "setdents", "getdents_any", "getdents", "getspec",
              "finodelk", "fentrylk", "fxattrop"}

RunMake(d, nm, e) == IF d[nm].t # "none" THEN No(d, "EEXIST") ELSE Yes([d EXCEPT ![nm] = e])

RunRemove(d, nm) == IF d[nm].t = "none" THEN No(d, "ENOENT") ELSE Yes([d EXCEPT ![nm] = Nothing])

RunRename(d, from, to) ==
    IF d[from].t = "none" THEN No(d, "ENOENT")
    ELSE IF d.newfull /\ to = "new" THEN No(d, "ENOTEMPTY")
    ELSE Yes([d EXCEPT ![to] = d[from], ![from] = Nothing])

RunReaddir(d, k) ==
    LET n == Batched(d, {"file", "dir"}, k.offset, k.size)
    IN  [Answer(d, Len(n), "0") EXCEPT
            !.ents = [i \in DOMAIN n |-> [name |-> n[i], off |-> k.offset + i]]]

RunGetdents(d, types, off) ==
    LET n == Batched(d, types, off, Batch)
    IN  [Yes(d) EXCEPT !.dents = {[name |-> n[i], t |-> d.dents[n[i]]] : i \in DOMAIN n}]

RunSetdents(d, ents) ==
    Yes([d EXCEPT !.dents = [n \in DentNames |->
            IF @[n] = "none" /\ \E e \in ents : e.name = n
            THEN (CHOOSE e \in ents : e.name = n).t ELSE @[n]]])

(* What a store answers to the call w of the frame k, and what it then holds. *)
Run(d, w, k) ==
    LET nm == k.name
        here == d[nm].t # "none"
        full == Present(d, {"file", "dir"})
    IN  CASE w.op \in AlwaysOps -> Yes(d)
          [] w.op = "create" /\ here /\ ~k.excl -> Yes(d)
          [] w.op \in {"mknod", "create", "mkdir", "symlink"} /\ ~(w.op = "create" /\ here /\ ~k.excl) ->
                 RunMake(d, nm, Entry(k.makes, "C"))
          [] w.op = "create_excl" -> RunMake(d, nm, Entry(k.makes, "C"))
          [] w.op = "mkdir_heal" -> RunMake(d, nm, Entry("dir", "A"))
          [] w.op = "mknod_linkfile" -> RunMake(d, k.linkname, Entry("link", "L"))
          [] w.op = "setxattr_linkto" ->
                 IF d[k.linkname].t = "none" THEN No(d, "ENOENT")
                 ELSE Yes([d EXCEPT ![k.linkname].to = k.linkto])
          [] w.op = "setlayout" ->
                 IF ~here THEN No(d, "ENOENT")
                 ELSE LET i == CHOOSE i \in DOMAIN k.layout : k.layout[i].xl = w.to
                      IN  Yes([d EXCEPT ![nm].lay = <<k.layout[i].start, k.layout[i].stop>>])
          [] w.op = "unlink" -> RunRemove(d, nm)
          [] w.op = "unlink_new" -> RunRemove(d, "new")
          [] w.op = "rmdir" -> IF here /\ full # {} THEN No(d, "ENOTEMPTY") ELSE RunRemove(d, nm)
          [] w.op = "rename" -> RunRename(d, "old", "new")
          [] w.op = "rename_back" -> RunRename(d, "new", "old")
          [] w.op = "link" -> IF ~here THEN No(d, "ENOENT") ELSE RunMake(d, "new", d["old"])
          [] w.op = "readdir" -> IF here THEN RunReaddir(d, k) ELSE No(d, "ENOENT")
          [] w.op = "readdir_all" -> Answer(d, 2 + Cardinality(full), "0")
          [] w.op = "readdir_all_new" -> Answer(d, IF d.newfull THEN 3 ELSE 2, "0")
          [] w.op = "getdents_heal" -> RunGetdents(d, {"file", "dir"}, k.offset_list[w.no])
          [] w.op = "getdents_dir" -> RunGetdents(d, {"dir"}, k.offset_list[w.no])
          [] w.op = "setdents_new" -> RunSetdents(d, k.entry_list[w.no])
          [] w.op = "setdents_dir" -> RunSetdents(d, k.entry_list[w.no])
          [] w.op = "checksum" -> [Yes(d) EXCEPT !.files = Present(d, {"file"}),
                                                 !.dirs = Present(d, {"dir"})]
          [] w.op \in {"lookup_new", "opendir_new"} ->
                 IF d["new"].t = "none" THEN No(d, "ENOENT") ELSE [Yes(d) EXCEPT !.e = d["new"]]
          [] OTHER -> IF here THEN [Yes(d) EXCEPT !.e = d[nm]] ELSE No(d, "ENOENT")

(* ---- the translator ---- *)

Fop(y, k) ==
    CASE y.vol = "stripe" -> StripeFop(y, k)
      [] y.vol = "ha" -> HaFop(y, k)
      [] y.vol = "map" -> MapFop(y, k)
      [] y.vol = "unify" -> UnifyFop(y, k)
      [] y.vol \in {"dht", "nufa"} -> DhtFop(y, k)

Callback(y, k, w, r) ==
    CASE y.vol = "stripe" -> StripeCbk(y, k, w, r)
      [] y.vol = "ha" -> HaCbk(y, k, w, r)
      [] y.vol = "map" -> MapCbk(y, k, w, r)
      [] y.vol = "unify" -> UnifyCbk(y, k, w, r)
      [] y.vol \in {"dht", "nufa"} -> DhtCbk(y, k, w, r)

FopsOf(vol) ==
    CASE vol = "stripe" -> StripeFops
      [] vol = "ha" -> HaFops
      [] vol = "map" -> MapFops
      [] vol = "unify" -> UnifyFops
      [] vol \in {"dht", "nufa"} -> DhtFops

Notify(y, c, up) ==
    CASE y.vol = "stripe" -> stripe_notify(y, c, up)
      [] y.vol = "ha" -> ha_notify(y, c, up)
      [] y.vol = "map" -> y
      [] y.vol = "unify" -> unify_notify(y, c, up)
      [] y.vol \in {"dht", "nufa"} -> dht_notify(y, c, up)

Sent(w) == [to |-> w.to, op |-> w.op, cbk |-> w.cbk, no |-> w.no, sent |-> w.to \in conn]

Take(res, answered) ==
    /\ x' = res.x
    /\ l' = res.l
    /\ out' = (out \ answered) \cup {Sent(w) : w \in res.wind}
    /\ ans' = ans \o res.ans

AnyInode == {"lookup", "stat", "chmod", "chown", "utimens", "rename", "access", "setxattr",
             "getxattr", "removexattr", "xattrop", "inodelk", "entrylk"}
MakeOps == {"mknod", "create", "mkdir", "symlink"}
NameOps == MakeOps \cup {"unlink", "rmdir", "rename", "link"}

(* What may be called on an inode of each type, "none" for a free name. *)
FopsOn(kind) ==
    CASE kind = "none" -> {"lookup", "statfs", "stats", "getspec"} \cup MakeOps
      [] kind = "dir" -> AnyInode \cup {"opendir", "rmdir", "fsyncdir", "readdir", "getdents",
                                       "setdents", "checksum"}
      [] kind = "reg" -> AnyInode \cup {"create", "truncate", "open", "readv", "writev", "flush",
                                       "fsync", "lk", "fstat", "fchmod", "fchown", "ftruncate",
                                       "unlink", "link", "fxattrop", "finodelk", "fentrylk"}
      [] kind = "sym" -> AnyInode \cup {"readlink", "unlink", "link"}

(* The arguments of a call, the scheduler's choice included. *)
Call0 == [fop |-> "none", kind |-> "none", makes |-> "none", excl |-> FALSE, name |-> "old",
          offset |-> 0, size |-> 0, sched |-> 0, content |-> FALSE]

Schedules == IF x.vol = "unify" THEN 0 .. x.n - 1 ELSE {0}

Inputs(fop) ==
    LET in == [Call0 EXCEPT !.fop = fop, !.kind = x.kind]
    IN  CASE fop = "create" -> {[in EXCEPT !.makes = "reg", !.excl = e, !.sched = s] :
                                   e \in BOOLEAN, s \in Schedules}
          [] fop = "mknod" -> {[in EXCEPT !.makes = t, !.excl = TRUE, !.sched = s] :
                                   t \in {"reg", "sym"}, s \in Schedules}
          [] fop = "symlink" -> {[in EXCEPT !.makes = "sym", !.excl = TRUE, !.sched = s] :
                                   s \in Schedules}
          [] fop = "mkdir" -> {[in EXCEPT !.makes = "dir", !.excl = TRUE]}
          [] fop = "setxattr" /\ x.vol = "unify" /\ x.kind = "dir" ->
                 {[in EXCEPT !.content = b, !.sched = s] : b \in BOOLEAN, s \in Schedules}
          [] fop \in {"readv", "writev"} -> {[in EXCEPT !.offset = r[1], !.size = r[2]] : r \in Regions}
          [] fop = "readdir" -> {[in EXCEPT !.size = i] : i \in 1 .. 2}
          [] OTHER -> {in}

(* The local of each translator as its fops find it. *)
CommonLocal(in) ==
    [fop |-> in.fop, kind |-> in.kind, makes |-> in.makes, excl |-> in.excl, name |-> in.name,
     offset |-> in.offset, size |-> in.size, op_ret |-> -1, failed |-> FALSE, call_count |-> 0,
     d_off |-> 0, listed |-> <<>>, crash |-> FALSE]

StripeLocal ==
    [op_errno |-> "0", wind_count |-> 0, unwind |-> FALSE, written |-> 0, pieces |-> <<>>,
     replies |-> <<>>, compare |-> {}]

HaLocal ==
    [op_errno |-> "0", active |-> 0, state |-> {}, isfd |-> FALSE, tries |-> 0,
     revalidate |-> FALSE, first_success |-> FALSE]

MapLocal == [op_errno |-> "0"]

UnifyLocal(y, in) ==
    [op_errno |-> "ENOENT", list |-> <<>>, stbuf |-> "none", st_ino |-> FALSE, return_eio |-> FALSE,
     revalidate |-> FALSE, sched |-> in.sched, content |-> in.content, final |-> FALSE,
     offset_list |-> [c \in Children(y) |-> 0], entry_list |-> [c \in Children(y) |-> {}],
     count_list |-> [c \in Children(y) |-> 0], inode_generation |-> 0, ns_file |-> {},
     ns_dir |-> {}, file_sum |-> {}, dir_sum |-> {}, entry_count |-> FALSE]

DhtLocal ==
    [op_errno |-> "EUCLEAN", layout |-> <<>>, gen |-> 0, cached |-> 0, hashed |-> 0,
     linkcbk |-> "none", linkto |-> 0, linkname |-> "old", dircbk |-> "none", mismatch |-> FALSE,
     need_selfheal |-> FALSE, src_hashed |-> 0, src_cached |-> 0, dst_hashed |-> 0,
     dst_cached |-> 0]

NewLocal(y, in) ==
    CommonLocal(in) @@ (CASE y.vol = "stripe" -> StripeLocal
                          [] y.vol = "ha" -> HaLocal
                          [] y.vol = "map" -> MapLocal
                          [] y.vol = "unify" -> UnifyLocal(y, in)
                          [] y.vol \in {"dht", "nufa"} -> DhtLocal)

Init ==
    /\ \E s \in Setups : \E fop \in FopsOn(s.x.kind) \cap FopsOf(s.x.vol) \cap s.fops :
          /\ x = s.x /\ disk = s.disk /\ conn = s.conn
          /\ first = [fop |-> fop, ok |-> FALSE, fault |-> FALSE, raced |-> FALSE]
    /\ l = NewLocal(x, Call0)
    /\ out = {} /\ ans = <<>>
    /\ asked = <<>>
    /\ calls = 0
    /\ budget = [down |-> MaxDown, up |-> MaxUp, refuse |-> MaxRefused]

(* The call from above. *)
CallFop ==
    /\ calls = 0
    /\ \E in \in Inputs(first.fop) : Take(Fop(x, NewLocal(x, in)), {})
    /\ calls' = 1
    /\ UNCHANGED <<disk, conn, asked, first, budget>>

Asked(w, op_errno) ==
    IF x.vol = "ha" /\ calls = 1 /\ w.op = l.fop
      THEN Append(asked, [to |-> w.to, op_errno |-> op_errno]) ELSE asked

(* A child that is connected runs the operation and says so. *)
ChildRuns ==
    \E w \in out :
        LET s == StoreOf(w.to)
            q == Run(disk[s], w, l)
        IN  /\ w.to \in Children(x) /\ w.sent /\ w.to \in conn
            /\ disk' = [disk EXCEPT ![s] = q.d]
            /\ asked' = Asked(w, q.op_errno)
            /\ Take(Callback(x, l, w, q), {w})
            /\ UNCHANGED <<conn, calls, first, budget>>

(* A child that is connected fails without running the operation. *)
ChildRefuses ==
    /\ budget.refuse > 0
    /\ \E w \in out :
          /\ w.to \in Children(x) /\ w.sent /\ w.to \in conn
          /\ asked' = Asked(w, "EIO")
          /\ Take(Callback(x, l, w, No(disk, "EIO")), {w})
    /\ budget' = [budget EXCEPT !.refuse = @ - 1]
    /\ UNCHANGED <<disk, conn, calls, first>>

(* The connection is down: the call comes back ENOTCONN, and the server may   *)
(* have run it if it was sent before the connection broke.                    *)
ChildLost ==
    \E w \in out, done \in BOOLEAN :
        LET s == StoreOf(w.to)
            q == Run(disk[s], w, l)
        IN  /\ w.to \in Children(x) /\ ~(w.sent /\ w.to \in conn)
            /\ done => w.sent /\ q.op_ret >= 0
            /\ disk' = IF done THEN [disk EXCEPT ![s] = q.d] ELSE disk
            /\ asked' = Asked(w, "ENOTCONN")
            /\ Take(Callback(x, l, w, No(disk, "ENOTCONN")), {w})
            /\ UNCHANGED <<conn, calls, first, budget>>

(* stripe_writev still has pieces to wind, or a reply is between its two locks. *)
Looping == x.vol = "stripe" /\ ((l.fop = "writev" /\ l.wind_count > 0 /\ ~l.unwind) \/ l.compare # {})
Busy == out # {} \/ Looping
Idle == calls > 0 /\ ~Busy
Faultless == budget = [down |-> MaxDown, up |-> MaxUp, refuse |-> MaxRefused]

ConnectionBreaks ==
    /\ budget.down > 0 /\ calls = 1 /\ Busy
    /\ \E c \in conn :
          /\ conn' = conn \ {c}
          /\ x' = Notify(x, c, FALSE)
    /\ budget' = [budget EXCEPT !.down = @ - 1]
    /\ UNCHANGED <<disk, l, out, ans, asked, calls, first>>

ConnectionReturns ==
    /\ budget.up > 0 /\ calls = 1 /\ Busy
    /\ \E c \in Children(x) \ conn :
          /\ \A w \in out : w.to # c
          /\ conn' = conn \cup {c}
          /\ x' = Notify(x, c, TRUE)
    /\ budget' = [budget EXCEPT !.up = @ - 1]
    /\ UNCHANGED <<disk, l, out, ans, asked, calls, first>>

(* stripe_writev is still in its loop while replies arrive. *)
WritevLoop ==
    /\ x.vol = "stripe" /\ l.fop = "writev" /\ l.wind_count > 0 /\ ~l.unwind
    /\ Take(stripe_writev_wind(x, l), {})
    /\ UNCHANGED <<disk, conn, asked, calls, first, budget>>

WritevCompare ==
    /\ x.vol = "stripe"
    /\ \E t \in l.compare :
          /\ Take(stripe_writev_compare(x, l, t), {})
          /\ first' = [first EXCEPT !.raced = @ \/ (ans' # ans /\ t.callcnt < l.wind_count)]
    /\ UNCHANGED <<disk, conn, asked, calls, budget>>

(* The caller asks for the rest of the directory. *)
ReaddirMore ==
    /\ calls = 1 /\ Idle /\ l.fop = "readdir" /\ x.vol \in {"map", "dht"}
    /\ ans # <<>> /\ ans[1].op_ret > 0
    /\ Len(l.listed) <= 2 * Len(Dents) * x.n
    /\ LET k == [NewLocal(x, [Call0 EXCEPT !.fop = "readdir", !.kind = x.kind, !.size = l.size,
                                            !.offset = l.d_off])
                  EXCEPT !.listed = l.listed]
           res == Fop(x, k)
       IN  x' = res.x /\ l' = res.l /\ ans' = res.ans /\ out' = {Sent(w) : w \in res.wind}
    /\ UNCHANGED <<disk, conn, asked, calls, first, budget>>

NoLayout(y) == [y EXCEPT !.hasctx = FALSE, !.ctx = [gen |-> 0, list |-> <<>>]]

(* The translator of a client that has just started: init, then CHILD_UP from *)
(* every child; the contexts are empty.                                       *)
Started(y) ==
    LET unknown == [y EXCEPT !.kind = "none"]
        s == CASE y.vol = "stripe" -> stripe_init(unknown)
               [] y.vol = "ha" -> ha_init(ha_forget(unknown))
               [] y.vol = "map" -> [unknown EXCEPT !.ctx = 0]
               [] y.vol = "unify" -> unify_init([unknown EXCEPT !.list = <<>>, !.listnew = <<>>])
               [] y.vol = "dht" -> dht_init(NoLayout(unknown))
               [] y.vol = "nufa" -> nufa_init(NoLayout(unknown))
    IN  FoldLeft(LAMBDA z, c : Notify(z, c, TRUE), s, [c \in Children(y) |-> c])

(* Everyone is connected again; another client looks a name up. *)
LookupAfter ==
    /\ calls = 1 /\ Idle /\ l.fop \in NameOps /\ ans # <<>> /\ ~l.crash
    /\ first' = [fop |-> first.fop, ok |-> ans[1].op_ret >= 0, fault |-> ~Faultless,
                 raced |-> FALSE]
    /\ conn' = Children(x)
    /\ \E nm \in Names :
          LET y == Started(x)
              res == Fop(y, NewLocal(y, [Call0 EXCEPT !.fop = "lookup", !.name = nm]))
          IN  /\ x' = res.x /\ l' = res.l /\ ans' = res.ans
              /\ out' = {[to |-> w.to, op |-> w.op, cbk |-> w.cbk, no |-> w.no, sent |-> TRUE] :
                            w \in res.wind}
    /\ calls' = 2
    /\ budget' = [down |-> 0, up |-> 0, refuse |-> 0]
    /\ asked' = <<>>
    /\ UNCHANGED disk

Next ==
    \/ CallFop
    \/ ChildRuns
    \/ ChildRefuses
    \/ ChildLost
    \/ ConnectionBreaks
    \/ ConnectionReturns
    \/ WritevLoop
    \/ WritevCompare
    \/ ReaddirMore
    \/ LookupAfter

Spec == Init /\ [][Next]_vars

(* ---- properties ---- *)

(* Where the code is known to answer twice.  A reply of stripe_writev finds   *)
(* callcnt equal to wind_count after the lock, the loop then counts the last  *)
(* piece and raises unwind, and the reply unwinds on the old comparison       *)
(* (stripe.c:2809).                                                           *)
WritevRace == first.raced

(* A reply of ha_create to a path after the first success winds create again  *)
(* to the paths after it, which have been sent it already (ha.c:1668): with   *)
(* three paths or more one of them answers, and unwinds, twice.               *)
CreatedAgain ==
    x.vol = "ha" /\ l.fop = "create"
    /\ \E i, j \in DOMAIN asked : i # j /\ asked[i].to = asked[j].to

(* Where the code is known to divide by zero: nufa presets op_ret, so a       *)
(* directory that no reachable child has is healed (nufa.c, dht-selfheal.c:270). *)
NufaDown == x.vol = "nufa" /\ l.fop = "lookup" /\ ~Faultless

(* A directory of dht some child of which has lost its range: "TODO: give a   *)
(* fix to these non-virgins" (dht-selfheal.c:354), its lookup fails for good. *)
PartlyLaid ==
    /\ x.vol \in {"dht", "nufa"}
    /\ \E s \in DOMAIN disk, t \in DOMAIN disk, nm \in Names :
          disk[s][nm].t = "dir" /\ disk[t][nm].t = "dir"
          /\ disk[s][nm].lay = <<>> /\ disk[t][nm].lay # <<>>

(* The frame of a call is unwound at most once whatever order the children    *)
(* reply in, and whichever of them fail, break or return on the way           *)
(* (STACK_UNWIND frees the frame), but in the two cases above.                *)
AnsweredOnce == Len(ans) <= 1 \/ WritevRace \/ CreatedAgain

(* Once every child has answered what was wound to it, the caller has its     *)
(* answer: no path through the callbacks forgets to unwind.                   *)
AlwaysAnswered == Idle /\ ~l.crash => ans # <<>>

(* The caller gets one answer to its call: never none once the children have  *)
(* replied, and never two, except where a comparison of stripe_writev_cbk was *)
(* overtaken by the loop or a path of ha was sent the same create twice       *)
(* (STACK_UNWIND in every callback).                                          *)
AnsweredExactlyOnce == AnsweredOnce /\ AlwaysAnswered

(* No callback dereferences a child that was not found or divides by an empty *)
(* set of them (dht_selfheal_fix_this_virgin, the STACK_WINDs to a subvolume  *)
(* that may be NULL).                                                         *)
NoCrash == NufaDown \/ (~l.crash /\ \A w \in out : w.to # 0)

Answered(ok) == ans # <<>> /\ (ans[1].op_ret >= 0) = ok
LookedUp(nm) == calls = 2 /\ Idle /\ l.name = nm

(* The stores the translator takes the name it looked up to be on. *)
Place ==
    CASE x.vol = "stripe" -> {s \in Children(x) : disk[1][l.name].t # "sym" \/ s = 1}
      [] x.vol = "ha" -> {1}
      [] x.vol = "map" -> {x.ctx}
      [] x.vol = "unify" -> OnStorage(x, x.list)
      [] x.vol \in {"dht", "nufa"} -> {dht_subvol_get_cached(x)}

(* A name whose mknod, create, mkdir or symlink was answered with success is  *)
(* found by another client's lookup, on a store that has it, whatever failed  *)
(* meanwhile: the pieces of stripe, both copies of unify, the linkfile and    *)
(* the ranges of dht are in place before the answer.                          *)
CreatedFound ==
    LookedUp("old") /\ first.ok /\ first.fop \in MakeOps /\ ~PartlyLaid =>
        Answered(TRUE) /\ (first.fop # "mkdir" => \E c \in Place : disk[c].old.t \notin {"none", "link"})

(* With no failure, a name that was unlinked, removed or renamed away is gone *)
(* for every client: no piece, namespace copy or linkfile of it stays behind. *)
RemovedGone ==
    LookedUp("old") /\ first.ok /\ ~first.fault /\ first.fop \in {"unlink", "rmdir", "rename"} =>
        Answered(FALSE)

(* With no failure, another client finds the renamed or linked object under   *)
(* its new name, at every store the translator then takes it to be on, over   *)
(* every placement of the two names: never the object the target replaced.    *)
RenamedFound ==
    LookedUp("new") /\ first.ok /\ ~first.fault /\ first.fop \in {"rename", "link"}
      /\ ~PartlyLaid /\ ~(x.vol = "map" /\ get_mapping_subvol_from_path(x, "new") = 0) =>
        Answered(TRUE) /\ \A c \in Place : disk[c].new.id = "A"

(* What another client finds after a call that made, removed or moved a name  *)
(* is what the answer of that call said.                                      *)
FoundAsAnswered == CreatedFound /\ RemovedGone /\ RenamedFound

(* Whatever child fails, breaks or returns in the middle, a rename or a link  *)
(* never leaves the object under neither name.                                *)
FileNotLost ==
    Idle /\ first.fop \in {"rename", "link"} =>
        \E s \in DOMAIN disk, nm \in Names : disk[s][nm].id = "A"

(* The calls ha makes to one path at a time. *)
OneByOne == HaFops \ {"lookup", "open", "opendir", "create", "lk"}
Makes == {"mknod", "mkdir", "symlink", "link"}

(* The answer of a path on which ha goes on to the next: its connection broke *)
(* (ha_handle_cbk), or any error of a make (ha_mknod_cbk and its siblings).   *)
GivenUp(a) == a.op_errno = "ENOTCONN" \/ (l.fop \in Makes /\ a.op_errno # "0")

(* ha tries its paths in turn: a call is sent to another path only after the  *)
(* last one was given up, never to the same path again, so a call that a path *)
(* has answered is not repeated; and the caller is told ENOTCONN only when    *)
(* every path that was usable has been tried.                                 *)
TriedInTurn ==
    x.vol = "ha" /\ calls = 1 /\ l.fop \in OneByOne =>
        /\ \A i \in DOMAIN asked : ~GivenUp(asked[i]) =>
               i = Len(asked) /\ \A w \in out : w.op # l.fop
        /\ \A i, j \in DOMAIN asked : asked[i].to = asked[j].to => i = j
        /\ ans # <<>> /\ ans[1].op_ret = -1 /\ ans[1].op_errno = "ENOTCONN" =>
               \A c \in l.state : \E i \in DOMAIN asked : asked[i].to = c

(* Every byte of a region goes to exactly one child, the one its block of     *)
(* stripe_size falls on, in reads and in writes alike: what was written is    *)
(* what is read.                                                              *)
RightStripe ==
    x.vol = "stripe" /\ Idle /\ l.pieces # <<>> =>
        \A b \in l.offset .. l.offset + l.size - 1 :
            LET on == {i \in DOMAIN l.pieces : l.pieces[i].offset <= b
                                               /\ b < l.pieces[i].offset + l.pieces[i].size}
            IN  /\ Cardinality(on) = 1
                /\ \A i \in on : l.pieces[i].child = 1 + ((b \div x.stripe_size) % x.n)

(* unify's self-heal, in the foreground or after the answer, leaves every     *)
(* name of a storage child in the namespace and every directory of the        *)
(* namespace on every storage child, if no call of it fails.                  *)
HealMakesNamespace ==
    x.vol = "unify" /\ calls = 1 /\ Idle /\ l.fop = "lookup" /\ x.kind = "dir"
      /\ x.self_heal # "off" /\ Faultless =>
        \A n \in DentNames : \A s \in Children(x) \ {NS(x)} :
            /\ disk[s].dents[n] # "none" => disk[NS(x)].dents[n] # "none"
            /\ disk[NS(x)].dents[n] = "dir" => disk[s].dents[n] # "none"

(* A file of unify is on one storage child: after a rename over a file of     *)
(* another child the replaced copy is removed, and a make leaves one.         *)
OneCopy ==
    x.vol = "unify" /\ calls = 1 /\ Idle /\ Faultless /\ Answered(TRUE) /\ x.kind # "dir"
      /\ first.fop \in {"rename", "create", "mknod", "symlink"} =>
        LET nm == IF first.fop = "rename" THEN "new" ELSE "old"
        IN  Cardinality({s \in Children(x) \ {NS(x)} : disk[s][nm].t # "none"}) = 1

(* A file is neither lost by a rename or link that failed half way nor left   *)
(* on two storage children by one that did not.                               *)
NeitherLostNorDoubled == FileNotLost /\ OneCopy

(* A walk through a directory to its end gives each name once: the offsets of *)
(* map and dht carry the child and the place in it.  (dht: a batch at least   *)
(* as large as a child's directory, see README.)                              *)
ListedOnce ==
    calls = 1 /\ l.fop = "readdir" /\ Faultless
      /\ (x.vol = "map" \/ (x.vol = "dht" /\ l.size >= Len(Dents)))
      /\ (\A s \in DOMAIN disk : is_dir(disk[s].old)) =>
        \A n \in DentNames :
            LET times == Cardinality({i \in DOMAIN l.listed : l.listed[i] = n})
                ended == Idle /\ ans # <<>> /\ ans[1].op_ret = 0
            IN  /\ times <= 1
                /\ ended /\ (\E s \in DOMAIN disk : disk[s].dents[n] # "none") => times = 1

(* The ranges of a directory that dht_mkdir or the heal of dht_lookup has     *)
(* just settled give every hash to exactly one child, in the inode's context  *)
(* and on the children alike.                                                 *)
LaidOut ==
    x.vol \in {"dht", "nufa"} /\ calls = 1 /\ Idle /\ Faultless /\ Answered(TRUE)
      /\ first.fop \in {"mkdir", "lookup"} /\ l.layout # <<>> /\ is_dir(disk[1].old) /\ ~PartlyLaid =>
        /\ \A h \in 0 .. Top : Cardinality({i \in DOMAIN x.ctx.list :
                                   x.ctx.list[i].start <= h /\ h <= x.ctx.list[i].stop}) = 1
        /\ \A i \in DOMAIN x.ctx.list :
               disk[x.ctx.list[i].xl].old.lay = <<x.ctx.list[i].start, x.ctx.list[i].stop>>

Overlap(r, s) == r # <<>> /\ s # <<>> /\ r[2] # 0 /\ s[2] # 0 /\ r[1] <= s[2] /\ s[1] <= r[2]

(* Where the code is known to give a hash out twice: a lookup does not reach  *)
(* the child that has a range and takes the directory of the others for a     *)
(* virgin (dht-selfheal.c:336).                                               *)
HiddenRange ==
    calls = 1 /\ l.fop = "lookup"
    /\ \E i \in DOMAIN l.layout : l.layout[i].err = "ENOTCONN" /\ disk[l.layout[i].xl].old.lay # <<>>

(* Whichever children refused or were lost while ranges were stored, and also *)
(* once another client has looked the directory up and healed it, no hash     *)
(* is in the ranges of two children.                                          *)
NoHashTwice ==
    x.vol \in {"dht", "nufa"} /\ ~HiddenRange =>
        \A s, t \in DOMAIN disk : s # t => ~Overlap(disk[s].old.lay, disk[t].old.lay)

(* A directory's ranges are sound: complete where nothing failed, and never   *)
(* overlapping (dht_selfheal_fix_this_virgin, dht_selfheal_dir_xattr).        *)
LayoutSound == LaidOut /\ NoHashTwice
=============================================================================
