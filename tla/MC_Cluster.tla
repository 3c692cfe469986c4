------------------------------ MODULE MC_Cluster ------------------------------
EXTENDS Cluster

MC_Regions == {<<0, 2>>, <<1, 4>>, <<3, 4>>}

Empty == [p |-> "none", q |-> "none"]
Store(old, new, dents, newfull) == [old |-> old, new |-> new, dents |-> dents, newfull |-> newfull]
Plain(e) == Store(e, Nothing, Empty, FALSE)

(* The stores where only those of set hold an entry under the old name. *)
Holds(n, set, t) ==
    [s \in 1 .. n |-> Plain(IF s \in set THEN Entry(t, "A") ELSE Nothing)]

Setup(x0, disk0, fops) == [x |-> x0, conn |-> 1 .. x0.n, disk |-> disk0, fops |-> fops]

Kinds == {"none", "dir", "reg", "sym"}
AllFops == FopsOn("none") \cup FopsOn("dir") \cup FopsOn("reg") \cup FopsOn("sym")

StripeSetups ==
    {Setup([vol |-> "stripe", n |-> n, kind |-> kind, up |-> 1 .. n, first_child_down |-> FALSE,
            xattr_supported |-> xattr, stripe_size |-> 2, fdctx |-> kind = "reg"],
           Holds(n, CASE kind = "none" -> {} [] kind = "sym" -> {1} [] OTHER -> 1 .. n, kind),
           IF n = 2 THEN AllFops ELSE NameOps \cup {"lookup", "open"}) :
        kind \in Kinds, xattr \in BOOLEAN, n \in {2, 3}}

HaSetups ==
    {Setup([vol |-> "ha", n |-> n, kind |-> kind, up |-> 1 .. n, pref |-> pref,
            hasctx |-> kind # "none", ctx |-> IF kind = "none" THEN {} ELSE 1 .. n,
            hasfd |-> kind \in {"reg", "dir"}, fdstate |-> 1 .. n, fdactive |-> 1,
            ino |-> IF kind = "none" THEN 0 ELSE 1],
           Holds(n, IF kind = "none" THEN {} ELSE {1}, kind),
           AllFops) :
        kind \in Kinds, pref \in {0, 2}, n \in {2, 3}}

(* Two children and the directories they may be given. *)
Pair(d, c) == [directory |-> d, xl |-> c]
MapVolfiles == {[pairs |-> p, default |-> d] :
                   p \in {<<Pair("a", 2)>>, <<Pair("a", 2), Pair("b", 1)>>, <<Pair("*", 2)>>,
                          <<Pair("a", 2), Pair("*", 1)>>, <<Pair("a", 2), Pair("b", 2)>>},
                   d \in 0 .. 1}

MapX(v, kind, dirnew, root) ==
    LET x0 == map_init([vol |-> "map", n |-> 2, kind |-> kind, map |-> <<>>, default_xl |-> 0,
                        mapped |-> {}, valid |-> TRUE, dir |-> [old |-> "a", new |-> dirnew],
                        ctx |-> 0, root |-> root], v.pairs, v.default)
    IN  IF root \/ kind = "none" THEN x0
        ELSE [x0 EXCEPT !.ctx = get_mapping_subvol_from_path(x0, "old")]

MapSetups ==
    {s \in {LET x0 == MapX(v, kind, dirnew, FALSE)
            IN  Setup(x0, Holds(2, {x0.ctx}, kind), AllFops) :
               v \in MapVolfiles, kind \in Kinds, dirnew \in {"a", "b", "c"}} : s.x.valid}
    \cup {Setup(MapX([pairs |-> <<Pair("a", 2)>>, default |-> 0], "dir", "b", TRUE),
                [s \in 1 .. 2 |-> Store(Entry("dir", "A"), Nothing,
                                        [p |-> IF s = p THEN "dir" ELSE "none",
                                         q |-> IF s = q THEN "file" ELSE "none"], FALSE)],
                {"lookup", "readdir", "opendir", "statfs", "stat"}) :
             p \in {1, 2}, q \in {0, 1, 2}}

UnifyX(kind, list, listnew, heal, optimist) ==
    [vol |-> "unify", n |-> 3, kind |-> kind, list |-> list, listnew |-> listnew,
     fdchild |-> IF kind = "reg" THEN 1 ELSE 0, optimist |-> optimist, self_heal |-> heal,
     generation |-> 1, dirgen |-> 0, num_child_up |-> 2, is_up |-> TRUE]

NewOn(d, set, t) == [s \in DOMAIN d |-> IF s \in set THEN [d[s] EXCEPT !.new = Entry(t, "B")] ELSE d[s]]

UnifySetups ==
    {Setup(UnifyX(kind, IF kind \in {"reg", "sym"} THEN <<1, 3>> ELSE <<>>, <<>>, "off", FALSE),
           Holds(3, CASE kind = "none" -> {} [] kind = "dir" -> 1 .. 3 [] OTHER -> {1, 3}, kind),
           AllFops) : kind \in Kinds}
    \cup {Setup(UnifyX("reg", <<1, 3>>, <<>>, "off", TRUE), Holds(3, {1, 3}, "reg"), {"lookup", "open"})}
    \cup {Setup(UnifyX("none", <<>>, <<>>, "off", FALSE), Holds(3, set, "reg"), {"lookup"}) :
             set \in SUBSET (1 .. 3)}
    \cup {Setup(UnifyX("reg", <<1, 3>>, <<s, 3>>, "off", FALSE),
                NewOn(Holds(3, {1, 3}, "reg"), {s, 3}, "reg"), {"rename"}) : s \in 1 .. 2}
    \cup {Setup(UnifyX("dir", <<>>, <<>>, heal, FALSE),
                [s \in 1 .. 3 |-> Store(Entry("dir", "A"), Nothing,
                                        [p |-> IF s \in P THEN "dir" ELSE "none",
                                         q |-> IF s \in Q THEN "file" ELSE "none"], FALSE)],
                {"lookup"}) :
             heal \in {"foreground", "background"}, P \in {{}, {3}, {1}, {1, 2, 3}}, Q \in {{1, 3}, {2}}}

(* Half of the hashes to each of two subvolumes. *)
Whole == <<LayoutEntry(1, 0, 7, "ok")>>
Halves == <<LayoutEntry(1, 0, 3, "ok"), LayoutEntry(2, 4, 7, "ok")>>
Thirds == <<LayoutEntry(1, 0, 1, "ok"), LayoutEntry(2, 2, 3, "ok"), LayoutEntry(3, 4, 7, "ok")>>
HashTo(c) == 2 * (c - 1)     \* a hash in the range of c, with thirds
HashTo2(c) == 4 * (c - 1)

DhtX(vol, n, kind, h1, h2, hasctx, ctx, ctxnew) ==
    [vol |-> vol, n |-> n, kind |-> kind, up |-> 1 .. n, gen |-> n + 1, root |-> FALSE,
     hash |-> IF n = 3 THEN [old |-> HashTo(h1), new |-> HashTo(h2), p |-> 1, q |-> 5]
              ELSE [old |-> HashTo2(h1), new |-> HashTo2(h2), p |-> 1, q |-> 5],
     parent |-> CASE n = 1 -> Whole [] n = 2 -> Halves [] n = 3 -> Thirds,
     hasctx |-> hasctx, ctx |-> ctx, ctxnew |-> ctxnew, search_unhashed |-> FALSE,
     local_volume |-> 1]

NoCtx == [gen |-> 0, list |-> <<>>]
Linkfile(to) == [Entry("link", "L") EXCEPT !.to = to]

(* The file is on c, with a linkfile where its name hashes to. *)
FileOn(n, c, h, t) ==
    [s \in 1 .. n |-> Plain(IF s = c THEN Entry(t, "A") ELSE IF s = h THEN Linkfile(c) ELSE Nothing)]
NewFileOn(d, c, h) ==
    [s \in DOMAIN d |-> IF s = c THEN [d[s] EXCEPT !.new = Entry("reg", "B")]
                        ELSE IF s = h /\ c # 0 THEN [d[s] EXCEPT !.new = Linkfile(c)] ELSE d[s]]

DhtSetups ==
    \* files with their context, all fops
    {Setup(DhtX(vol, 2, t, h, 3 - h, TRUE, dht_layout_for_subvol(1), <<>>), FileOn(2, 1, h, t), AllFops) :
        vol \in {"dht", "nufa"}, h \in 1 .. 2, t \in {"reg", "sym"}}
    \* rename over every placement of the two names on three subvolumes
    \cup {Setup(DhtX("dht", 3, "reg", h1, h2, TRUE, dht_layout_for_subvol(1),
                     IF c2 = 0 THEN <<>> ELSE dht_layout_for_subvol(c2).list),
                NewFileOn(FileOn(3, 1, h1, "reg"), c2, h2), {"rename", "link"}) :
             h1 \in 1 .. 3, h2 \in 1 .. 3, c2 \in 0 .. 3}
    \* fresh lookups, with stale and missing linkfiles
    \cup {Setup([DhtX(vol, 2, "none", h, 3 - h, FALSE, NoCtx, <<>>) EXCEPT !.search_unhashed = unhashed],
                [s \in 1 .. 2 |-> Plain(IF s = c THEN Entry("reg", "A")
                                        ELSE IF link # 9 THEN Linkfile(link) ELSE Nothing)], {"lookup"}) :
             vol \in {"dht", "nufa"}, h \in 1 .. 2, c \in 0 .. 2, link \in {0, 1, 2, 9},
             unhashed \in BOOLEAN}
    \* new names
    \cup {Setup(DhtX(vol, n, "none", h, 1, FALSE, NoCtx, <<>>), Holds(n, {}, "none"), AllFops) :
             vol \in {"dht", "nufa"}, n \in 1 .. 2, h \in 1 .. 2}
    \* names that hash into a hole of their directory's layout
    \cup {Setup([DhtX("dht", 2, kind, 2, 1, kind = "reg", dht_layout_for_subvol(1), <<>>)
                    EXCEPT !.parent = <<LayoutEntry(1, 0, 3, "ok")>>],
                Holds(2, IF kind = "reg" THEN {1} ELSE {}, kind), NameOps \cup {"lookup"}) :
             kind \in {"none", "reg"}}
    \* directories
    \cup {Setup(DhtX(vol, 2, "dir", 1, 2, hasctx, IF hasctx THEN [gen |-> 0, list |-> Halves] ELSE NoCtx, <<>>),
                [s \in 1 .. 2 |-> Store(IF s \in on THEN [Entry("dir", "A") EXCEPT !.lay = IF s \in laid
                                            THEN <<Halves[s].start, Halves[s].stop>> ELSE <<>>] ELSE Nothing,
                                        Nothing, [p |-> IF 1 \in dents /\ s = 1 THEN "file" ELSE "none",
                                                  q |-> IF 2 \in dents /\ s \in on THEN "dir" ELSE "none"], FALSE)],
                IF hasctx THEN AllFops ELSE {"lookup"}) :
             vol \in {"dht", "nufa"}, hasctx \in BOOLEAN, on \in {{1}, {1, 2}},
             laid \in {{}, {1}, {1, 2}}, dents \in {{}, {1, 2}}}

MC_Setups == StripeSetups \cup HaSetups \cup MapSetups \cup UnifySetups \cup DhtSetups
=============================================================================
