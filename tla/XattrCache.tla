----------------------------- MODULE XattrCache -----------------------------
(***************************************************************************)
(* The write-back cache that storage/posix keeps of the arrays xattrop     *)
(* counts in.  An entry is [ino, val, dirty, by, nr]: the inode it is for  *)
(* (0 when it is free), the array, whether the disk is behind, the handle  *)
(* through which the disk is read and written (a path or a descriptor) and *)
(* how often it was used.                                                  *)
(***************************************************************************)
EXTENDS Naturals, Sequences, FiniteSets

NoEntry == [ino |-> 0, val |-> 0, dirty |-> FALSE, by |-> [path |-> "", fd |-> 0], nr |-> 0]

__cache_lookup(cache, i) == {k \in DOMAIN cache : cache[k].ino = i}

\* The first entry among those used least.
__cache_least_used_entry(cache) ==
    CHOOSE k \in DOMAIN cache :
        \A j \in DOMAIN cache : cache[k].nr < cache[j].nr \/ (cache[k].nr = cache[j].nr /\ k <= j)

__copy_handle(by) == by

\* The file a handle leads to now: the one its path names (0 when there is none), or the
\* one its descriptor has open.
Leads(by, names, inoOf) == IF by.path # "" THEN names[by.path] ELSE inoOf[by.fd]

__hgetxattr(by, d) == IF Leads(by, d.names, d.ino) = 0 THEN 0 ELSE d.disk[Leads(by, d.names, d.ino)]

\* d is [disk, names, ino, strayed]; strayed collects the files whose count a handle that
\* leads elsewhere has missed or hit.
__hsetxattr(by, i, v, d) ==
    LET j == Leads(by, d.names, d.ino)
    IN  [d EXCEPT !.disk = IF j = 0 THEN @ ELSE [@ EXCEPT ![j] = v],
                  !.strayed = IF j = i THEN @ ELSE @ \cup {i, j}]

__cache_populate_entry(i, by, d) ==
    [ino |-> i, val |-> __hgetxattr(by, d), dirty |-> FALSE, by |-> __copy_handle(by), nr |-> 1]

\* What the disk is once an entry has been written back; the entry becomes free.
__cache_flush_entry(e, d) == IF e.dirty THEN __hsetxattr(e.by, e.ino, e.val, d) ELSE d

\* Entries whose inode is in set are written back, one after the other: [cache, d].
RECURSIVE Flushed(_, _, _)
Flushed(set, cache, d) ==
    IF \A k \in DOMAIN cache : cache[k].ino \notin set THEN [cache |-> cache, d |-> d]
    ELSE LET k == CHOOSE k \in DOMAIN cache :
                      cache[k].ino \in set /\ \A j \in DOMAIN cache : cache[j].ino \in set => k <= j
         IN  Flushed(set, [cache EXCEPT ![k] = NoEntry], __cache_flush_entry(cache[k], d))

posix_xattr_cache_flush(i, cache, d) == Flushed({i}, cache, d)

posix_xattr_cache_flush_all(cache, d) == Flushed({cache[k].ino : k \in DOMAIN cache} \ {0}, cache, d)

\* The array of an inode, brought into the cache in place of the entry used least: [cache, d, val].
posix_xattr_cache_read(i, by, cache, d) ==
    LET hit == __cache_lookup(cache, i)
        k == IF hit # {} THEN CHOOSE k \in hit : TRUE ELSE __cache_least_used_entry(cache)
        d1 == IF hit # {} THEN d ELSE __cache_flush_entry(cache[k], d)
        e == IF hit # {} THEN [cache[k] EXCEPT !.nr = @ + 1] ELSE __cache_populate_entry(i, by, d1)
        astray == hit = {} /\ Leads(by, d.names, d.ino) # i
    IN  [cache |-> [cache EXCEPT ![k] = e], val |-> e.val,
         d |-> IF astray THEN [d1 EXCEPT !.strayed = @ \cup {i, Leads(by, d.names, d.ino)}] ELSE d1]

\* Mutant: an array whose entry was flushed meanwhile is dropped.
CacheWriteOnly(i, by, v, cache, d) ==
    [cache |-> [k \in DOMAIN cache |->
                    IF cache[k].ino = i THEN [cache[k] EXCEPT !.val = v, !.dirty = TRUE, !.nr = @ + 1] ELSE cache[k]],
     d |-> d]

\* The array is written to the entry; one that was flushed meanwhile goes to the disk: [cache, d].
posix_xattr_cache_write(i, by, v, cache, d) ==
    LET hit == __cache_lookup(cache, i)
    IN  IF hit = {} THEN [cache |-> cache, d |-> __hsetxattr(by, i, v, d)]
        ELSE [cache |-> [k \in DOMAIN cache |->
                             IF k \in hit THEN [cache[k] EXCEPT !.val = v, !.dirty = TRUE, !.nr = @ + 1]
                             ELSE cache[k]],
              d |-> d]
=============================================================================
