------------------------- MODULE MC_AfrTransaction -------------------------
(***************************************************************************)
(* Small volumes and workloads for AfrTransaction.                         *)
(***************************************************************************)
EXTENDS AfrTransaction, TLC

CONSTANTS m1, m2

\* Names a and b of one directory, name c of another, and a file of two
\* blocks.
MCCells == {"a", "b", "c", "b1", "b2", "mode"}
MCKeys == {"dirA", "dirB", "data", "metadata"}
MCKeyOf ==
  [x \in MCCells |-> CASE x \in {"a", "b"} -> "dirA" [] x = "c" -> "dirB"
                       [] x = "mode" -> "metadata" [] OTHER -> "data"]
Blocks == {"b1", "b2"}

\* Lock-server-counts: those of the default options, and all children.
OneLock == [t \in Modes |-> IF t = "METADATA" THEN 0 ELSE 1]
AllLocks(n) == [t \in Modes |-> n]

Base ==
  [clients |-> {m1, m2}, n |-> 2, ops |-> {afr_create("a")},
   lock_servers |-> AllLocks(2), change_log |-> {"DATA", "ENTRY"}, dup |-> FALSE,
   no_locking |-> {}, no_xattrs |-> {}, faults |-> {},
   starts |-> 2, drops |-> 1, reconnects |-> 0, crashes |-> 0]

Errors == {"lock", "preop", "fop", "postop"}

\* The setups with one client, for either client.
Alone(setup) == {[setup EXCEPT !.clients = {m}] : m \in {m1, m2}}

\* Two clients on one name; a connection is lost and a client crashes.
Entry == {[Base EXCEPT !.crashes = 1]}

\* A connection comes back during an operation.
Back == {[Base EXCEPT !.ops = {afr_unlink("a")}, !.reconnects = 1, !.faults = {"fop"}]}

\* Children answer EIO at any phase.
Refused == {[Base EXCEPT !.ops = {afr_mkdir("a"), afr_rmdir("a")}, !.drops = 0,
                         !.faults = Errors]}

\* Three children; a lone client loses two of them.
ThreeChildren == [Base EXCEPT !.n = 3, !.lock_servers = AllLocks(3), !.ops = {afr_mknod("a")}]
Three == {ThreeChildren} \cup Alone([ThreeChildren EXCEPT !.drops = 2])

\* Renames between two directories, whose changelogs are counted separately.
Rename ==
  Alone([Base EXCEPT !.ops = {afr_symlink("c"), afr_rename("c", "a", "a", "c")},
                     !.lock_servers = OneLock, !.crashes = 1])

\* A child with neither locks nor extended attributes.
Mixed ==
  Alone([Base EXCEPT !.n = 3, !.lock_servers = OneLock, !.no_locking = {3},
                     !.no_xattrs = {3}, !.faults = Errors, !.reconnects = 1])

\* One open file: the first write counts, the flush takes it back.
OpenFile ==
  Alone([Base EXCEPT !.ops = {afr_writev({"b1"}), afr_ftruncate({"b1"}, {"b2"}),
                              afr_flush(Blocks)},
                     !.lock_servers = OneLock, !.starts = 4, !.crashes = 1])

\* The same, and children that refuse a write, or are lost and come back.
OpenFileBack ==
  Alone([Base EXCEPT !.ops = {afr_writev({"b1"}), afr_flush(Blocks)},
                     !.lock_servers = OneLock, !.starts = 4, !.reconnects = 1,
                     !.faults = {"fop"}])

\* Metadata operations and the operations on a path, all journaled: each of them,
\* and some one after the other.
Journal == [Base EXCEPT !.change_log = Modes, !.crashes = 1]
Meta ==
  Alone([Journal EXCEPT !.ops = {afr_chmod, afr_fchmod, afr_chown, afr_fchown, afr_utimens,
                                 afr_setxattr, afr_removexattr, afr_link("a", "b"),
                                 afr_truncate({}, Blocks), afr_truncate({"b1"}, {"b2"})},
                        !.starts = 1])
  \cup Alone([Journal EXCEPT !.ops = {afr_fchmod, afr_link("a", "b"),
                                      afr_truncate({"b1"}, {"b2"})}])

\* Two clients change the mode of one file: inode locks that conflict.
Contend == {[Base EXCEPT !.ops = {afr_chmod}, !.change_log = Modes, !.drops = 0]}

AllSetups == Entry \cup Back \cup Refused \cup Three \cup Rename \cup Mixed \cup OpenFile
  \cup OpenFileBack \cup Meta \cup Contend

\* One operation, and a connection that is lost.
FopLost == Alone([Base EXCEPT !.starts = 1])

Perms == Permutations({m1, m2})
=============================================================================
