--------------------------- MODULE MC_WriteBehind ---------------------------
(* Small instances of WriteBehind for TLC.                                 *)
EXTENDS WriteBehind

CONSTANTS fuse, poll

\* The client (fuse thread and poll thread), and a single-threaded process
\* without and with flush-behind.
Fuse == [single |-> FALSE, in_order |-> FALSE, flush_behind |-> FALSE]
Inline == [single |-> TRUE, in_order |-> TRUE, flush_behind |-> FALSE]
Behind == [single |-> TRUE, in_order |-> TRUE, flush_behind |-> TRUE]

AllSetups == {Fuse, Inline, Behind}
Threaded == {Fuse}
=============================================================================
