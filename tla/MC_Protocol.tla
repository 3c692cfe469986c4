---------------------------- MODULE MC_Protocol ----------------------------
EXTENDS Protocol

CONSTANTS f1, f2

\* One fop of every kind. Two descriptors need three calls to meet in one slot.
Descriptors == [ops |-> {"open", "fchmod"}, calls |-> 3]
Pairs == {[ops |-> ops, calls |-> 2] :
             ops \in {{"create", "writev"}, {"lookup", "unlink"},
                      {"stat", "checksum"}, {"mknod", "statfs"}}}
SmallMixes == {Descriptors} \cup Pairs
=============================================================================
