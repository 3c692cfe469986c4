SPECIFICATION FairSpec
CONSTANTS
  fuse = fuse
  poll = poll
  Callers = {fuse}
  Poller = poll
  OpenFlags = {"O_RDWR", "mandatory"}
  Offsets = {0, 2}
  Lengths = {2}
  AggregateSize = 3
  WindowSize = 3
  DisableTill = 0
  MaxVector = 2
  Environments <- AllSetups
  MaxWrites = 3
  MaxSyncs = 1
INVARIANTS
  BatchContiguous
  NothingLost
  AckedOnceAndTruthfully
  ErrorRemembered
  OrderKept
PROPERTY EveryWriteAcked
