SPECIFICATION SFairSpec
CONSTANTS
  c1 = c1
  c2 = c2
  c3 = c3
  t1 = t1
  t2 = t2
  Threads = {t1, t2}
  Frames = {1, 2, 3}
  Transports = {c1, c2, c3}
  Names = {}
  AllNames = all_names
  Free = "free"
  Types = {"WR"}
  Disciplined = FALSE
  OneLockPerClient = TRUE
INVARIANT TableComplete
PROPERTY EveryRequestAnswered
PROPERTY DeadHoldNothing
