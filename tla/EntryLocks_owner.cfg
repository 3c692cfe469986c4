SPECIFICATION Spec
CONSTANTS
  c1 = c1
  c2 = c2
  t1 = t1
  t2 = t2
  a = a
  b = b
  Threads = {t1, t2}
  Frames = {1, 2, 3}
  Transports = {c1, c2}
  Names = {a, b}
  AllNames = all_names
  Free = "free"
  Types = {"WR"}
  Disciplined = FALSE
INVARIANT HolderKeepsLock
