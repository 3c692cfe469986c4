SPECIFICATION Spec
CONSTANTS
  m1 = m1
  m2 = m2
  Clients = {m1, m2}
  Cells <- MCCells
  Keys <- MCKeys
  KeyOf <- MCKeyOf
  Setups <- AllSetups
SYMMETRY Perms
INVARIANTS
  FreshUntilMiscounted
  DivergenceKnown
  WritersExclude
  NoLockLeft
  JournalClears
  NoCircularWait
