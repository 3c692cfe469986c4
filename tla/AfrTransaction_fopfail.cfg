SPECIFICATION Spec
CONSTANTS
  m1 = m1
  m2 = m2
  Clients = {m1, m2}
  Cells <- MCCells
  Keys <- MCKeys
  KeyOf <- MCKeyOf
  Setups <- FopLost
SYMMETRY Perms
INVARIANT SourceFresh
