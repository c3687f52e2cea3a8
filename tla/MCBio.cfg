CONSTANTS
  w = w
  x = x
  Contents <- SomeContents
  Procs = {p1, p2}
  Blocks = {w, x, y, z}
  BadBlocks = {w}
  Vals = {0, 1}
  NBUF = 3
  MaxPinned = 1
  None = None
SYMMETRY Symmetry
SPECIFICATION Spec
INVARIANTS
  BioInv
  SleepersWillWake
PROPERTY
  BlocksAreLocked
