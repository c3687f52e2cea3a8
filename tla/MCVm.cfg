CONSTANTS
  init = init
  child = child
  Procs = {init, child}
  Init0 = init
  NPages = 14
  NKT = 1
  NPD = 3
  NPTENTRIES = 2
  PGSIZE = 2
  Programs <- SomePrograms
  Deltas <- SomeDeltas
SPECIFICATION Spec
INVARIANTS
  
  PagesConserved
  SizeBacked
CHECK_DEADLOCK FALSE
