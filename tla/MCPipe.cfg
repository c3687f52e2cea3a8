CONSTANTS
  Readers = {r1}
  Writers = {w1, w2}
  Bytes = {0, 1}
  PIPESIZE = 2
  W = 4
  MaxN = 3
  Killable = {r1, w1}
  Writes <- SomeWrites
  None = None
SPECIFICATION FairSpec
CHECK_DEADLOCK FALSE
INVARIANT
  PipeInv
PROPERTIES
  PipeIsFifo
  CloseEndsCalls
