CONSTANTS
  NPROC = 3
  MaxPid = 5
  KillArgs = {0, 1, 2, 3, 4}
  Failing = {0, 1}
SPECIFICATION FairSpec
CHECK_DEADLOCK FALSE
INVARIANTS
  ProcessInv
  ParentLives
  SleepJustified
  KilledWasNamed
PROPERTY
  OrphansReaped
