CONSTANTS
  Ids = {0, 1}
  theChipletScale = 2
  N = 2
  thread_num = 2
  coreNum = 1
  MaxSignals = 3
  Numbers = {0, 1, 2}
  IntSize = 32
  WordSize = 64
  Junk = {0}
SPECIFICATION FairSpec
INVARIANTS Barrier PhasesAreSignalled WorkIsTimed AllReported HalfComputed
PROPERTY AllFinish
\* The programs terminate.
CHECK_DEADLOCK FALSE
