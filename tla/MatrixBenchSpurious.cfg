CONSTANTS
  Ids = {0}
  theChipletScale = 2
  N = 2
  thread_num = 2
  coreNum = 1
  MaxSignals = 3
  Numbers = {0, 1, 2}
  IntSize = 32
  WordSize = 64
  Junk = {0}
SPECIFICATION Spec
INVARIANT BarrierAlways
\* The programs terminate.
CHECK_DEADLOCK FALSE
