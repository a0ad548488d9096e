CONSTANTS
  Threads = {0, 1}
  simQuantum = 2
  Delays = {2}
  num_cycles = 3
  MaxCalls = 1
  Exits = {}
  Interrupts = {}
  Stats = {s1}
  MaxDumps = 1
SPECIFICATION Spec
INVARIANT OneOrder
CHECK_DEADLOCK FALSE
