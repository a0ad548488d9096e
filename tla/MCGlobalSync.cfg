CONSTANTS
  Threads = {0, 1}
  simQuantum = 2
  Delays = {2}
  num_cycles = 3
  MaxCalls = 2
  Exits = {x1}
  Interrupts = {i1}
  Stats = {}
  MaxDumps = 0
SPECIFICATION FairSpec
INVARIANTS NotInThePast ProcessedAlone OneOrder PythonAlone FlagsHold
PROPERTY Returns
\* Python makes no more calls.
CHECK_DEADLOCK FALSE
