CONSTANTS
  e1 = e1
  e2 = e2
  e3 = e3
  e4 = e4
  Events = {e1, e2, e3, e4}
  Prio <- Shared
  Managed = {e4}
  Squash = {e3, e4}
  MaxTick = 1
  Null = Null
SPECIFICATION Spec
SYMMETRY Alike
INVARIANTS NoneDeletedScheduled HoldsScheduled debugVerify AlwaysFound
PROPERTY ImplementsSortedQueue
