CONSTANTS
  e1 = e1
  e2 = e2
  e3 = e3
  e4 = e4
  Events = {e1, e2}
  Prio <- Two
  Managed = {}
  Squash = {e1, e2}
  MaxTick = 1
  Null = Null
SPECIFICATION Spec
PROPERTY RestoredAsSaved
