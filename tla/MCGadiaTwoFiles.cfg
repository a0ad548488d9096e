CONSTANTS
  Chiplets = {0, 1}
  Numbers = {0, 1, 2}
  Data = {2, 12}
  Sends <- MCTwoSends
  Reads <- MCTwoReads
  TickWidth <- MCTickWidth
  IntSize = 8
  WordSize = 16
  Junk = {0, 1}
  MaxCalls = 3
SPECIFICATION Spec
INVARIANT OldestUnread
