CONSTANTS
  Chiplets = {0, 1, 2}
  Numbers = {0, 1, 2}
  Data = {2, 12}
  Sends <- MCSends
  Reads <- MCReads
  TickWidth <- MCTickWidth
  IntSize = 8
  WordSize = 16
  Junk = {0, 1}
  MaxCalls = 3
SPECIFICATION FairSpec
INVARIANTS TypeOK OldestUnread EndToEnd
PROPERTY ImplementsMailbox
