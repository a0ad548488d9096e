CONSTANTS
  totalVertex = 8
  Edges <- MCEdges
  initValue = 7
  thread_Num = 2
  coreNum = 1
  MaxSpurious = 1
SPECIFICATION FairSpec
INVARIANTS InBounds SubThreadMeansIdle NothingLost
PROPERTY Ends
\* main returns.
CHECK_DEADLOCK FALSE
