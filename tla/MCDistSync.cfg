SPECIFICATION FairSpec
CONSTANTS
    n1 = n1
    n2 = n2
    Nodes = {n1, n2}
    Switch = sw
    syncStart = 0
    linkDelay = 3
    SendDelays = {1}
    Traffic <- MCTraffic
    Scenarios <- MCScenarios
INVARIANTS OnTime OneSyncAtATime SameTick CheckpointTogether NothingInFlight CountedOnce
PROPERTIES Ends
CHECK_DEADLOCK FALSE
