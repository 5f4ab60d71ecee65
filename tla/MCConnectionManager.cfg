CONSTANTS
    c1 = c1
    c2 = c2
    Connections <- MCConnections
    QueueSize <- MCQueueSize
    MaxBroadcasts <- MCMaxBroadcasts
SPECIFICATION FairSpec
CHECK_DEADLOCK FALSE
INVARIANTS
    TypeOK
    SendersServeTheRegistered
PROPERTIES
    ImplementsDropOldest
    ClosedIsForgotten
    LatestArrives
