CONSTANTS
    QueueSize <- MCQueueSize
    MaxFrames <- MCMaxFrames
SPECIFICATION FairSpec
INVARIANTS
    TypeOK
    NothingUsesWhatIsClosed
PROPERTIES
    ImplementsDropOldest
    ShutdownEnds
    FramesReachConsumer
