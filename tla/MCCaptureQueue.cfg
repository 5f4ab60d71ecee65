CONSTANTS
    QueueDepth <- MCQueueDepth
    MaxFrames <- MCMaxFrames
SPECIFICATION FairSpec
INVARIANTS
    TypeOK
    BufferOwnership
    FramesAccountedFor
    NewestGetsRoom
    CaptureOrder
PROPERTIES
    ImplementsDropOldest
    BuffersComeBack
