CONSTANTS
    QueueSize <- MCQueueSize
    MaxFrames <- MCMaxFrames
SPECIFICATION Spec
INVARIANT ShutdownCleansUp
