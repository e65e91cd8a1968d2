SPECIFICATION FairSpec
CONSTANTS
    TotalFrames = 9
    RenderThreads = 1
    QueueDepth = 8
    AudioFrames = 0
    AudioClips = 0
    MaxPauses = 0
    Faults <- OneEncodeFault
PROPERTIES
    EventuallyTerminal
CHECK_DEADLOCK FALSE
