SPECIFICATION FairSpec
CONSTANTS
    TotalFrames = 3
    RenderThreads = 2
    QueueDepth = 8
    AudioFrames = 0
    AudioClips = 1
    MaxPauses = 1
    Faults <- FaultKinds
INVARIANTS
    TypeOK
    DoneCountsEveryFrame
    FinaliseAfterProducers
    TruthfulTerminal
PROPERTIES
    EventuallyTerminal
    CancelEnds
CHECK_DEADLOCK FALSE
