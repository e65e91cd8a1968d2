SPECIFICATION Spec
CONSTANTS
    TotalFrames = 3
    RenderThreads = 2
    QueueDepth = 2
    AudioFrames = 2
    AudioClips = 1
    MaxPauses = 1
    Faults <- ReportedFaults
INVARIANTS
    VideoConserved
    NothingLeftBehind
PROPERTIES
    KeepsContract
CHECK_DEADLOCK FALSE
