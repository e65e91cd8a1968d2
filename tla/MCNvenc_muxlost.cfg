SPECIFICATION FairSpec
CONSTANTS
    TotalFrames = 3
    RenderThreads = 1
    SlotCount = 4
    MaxPauses = 0
    Faults <- MuxFault
INVARIANTS
    DoneIsComplete
CHECK_DEADLOCK FALSE
