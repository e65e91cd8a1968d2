SPECIFICATION FairSpec
CONSTANTS
    TotalFrames = 9
    RenderThreads = 2
    SlotCount = 4
    MaxPauses = 1
    Faults <- SessionFaults
INVARIANTS
    TypeOK
    SlotExclusive
    PacketsCarryTheirFrame
    FramesConserved
    TroubleIsReported
PROPERTIES
    EventuallyTerminal
    KeepsContract
CHECK_DEADLOCK FALSE
