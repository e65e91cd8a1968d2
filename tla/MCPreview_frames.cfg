SPECIFICATION Spec
CONSTANTS
    gpu = gpu
    cpu = cpu
    big = big
    huge = huge
    none = none
    x1 = x1
    x2 = x2
    y1 = y1
    y2 = y2
    small = small
    large = large
    Sources = {gpu, cpu, big, huge}
    Interop = {gpu}
    Slots = {x1, x2, y1, y2}
    Length <- MCLength
    Pts <- MCPts
    Intact <- MCIntact
    Keyframes <- MCKeyframes
    Delay <- MCDelay
    FarAhead = 2
    MaxPackets = 3
    Unreadable <- MCUnreadable
    TierOf <- MCTierOf
    Capacity = 3
    Layouts <- MCLayouts
    CopyMayFail = TRUE
    MaxFrames = 3
    MaxProjects = 2
INVARIANTS
    SlotsConserved
    PicturesAreTrue
    FrameIsAsDecoded
    TexturesUntorn
CHECK_DEADLOCK FALSE
