SPECIFICATION Spec
CONSTANTS
    SpeedUnit = 2
    Sources = {m1}
    MediaTicks <- MCMedia
    Loaded <- MCLoaded
    Frames = {0, 1, 3}
    FrameTicks = {2, 3}
    Speeds = {1, 2, 4}
    Looks = {0, 1}
    MaxTracks = 3
    MaxHistory = 2
    MaxEdits = 2
INVARIANTS
    TypeOK
    StoreOrdered
    KeyframesOwned
PROPERTIES
    SplitPlaysOn
    InsertionLosesNothing
    EditsAreUndoable
CHECK_DEADLOCK FALSE
