SPECIFICATION FairSpec
CONSTANTS
    Capacity = 8
    Modulus = 24
    Threshold = 3
    MaxChunk = 3
    MaxTail = 2
    ReadLen = 2
    MaxSeeks = 1
INVARIANTS
    NoOverlap
    ReadsWhatWasWritten
PROPERTIES
    SoundGoesOn
CHECK_DEADLOCK FALSE
