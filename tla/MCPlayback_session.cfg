SPECIFICATION FairSpec
CONSTANTS
    Clips = {"voice", "music"}
    From <- Starts
    To <- Ends
    Length = 4
    TicksPerFrame = 2
    Leap = 2
    MaxStall = 2
    Tunings = {"soft", "loud"}
INVARIANTS OneVoiceEach EditsAreHeard
PROPERTIES PlayheadMoves
