SPECIFICATION Spec
CONSTANTS
    film = film
    show = show
    png = png
    gone = gone
    title = title
    Shapes <- MCShapes
    Frames <- MCFrameSet
    Missing = {gone}
    MapsStills = TRUE
    MaxFrames = 3
INVARIANTS
    RunsAsAdded
    FrameShowsTimeline
CHECK_DEADLOCK FALSE
