CONSTANTS
    film = film
    Untitled = untitled
    Paths <- OneFile
    MaxEdits = 2
    MaxSwitches = 1
    MaxSaves = 0
    MaxLaunches = 0
    Faults <- NoFaults
SPECIFICATION Spec
INVARIANT FlushKeepsWork
CHECK_DEADLOCK FALSE
