CONSTANTS
    film = film
    Untitled = untitled
    Paths <- OneFile
    MaxEdits = 2
    MaxSwitches = 2
    MaxSaves = 1
    MaxLaunches = 1
    Faults <- EveryFault
SPECIFICATION FairSpec
INVARIANTS TypeOK AutosaveNeverTorn NewestIsWritten WorkAtRestIsRecoverable
PROPERTIES ShutdownReturns SlotIsEmptied
CHECK_DEADLOCK FALSE
