SPECIFICATION RunSpec
CONSTANTS
    Programs <- MCPrograms
    Small <- MCSmall
    Reaches <- MCReaches
    Probe = 67
    MaxFrames = 3
INVARIANTS
    RunTypeOK
    CalleesSolved
    StaysAboveReach
    ReturnsDelta
    EntriesAgree
CHECK_DEADLOCK FALSE
