SPECIFICATION CSpec
CONSTANTS
    Programs <- MCPrograms
    Small <- MCSmall
    Reaches <- MCReaches
    Probe = 67
    Imports <- MCImports
INVARIANTS
    CTypeOK
    ClacTheorem
    NeverIsRight
    NeverIsFound
    SolvedCallsSolved
    NoLookupFails
    Delivered
PROPERTIES
    Ends
CHECK_DEADLOCK FALSE
