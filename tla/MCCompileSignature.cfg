SPECIFICATION CSpec
CONSTANTS
    Programs <- AddPrograms
    Small <- MCSmall
    Reaches <- MCReaches
    Probe = 67
    Imports <- MCImports
INVARIANTS
    EveryFunctionTakesTheStack
CHECK_DEADLOCK FALSE
