SPECIFICATION CSpec
CONSTANTS
    Programs <- EndlessPrograms
    Small <- MCSmall
    Reaches <- MCReaches
    Probe = 67
    Imports <- MCImports
INVARIANTS
    ClacTheoremEverywhere
CHECK_DEADLOCK FALSE
