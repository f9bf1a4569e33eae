SPECIFICATION Spec
CONSTANTS
    Names <- MCNames
    Codes <- MCCodes
    Defined <- MCDefined
    InitStacks <- MCInitStacks
    CalleeStacks <- MCCalleeStacks
    Wrecks <- MCWrecks
    MemSize = 9
    Stale <- MCStale
    Values <- MCValues
    Bits = 4
    MaxAny = 3
    MaxFlow = 4
INVARIANTS
    TypeOK
    FootprintWithinReach
PROPERTIES
    ImplementsBlocks
CHECK_DEADLOCK FALSE
