SPECIFICATION FairSpec
CONSTANTS
    Names <- MCNames
    Codes <- MCCodes
    InitStacks <- MCInitStacks
    CalleeStacks <- MCCalleeStacks
    Defined <- MCDefined
    Values <- MCValues
    Bits = 4
    MaxAny = 3
    MaxFlow = 4
INVARIANTS
    TypeOK
    LiteralsOnTop
PROPERTIES
    ForwardOnly
    Terminates
    ImplementsBlocks
CHECK_DEADLOCK FALSE
