SPECIFICATION Spec
CONSTANTS
    Names <- MCNames
    Lines <- MCLines
    MaxLines = 2
    CompileOutcomes <- Both
    CalleeStacks <- MCCalleeStacks
    Values <- MCValues
    Bits = 4
INVARIANTS
    TypeOK
    DefinitionsKept
    JitCurrent
    AotAgrees
PROPERTIES
    CallsLatest
    UnknownIsUndefined
CHECK_DEADLOCK FALSE
