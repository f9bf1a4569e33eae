SPECIFICATION Spec
CONSTANTS
    Names <- MCNames
    Lines <- DefineLines
    MaxLines = 1
    CompileOutcomes <- Present
    CalleeStacks <- MCCalleeStacks
    Values <- MCValues
    Bits = 4
INVARIANTS
    DefinedCallsRun
CHECK_DEADLOCK FALSE
