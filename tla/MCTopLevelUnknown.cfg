SPECIFICATION Spec
CONSTANTS
    Names <- MCNames
    Lines <- UnknownLines
    MaxLines = 1
    CompileOutcomes <- Present
    CalleeStacks <- MCCalleeStacks
    Values <- MCValues
    Bits = 4
PROPERTIES
    UnknownIsAnError
CHECK_DEADLOCK FALSE
