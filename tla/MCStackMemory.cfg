SPECIFICATION Spec
CONSTANTS
    Instrs <- MCInstrs
    Capacity = 4
    Lowest <- MCLowest
    Values <- MCValues
    Bits = 4
INVARIANTS
    TypeOK
PROPERTIES
    ImplementsSequence
CHECK_DEADLOCK FALSE
