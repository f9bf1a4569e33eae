SPECIFICATION Spec
CONSTANTS
    Names <- MCNames
    Blocks <- MCBlocks
    Known <- MCKnown
    Assignments <- MCAssignments
    FreshValues <- MCFreshValues
    MaxBlock = 3
INVARIANTS
    TypeOK
    ClacTheorem
    ReachSuffices
    ReachNeeded
    NoneIsHonest
    SomeIsHonest
CHECK_DEADLOCK FALSE
