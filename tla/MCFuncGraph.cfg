SPECIFICATION Spec
CONSTANTS
    Names <- MCNames
    Codes <- MCCodes
    MaxAny = 4
    MaxFlow = 6
INVARIANTS
    TypeOK
    NoInternalPanic
    BlocksPartition
    LinkAgreesWithScan
    BuildsGraph
CHECK_DEADLOCK FALSE
