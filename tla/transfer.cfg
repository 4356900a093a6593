SPECIFICATION Spec
CONSTANTS
    MaxSize = 4
    ChunkSize = 2
CHECK_DEADLOCK FALSE
INVARIANTS
    TypeOK
    Aligned
    Conserved
    CompleteIsWhole
PROPERTIES
    ClientEnds
    Fetches
    EveryStepCounts
