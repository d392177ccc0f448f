SPECIFICATION Spec
CONSTANTS
    Size = 4
    NoFrame <- MCNoFrame
    ChunkSize = 1
    Threshold = 2
    Lengths = {3}
    TakeSizes = {1, 2}
    MaxFiles = 2
    MaxTurns = 1
INVARIANTS
    TypeOK
    NothingOverwritten
PROPERTIES
    FramesInOrder
    
    StopReturns
CHECK_DEADLOCK FALSE
