CONSTANTS
    r1 = r1
    r2 = r2
    ReadSizes = {1, 2}
    ChunkSizes = {1, 2}
SPECIFICATION Spec
CONSTANTS
    Readers <- TwoReaders
    MaxReads = 2
    MaxFed = 2
    EmptyCalls = 0
    SetEventCalls = 0
    EventAtStart = FALSE
INVARIANT NoFalseEOF
