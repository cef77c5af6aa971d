\* One reader, the event installed first, and one empty() and one further
\* set_event() call while the pipe is in use.
CONSTANTS
    r1 = r1
    r2 = r2
    ReadSizes = {1, 2}
    ChunkSizes = {1, 2}
SPECIFICATION Spec
CONSTANTS
    Readers <- OneReader
    MaxReads = 3
    MaxFed = 3
    EmptyCalls = 1
    SetEventCalls = 1
    EventAtStart = TRUE
INVARIANT NoLostWakeup
