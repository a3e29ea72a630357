CONSTANTS
    Callers = {c1}
    ChunkLens = {1}
    Retained = 2
    MaxBytes = 2
    MaxChunks = 2
    None = None
SPECIFICATION HSpec
INVARIANT PollsDeliver
CHECK_DEADLOCK FALSE
