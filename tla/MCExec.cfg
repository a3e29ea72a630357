CONSTANTS
    ChunkLens = {1}
    Retained = 2
    MaxBytes = 1
    MaxChunks = 2
    None = None
SPECIFICATION CSpec
INVARIANT CInv
PROPERTIES ImplementsStream SubscriberTold
CHECK_DEADLOCK FALSE
