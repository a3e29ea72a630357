CONSTANTS
    ChunkLens = {1, 2}
    Retained = 2
    MaxBytes = 1
    MaxChunks = 2
    None = None
SPECIFICATION RSpec
INVARIANTS RInv NothingSkipped
PROPERTIES KilledCloses ReadsReturn
CHECK_DEADLOCK FALSE
