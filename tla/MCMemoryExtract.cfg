CONSTANTS
    Threads = {t1, t2}
    Workers = {w1, w2}
    MaxUpdates = 2
    DEFAULT_RETRY_REMAINING = 2
    MaxRunning = 1
    Phases <- MCExtractors
    Events <- MCExtractEvents
    MaxFaults = 1
    Resets = TRUE
    t1 = t1
    t2 = t2
    None = None
    w1 = w1
    w2 = w2
SPECIFICATION MSpec
INVARIANTS MInv WatermarkHonest NotAgain
PROPERTIES EventuallySettled
