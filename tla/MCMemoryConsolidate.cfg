CONSTANTS
    Threads = {t1}
    Workers = {w1, w2}
    MaxUpdates = 2
    DEFAULT_RETRY_REMAINING = 1
    MaxRunning = 1
    Phases <- MCConsolidators
    Events <- MCConsolidateEvents
    MaxFaults = 1
    Resets = FALSE
    t1 = t1
    t2 = t2
    None = None
    w1 = w1
    w2 = w2
SPECIFICATION MSpec
INVARIANTS OneConsolidation BaselineConsolidated DoneIsClean
PROPERTIES Forgotten
