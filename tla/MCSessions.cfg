CONSTANTS
    Connections = {c1, c2, c3, c4}
    Sessions = {s1, s2}
    None = None
SPECIFICATION SSpec
INVARIANTS SInv SenderKept
PROPERTIES AbandonedIsShutDown
CHECK_DEADLOCK FALSE
