CONSTANTS
    Lines = {"a", "b", "c", "n"}
    NoFile = NoFile
    UsizeModulus = 32
    Clients = {c1, c2}
    Paths = {p1, p2, x}
    Outside = {x}
    InitFiles <- MCInitFiles
    Patches <- MCPatches
    Methods <- MCMethods
    MaxFaults = 1
    c1 = c1
    c2 = c2
    p1 = p1
    p2 = p2
    x = x
SPECIFICATION WSpec
INVARIANTS WInv StatsBoundGrowth
PROPERTIES CommandAnswers
CHECK_DEADLOCK FALSE
