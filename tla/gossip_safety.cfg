CONSTANTS
    s = s
    a = a
    b = b
    Node = {s, a}
    Subject = {s}
    None = None
    LeaveCalls <- EveryCall
    MaxInc = 1
    MaxStale = 0
    MaxCrashes = 1
SPECIFICATION Spec
INVARIANTS
    TypeOK
    NobodyDoubtsItself
    KnownIncarnationsAreReal
PROPERTIES
    NewestAfterRestart
