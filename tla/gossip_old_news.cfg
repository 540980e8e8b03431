CONSTANTS
    s = s
    a = a
    b = b
    Node = {s, a}
    Subject = {s}
    None = None
    LeaveCalls <- NoCall
    MaxInc = 1
    MaxStale = 0
    MaxCrashes = 0
SPECIFICATION Spec
PROPERTIES
    NewDataOnly
