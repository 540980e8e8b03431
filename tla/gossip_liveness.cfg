CONSTANTS
    s = s
    a = a
    b = b
    Node = {s, a}
    Subject = {s}
    None = None
    LeaveCalls <- OtherCalls
    MaxInc = 1
    MaxStale = 1
    MaxCrashes = 1
SPECIFICATION FairSpec
INVARIANTS
    LeavesOnlyWhenAsked
PROPERTIES
    CrashIsNoticed
    WrongSuspicionEnds
\* An agent that stopped for good and one that knows nobody else do nothing.
CHECK_DEADLOCK FALSE
