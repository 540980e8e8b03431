CONSTANTS
    Node = {1, 3, 6}
    KvNode = {1, 6}
    HKey = 5
    RingSize = 8
    Thread = {t1, t2}
    t1 = t1
    t2 = t2
    None = None
    MaxPuts = 2
    MaxCrashes = 1
SPECIFICATION Spec
SYMMETRY ThreadSymmetry
INVARIANTS TypeOK  StoredVersionsAreReal OneValuePerIndex ReplicaNeverAhead
CHECK_DEADLOCK FALSE
