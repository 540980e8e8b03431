CONSTANTS
    x1 = x1
    x2 = x2
    k1 = k1
    Exec = {x1}
    Key = {x1, k1}
    Writer <- Writers
    None = None
    Hour = 2
    MaxTtl = 2
    MaxTime = 2
    MaxRuns = 2
    MaxAsks = 2
    MaxDups = 1
    MaxPuts = 1
    MaxStops = 1
SPECIFICATION Spec
INVARIANTS ExecTypeOK DyingKeysAreListed RunsWereAnswered RunsOncePerReturn
PROPERTIES DeletedInItsHour DeadValuesGo  ExecutesAsPromised
CHECK_DEADLOCK FALSE
