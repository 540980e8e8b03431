CONSTANTS
    Value = {0, 1, 2}
    Minute = 1
    Hour = 2
    MaxAge = 1
    Start = 4
    MaxTime = 6
    MaxAdds = 3
    None = None
SPECIFICATION Spec
INVARIANTS TSTypeOK MinutesKeepTheirValues HoursMatchMinutes MinMaxAreReal
PROPERTIES OldMinutesAreStored
CHECK_DEADLOCK FALSE
