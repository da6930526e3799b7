CONSTANTS
    Schedules <- EveryMoment
    MaxTime = 3
    Window = 3
    MaxEdits = 0
    MaxCrashes = 0
SPECIFICATION Spec
PROPERTY OnTimeRunFires
CHECK_DEADLOCK FALSE
