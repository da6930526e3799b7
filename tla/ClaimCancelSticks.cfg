CONSTANTS
    t1 = t1
    Tasks = {t1}
    Ooda = {}
    MaxConcurrent = 1
    MaxEstops = 0
    Faulty = {t1}
    NoTask = NoTask
SPECIFICATION Spec
PROPERTY CancelSticks
CHECK_DEADLOCK FALSE
