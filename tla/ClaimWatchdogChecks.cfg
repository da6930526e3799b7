CONSTANTS
    w1 = w1
    t1 = t1
    Workers = {w1}
    Steady = {}
    Self = w1
    StaleCapacity = 1
    Tasks = {t1}
    Ooda = {}
    MaxConcurrent = 1
    MaxEstops = 1
    NoTask = NoTask
SPECIFICATION FairSpec
PROPERTY WatchdogChecks
CHECK_DEADLOCK FALSE
