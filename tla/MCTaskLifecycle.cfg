CONSTANTS
    t1 = t1
    t2 = t2
    Tasks = {t1, t2}
    Ooda = {}
    MaxConcurrent = 1
    MaxEstops = 1
    Faulty = {t1}
    NoTask = NoTask
SPECIFICATION Spec
INVARIANTS OutcomesAgree  
PROPERTIES ImplementsTaskRecords
CHECK_DEADLOCK FALSE
