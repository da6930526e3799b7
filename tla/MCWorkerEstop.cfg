CONSTANTS
    w1 = w1
    w2 = w2
    t1 = t1
    t2 = t2
    Workers = {w1, w2}
    Steady = {w2}
    Self = w1
    StaleCapacity = 1
    Tasks = {t1, t2}
    Ooda = {t1}
    MaxConcurrent = 1
    MaxEstops = 1
    NoTask = NoTask
SPECIFICATION FairSpec
INVARIANTS PermitsConserved CopperHasOwner AnswersAgree
PROPERTIES  EstopHalts SilentWorkerStops AdmittedAnswered
CHECK_DEADLOCK FALSE
