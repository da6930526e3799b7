CONSTANTS
    Schedules <- AllOrOne
    MaxTime = 3
    Window = 1
    MaxEdits = 1
    MaxCrashes = 1
SPECIFICATION FairSpec
INVARIANTS  DispatchBounded RunAllComplete
  
CHECK_DEADLOCK FALSE
