CONSTANTS
    Controllers = {c1, c2}
    Promotable = {c1, c2}
    None = None
    AllowsRollout = TRUE
    RequireShadow = TRUE
    RequireCanary = TRUE
    ShadowTicks = 1
    CanaryTicks = 2
    MaxBoundedCanaryTicks = 1
    EstopCapacity = 1
SPECIFICATION FairSpec
 
PROPERTIES
    ImplementsStagedRollout
    RolloutProgress
    RolloutResolves
    ShutdownStops
CHECK_DEADLOCK FALSE
