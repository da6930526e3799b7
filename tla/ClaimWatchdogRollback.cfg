CONSTANTS
    Controllers = {c1, c2}
    Promotable = {c1, c2}
    None = None
    AllowsRollout = TRUE
    RequireShadow = FALSE
    RequireCanary = TRUE
    ShadowTicks = 1
    CanaryTicks = 1
    MaxBoundedCanaryTicks = 1
    EstopCapacity = 1
SPECIFICATION Spec
PROPERTY WatchdogEndsCanary
SYMMETRY Symmetry
CHECK_DEADLOCK FALSE
