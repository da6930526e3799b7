CONSTANTS
    Controllers = {c1, c2, c3}
    Promotable = {c1, c2}
    None = None
    AllowsRollout = TRUE
    RequireShadow = FALSE
    RequireCanary = FALSE
    ShadowTicks = 0
    CanaryTicks = 0
    MaxBoundedCanaryTicks = 0
    EstopCapacity = 1
SPECIFICATION AuditSpec
INVARIANTS
    OnlyVerifiedMoves
SYMMETRY PolicySymmetry
CHECK_DEADLOCK FALSE
