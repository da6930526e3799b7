CONSTANTS
    Controllers = {c1, c2, c3}
    Promotable = {c1, c2, c3}
    None = None
    AllowsRollout = TRUE
    RequireShadow = TRUE
    RequireCanary = TRUE
    ShadowTicks = 1
    CanaryTicks = 2
    MaxBoundedCanaryTicks = 1
    EstopCapacity = 1
SPECIFICATION AuditSpec
INVARIANTS
    AuditTypeOK
    StageAgreement
    
    EnvelopeHolds
    FailureLeavesZeroFrame
    FailedNeverReturns
    WindowExact
    AuthorityIsEarned
    ClippedWithinBudget
PROPERTIES
    StoppedStaysStopped
SYMMETRY Symmetry
CHECK_DEADLOCK FALSE
