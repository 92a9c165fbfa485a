SPECIFICATION Spec
CONSTANTS
    N = 3
    Hooks <- MCHooks
    PhaseOf <- MCPhaseOf
    SortKey <- MCSortKey
    Registered <- MCRegistered
INVARIANTS
    ServeOnlyAfterInit
    HookOrder
    ResultIsHonest
PROPERTIES
    ImplementsContract
    CancelEndsRun
    FailureEndsRun
