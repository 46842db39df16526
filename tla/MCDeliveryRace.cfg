SPECIFICATION Spec
CONSTANTS
    Tasks = {t1}
    Dispatchers = {d1, d2}
    Workers = {w1, w2}
    Sweepers = {s1}
    Scope <- AllQueues
    Nobody = Nobody
    Null = Null
    Budgets = {0, 2}
    MaxTicks = 2
    DispatchTimeout = 0
    StuckThreshold = 0
    BatchSize = 1
    SweepLimit = 1
    LockedSweep = FALSE
    ExpireOnCommit = TRUE
    MaxMessages = 2
    MaxFaults = 3
    MaxInterventions = 1
SYMMETRY Symmetry
INVARIANTS
    TypeOK
    BudgetRespected
    OneRunAtATime
    RunOwnsRow
    FailedHasBudget
    NothingIsForgotten
PROPERTIES
    LifecycleImplemented
    CycleImplemented
    KillIsHonoured
