SPECIFICATION Spec
CONSTANTS
    Tasks = {t1}
    Dispatchers = {d1}
    Workers = {w1, w2}
    Sweepers = {s1}
    Scope <- AllQueues
    Nobody = Nobody
    Null = Null
    Budgets = {2}
    MaxTicks = 1
    DispatchTimeout = 0
    StuckThreshold = 0
    BatchSize = 1
    SweepLimit = 1
    LockedSweep = FALSE
    ExpireOnCommit = TRUE
    MaxMessages = 2
    MaxFaults = 1
    MaxInterventions = 0
PROPERTY RecoversOnlyStale
