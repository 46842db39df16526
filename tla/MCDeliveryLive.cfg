SPECIFICATION FairSpec
CONSTANTS
    Tasks = {t1, t2}
    Dispatchers = {d1}
    Workers = {w1}
    Sweepers = {s1}
    Scope <- AllQueues
    Nobody = Nobody
    Null = Null
    Budgets = {2}
    MaxTicks = 1
    DispatchTimeout = 0
    StuckThreshold = 0
    BatchSize = 2
    SweepLimit = 2
    LockedSweep = TRUE
    ExpireOnCommit = FALSE
    MaxMessages = 1
    MaxFaults = 1
    MaxInterventions = 0
PROPERTY EveryTaskSettles
