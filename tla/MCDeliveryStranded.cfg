SPECIFICATION Spec
CONSTANTS
    Tasks = {t1}
    Dispatchers = {d1, d2}
    Workers = {w1, w2}
    Sweepers = {s1}
    Scope <- AllQueues
    Nobody = Nobody
    Null = Null
    Budgets = {2}
    MaxTicks = 1
    DispatchTimeout = 0
    StuckThreshold = 0
    BatchSize = 1
    SweepLimit = 1
    LockedSweep = TRUE
    ExpireOnCommit = TRUE
    MaxMessages = 1
    MaxFaults = 2
    MaxInterventions = 0
INVARIANT StrandedRowsAreOwned
