SPECIFICATION Spec
CONSTANTS
    Tasks = {t1}
    Dispatchers = {d1}
    Workers = {w1, w2}
    Sweepers = {}
    Scope <- AllQueues
    Nobody = Nobody
    Null = Null
    Budgets = {2}
    MaxTicks = 1
    DispatchTimeout = 0
    StuckThreshold = 0
    BatchSize = 1
    SweepLimit = 1
    LockedSweep = TRUE
    ExpireOnCommit = TRUE
    MaxMessages = 1
    MaxFaults = 0
    MaxInterventions = 2
PROPERTY KillIsHonoured
