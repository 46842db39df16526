\* Two producers, two keys, two calls each: both can hold what the other wants.
SPECIFICATION Spec
CONSTANTS
    Producers = {p1, p2}
    Keys = {k1, k2}
    Contracts = {c1, c2}
    Rows = {r1, r2, r3, r4}
    MaxCalls = 2
INVARIANTS
    TypeOK
    Agreement
    ReturnedTaskStays
    RefusedOnlyForPurge
    ConflictIsReal
PROPERTIES
    UniquenessImplemented
    CallerKeepsItsWork
    EveryCallIsAnswered
\* All transactions may have ended.
CHECK_DEADLOCK FALSE
