SPECIFICATION FairSpec
CONSTANTS
    Null = Null
    Tasks = {a, b}
    Elsewhere = Elsewhere
    BatchSize = 1
    IdlePoll = 2
    MaxQueueSize = 1
    MaxTicks = 3
    MaxReturns = 1
INVARIANTS
    TypeOK
    TimelyClaim
    PunctualWake
    NoSpin
PROPERTIES
    PromptClaim
    EveryReadyRowIsTaken
