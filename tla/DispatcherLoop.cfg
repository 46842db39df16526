SPECIFICATION FairSpec
CONSTANTS
    Base = 2
    TransportCap = 3
    DatabaseCap = 1
    IdlePoll = 2
    SweepInterval = 2
    HeartbeatInterval = 2
    StaleAfter = 5
INVARIANTS
    TypeOK
    NoClaimDuringBackoff
    StrandedKeepsBackoff
    WaitsWhatIsOwed
    ListedWhileRunning
PROPERTIES
    SweepsGoOn
    RecoversFully
    StopIsHonoured
