CONSTANTS
    NumMboards = 2
    PpsPeriod = 100
    PpsTimeout = 110
    SettleTime = 100
    SyncTol = 1
    MaxGap = 1
    MaxTime = 400
    Phases <- MCPhases
    Target = 0
    InitOffsets <- MCInitOffsets
    StaleArms = {1000}
    None = None
SPECIFICATION Spec
INVARIANT NoSpuriousTimeout
CHECK_DEADLOCK FALSE
