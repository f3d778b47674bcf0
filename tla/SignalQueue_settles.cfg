SPECIFICATION FairSpec
CONSTANTS
    Workers = {w1}
    NoWorker = NoWorker
    w1 = w1
    N = 3
    Kinds <- SettlingKinds
    Confirm = 1
    MaxAttempts = 2
    MaxFaults = 0
    MaxCrashes = 1
    RuntimeMayFail = FALSE
    EmergencyMayFail = FALSE
    Ticks = TRUE
    UserPauses = FALSE
PROPERTY ReopenedOnlyIfTracked
PROPERTY EveryReportSettles
CHECK_DEADLOCK FALSE
