SPECIFICATION Spec
CONSTANTS
    Workers = {w1, w2}
    NoWorker = NoWorker
    w1 = w1
    w2 = w2
    N = 2
    Kinds <- TradingKinds
    Confirm = 2
    MaxAttempts = 2
    MaxFaults = 1
    MaxCrashes = 1
    RuntimeMayFail = TRUE
    EmergencyMayFail = FALSE
    Ticks = TRUE
    UserPauses = TRUE
SYMMETRY WorkerSymmetry
INVARIANT AttemptsBounded
INVARIANT NoPyramiding
INVARIANT TradesAreFresh
INVARIANT PauseHolds
INVARIANT NoLiveClosed
