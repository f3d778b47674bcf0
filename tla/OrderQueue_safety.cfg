SPECIFICATION FairSpec
CONSTANTS
    p1 = p1
    tA = tA
    tB = tB
    Positions = {p1}
    Targets = {tA, tB}
    NoTarget = NoTarget
    NoTask = NoTask
    Requests <- AllCallers
    MaxRetries = 1
    Window = 0
    MaxTasks = 2
    MaxClock = 1
INVARIANTS RetryBound EscalationNotLost OneEmergencyClose
PROPERTY QueueDrains
CHECK_DEADLOCK FALSE
