SPECIFICATION HSpec
CONSTANTS
    p1 = p1
    tA = tA
    tB = tB
    Positions = {p1}
    Targets = {tA, tB}
    NoTarget = NoTarget
    NoTask = NoTask
    Requests <- OnlyMultiTp
    MaxRetries = 1
    Window = 0
    MaxTasks = 2
    MaxClock = 1
INVARIANT LatestIntentKept
CHECK_DEADLOCK FALSE
