SPECIFICATION HSpec
CONSTANTS
    p1 = p1
    tA = tA
    tB = tB
    Positions = {p1}
    Targets = {tA, tB}
    NoTarget = NoTarget
    NoTask = NoTask
    Requests <- HeapCallers
    MaxRetries = 0
    Window = 0
    MaxTasks = 3
    MaxClock = 1
INVARIANTS HeapImplementsQueue PendingTracksLive
CHECK_DEADLOCK FALSE
