SPECIFICATION BroadcastSpec
CONSTANTS
    TypeCount = 2
    RunsPerFrame = 2
    MaxSteps = 3
    MaxEvents = 4
    MaxDelay = 2
    DeduperCapacity = 3
    Configs <- Options
    MaxFrameEvents = 2
    MaxPublished = 4
    MaxFrames = 3
    MaxReplays = 1
    MaxFaults = 1
CHECK_DEADLOCK FALSE
INVARIANTS
    NothingLost
    HeardOnce
    HeardInOrder
    DelayKept
