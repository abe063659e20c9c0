SPECIFICATION GameSpec
CONSTANTS
    cmd = cmd
    a = a
    Types = {cmd}
    AllowedPriorities <- MCAllowed
    Payloads = {a}
    Timestamps <- MCTimestamps
    MaxSize = 1
    MaxSequence = 2
    StepMs = 2
    MaxStepsPerFrame = 1
    NSystems = 0
    Ahead <- MCAhead
    InitialStep = 0
    Deltas <- MCDeltas
    MaxSupplied = 6
    MaxStep = 3
INVARIANTS
    SavedCommandsStillRun
    SavedTimeSurvives
    StampNeverBehind
CHECK_DEADLOCK FALSE
