CONSTANTS
    Types = {cmd}
    AllowedPriorities <- MCAllowed
    Payloads = {a, b}
    Timestamps <- MCTimestamps
    MaxSize = 2
    MaxSequence = 2
    StepMs = 2
    MaxStepsPerFrame = 2
    NSystems = 1
    Ahead <- MCAhead
    InitialStep = 0
    Deltas <- MCDeltas
    MaxSupplied = 8
    cmd = cmd
    a = a
    b = b
SPECIFICATION Spec
INVARIANTS TypeInv TimeConserved NoStaleCommand InOnePlace
PROPERTIES CallRunsItsBudget CallsReturn
CHECK_DEADLOCK FALSE
