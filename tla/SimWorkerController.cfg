SPECIFICATION Spec
CONSTANTS
    StepMs = 2
    MaxStepsPerFrame = 2
    Deltas = {1, 3}
    StepCounts = {1, 3}
    Extra = {0, 1}
    Ahead = {0, 2}
    MaxInFlight = 2
    MaxStep = 2
CHECK_DEADLOCK FALSE
INVARIANTS
    PauseAsAsked
    NoStepDuringLoad
    TargetsPaidFor
    HeldAsAsked
PROPERTIES
    CallsSettle
