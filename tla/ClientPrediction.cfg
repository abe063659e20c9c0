SPECIFICATION PredictionSpec
CONSTANTS
    MaxCommands = 2
    MaxStep = 3
    MaxPredictionSteps = 2
    MaxPendingCommands = 1
    ChecksumInterval = 1
CHECK_DEADLOCK FALSE
INVARIANTS
    AgreesWithConfirmed
    HistoryIsOurs
    NothingUntracked
