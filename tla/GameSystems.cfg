SPECIFICATION Spec
CONSTANTS
    Instances = {i1, i2}
    StartInstances = {}
    MaxCount = 2
    Capacity = 2
    MaxByHand = 1
    Automations <- MCAutomations
    QueueCapacity = 1
    Toggled = {1}
    Transforms <- MCTransforms
    Stages = {"scout", "raid", "leave"}
    StageDefinitions <- MCStageDefinitions
    MaxRunsPerTick = 1
    MaxOutstandingBatches = 2
    MaxStarted = 2
    Horizon = 2
SYMMETRY MCSymmetry
INVARIANTS
    SettledOnce
    CrewsHeld
    DueIsDelivered
    PausedAnsweredUnlessReloaded
PROPERTIES
    FiresAreEarned
