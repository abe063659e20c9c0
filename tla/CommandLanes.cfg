SPECIFICATION Spec
CONSTANTS
    open = open
    p1 = p1
    p2 = p2
    p3 = p3
    p4 = p4
    Types <- MCTypes
    AllowedPriorities <- MCAllowed
    Serializable <- MCTypes
    Payloads <- MCPayloads
    Timestamps = {0, 1}
    Steps = {0, 1}
    MaxSize = 3
    MaxSequence = 4
SYMMETRY PayloadSymmetry
INVARIANTS
    LanesInOrder
PROPERTY
    ImplementsCommandQueue
CHECK_DEADLOCK FALSE
