SPECIFICATION Spec
CONSTANTS
    open = open
    restricted = restricted
    p1 = p1
    p2 = p2
    p3 = p3
    Types <- MCTypes
    AllowedPriorities <- MCAllowed
    Serializable <- MCSerializable
    Payloads <- MCPayloads
    Timestamps = {0, 1}
    Steps = {0, 1}
    MaxSize = 2
    MaxSequence = 4
SYMMETRY PayloadSymmetry
INVARIANTS
    TypeInv
    SizeInv
    RestoreKeepsOrder
PROPERTY
    EvictionRespectsPriority
CHECK_DEADLOCK FALSE
