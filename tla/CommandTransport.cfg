SPECIFICATION TransportSpec
CONSTANTS
    c1 = c1
    c2 = c2
    r1 = r1
    cmd = cmd
    Types = {cmd}
    AllowedPriorities <- MCAllowed
    Clients = {c1, c2}
    Requests = {r1}
    Payloads <- MCKeys
    Timestamps <- MCOneTime
    MaxSize = 1
    MaxSequence = 4
    Ttl = 2
    MaxNow = 5
CHECK_DEADLOCK FALSE
INVARIANTS
    AtMostOncePerTtl
    OwnAnswerUnlessOverdue
    HolderCanBeAnswered
