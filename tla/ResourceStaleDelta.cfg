SPECIFICATION Spec
CONSTANTS
    Definitions <- MCDefinitions
    Flags = {unlocked}
    Capacities = {1, 2}
    Amounts = {1}
    Tolerances = {0, 1}
    MaxOps = 2
    LeaseKinds <- MCLeaseKinds
    MaxDirtyCount = 2
    Replacements = {1}
    MaxTransports = 3
INVARIANT NoStaleDelta
CHECK_DEADLOCK FALSE
