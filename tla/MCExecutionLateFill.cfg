CONSTANTS
    a = a
    b = b
    Instruments <- Two
    Lot = 1
    MaxChunk = 1
    Holdings <- Opening
    Targets <- Rebalances
    LockedSets <- NoLocks
    MaxReplans = 2
    FillsFirst = FALSE
    MaxCrashes = 0
    Disturbances = {}
SPECIFICATION Spec
INVARIANT NoDuplicateOrder
CHECK_DEADLOCK FALSE
