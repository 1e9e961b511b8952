CONSTANTS
    a = a
    b = b
    Instruments <- Two
    Lot = 1
    MaxChunk = 1
    Holdings <- Opening
    Targets <- Rebalances
    LockedSets <- NoLocks
    MaxReplans = 2
    FillsFirst = TRUE
    MaxCrashes = 1
    Disturbances = {}
SPECIFICATION Spec
INVARIANTS
    TypeOK
    SubmitAtMostOnce
    JournalCoversBroker
    NoDuplicateOrder
    CompletedIsTrue
    CountedOnce
    FillsDurable
CHECK_DEADLOCK FALSE
