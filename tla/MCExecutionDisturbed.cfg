CONSTANTS
    a = a
    b = b
    Instruments <- Two
    Lot = 2
    MaxChunk = 3
    Holdings <- OddOpening
    Targets <- OddTargets
    LockedSets <- BuyLocks
    MaxReplans = 1
    FillsFirst = FALSE
    MaxCrashes = 0
    Disturbances = {"expire", "external", "operator", "malformed", "poll"}
SPECIFICATION Spec
INVARIANT SellsBeforeBuys
PROPERTIES
    ReplanIsFresh
    ImplementsPromise
    ComesToRest
    StoppedSendsNothing
CHECK_DEADLOCK FALSE
