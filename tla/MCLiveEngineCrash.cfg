CONSTANTS
    a = a
    b = b
    Refs <- Two
    Limits <- Configured
    Equities = {8, 10}
    LateAccount = FALSE
    MaxCrashes = 1
    MaxDays = 2
SYMMETRY Interchangeable
SPECIFICATION Spec
INVARIANTS
    TypeOK
    CountsToday
    DailyCapHolds
    AtMostOneAfterHalt
    LossStopHolds
PROPERTIES
    LatchedUntilResumed
