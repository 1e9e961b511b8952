CONSTANTS
    x = x
    y = y
    w = w
    k = k
    data = data
    Resources <- Data
    Requests <- One
    KeyOf <- Twins
    BodyOf <- OneBody
    Commands <- Shell
    Needs <- ReadersAndWriter
    Capacity = 1
    MaxQueued = 1
    MaxCrashes = 1
    MaxSlow = 1
    MaxUnconfirmed = 1
    MaxCancels = 1
    MaxDrains = 1
    MaxFaults = 2
SPECIFICATION Spec
INVARIANTS
    TypeOK
    RunsAtMostOnce
    ExclusiveAccess
    NoLeakedLocks
    SettledIsQuiet
PROPERTIES
    ImplementsLife
    EventuallySettled
CHECK_DEADLOCK FALSE
