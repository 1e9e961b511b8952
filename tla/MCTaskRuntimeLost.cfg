CONSTANTS
    x = x
    y = y
    w = w
    k = k
    data = data
    Resources <- Data
    Requests <- One
    KeyOf <- Twins
    BodyOf <- OneBody
    Commands <- None
    Needs <- ReadersAndWriter
    Capacity = 1
    MaxQueued = 1
    MaxCrashes = 0
    MaxSlow = 0
    MaxUnconfirmed = 0
    MaxCancels = 0
    MaxDrains = 0
    MaxFaults = 0
SPECIFICATION Spec
PROPERTY CompletionNotLost
CHECK_DEADLOCK FALSE
