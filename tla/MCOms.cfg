SPECIFICATION Spec
CONSTANTS
    Buys = {b}
    Sells = {s}
    Volume = 2
    Held = 2
    MaxQueue = 3
    MaxRecoveries = 1
    MaxRestarts = 1
INVARIANTS TypeOK ActiveIsTrue NeverAhead
PROPERTIES HoldingHeals
