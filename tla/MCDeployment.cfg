SPECIFICATION Spec
CONSTANTS
    Clients = {c1, c2}
    Nobody = Nobody
    MaxOps = 3
    MaxFaults = 1
    Live = FALSE
SYMMETRY Interchangeable
INVARIANTS TypeOK AtMostOneAfterShut
PROPERTIES PauseHolds RoutesOnlyAfterReconcile
CHECK_DEADLOCK FALSE
