SPECIFICATION Spec
CONSTANTS
    Clients = {c1}
    Nobody = Nobody
    MaxOps = 4
    MaxFaults = 0
    Live = TRUE
PROPERTIES ReconcileClears
CHECK_DEADLOCK FALSE
