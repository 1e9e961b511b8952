SPECIFICATION Spec
CONSTANTS
    Ids = {s}
    Times = {1, 2}
    Bodies = {1, 2}
    Owners = {local}
    Upsert = FALSE
    MaxDays = 2
    MaxEdits = 3
    MaxFaults = 1
INVARIANTS TypeOK OncePerDay EditSurvives AtMostOneStray
PROPERTIES RunsDaily
CHECK_DEADLOCK FALSE
