SPECIFICATION Spec
CONSTANTS
    MaxPid = 3
    MaxForks = 3
    AnyPid = TRUE
    Escapes = TRUE
    Faults = TRUE
INVARIANTS
    SessionGone
    StatusKept
PROPERTIES
    Finishes
CHECK_DEADLOCK FALSE
