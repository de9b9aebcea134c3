SPECIFICATION Spec
CONSTANTS
    MaxPid = 3
    MaxForks = 2
    AnyPid = FALSE
    Escapes = FALSE
    Faults = TRUE
INVARIANTS
    GuardianExitsLast
CHECK_DEADLOCK FALSE
