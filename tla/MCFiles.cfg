SPECIFICATION MCSpec
CONSTANTS
    Chunks = 3
    MaxRuns = 4
    PipeCapacity = 2
INVARIANTS
    Durable
    NothingLost
    JobAccounted
    ChangeShown
PROPERTIES
    TransferSpec
    NoReplace
    WaitEnds
    Leaves
CHECK_DEADLOCK FALSE
