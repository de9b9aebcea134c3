SPECIFICATION MCSpec
CONSTANTS
    p1 = p1
    Pids = {p1}
    Levels = {0, 1}
    NProcesses = 1
    BackoffMax = 2
    VolumeTicks = 1
    MaxQueue = 3
    MaxLinks = 2
    Period = 2
    Buffer = 4
    History = 4
    Words = 21
    MaxAhead = 8
    MaxMixed = 8
INVARIANTS
    TablesAgree
    VolumeAgrees
    HeardOK
    Accounting
    HistorySuffices
PROPERTIES
    EventuallySettled
