SPECIFICATION FairSpec
CONSTANTS
    p1 = p1
    p2 = p2
    u1 = u1
    u2 = u2
    Pids = {p1, p2}
    Uids = {u1, u2}
    Nobody = Nobody
    NConnections = 2
    NProcesses = 2
    NGone = 1
    AppStreams = 2
    ClientStreams = 1
    PacketsPerRound = 1
    HelloTicks = 1
    ResyncTicks = 1
    CardTicks = 2
    IdMax = 1
INVARIANTS
    StreamTable
    RolesAgree
    ManagerCovers
    Admission
    TimerCovers
PROPERTIES
    HelloAnswered
CHECK_DEADLOCK FALSE
