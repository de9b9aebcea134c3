SPECIFICATION Spec
CONSTANTS
    DayLength = 2
    WeekLength = 2
    WallMax = 7
    MonoMax = 5
    Steps = {0, 1, 4}
    WallSettings = {1, 6}
    Durations = {0, 2}
    SnoozeTimes = {1}
    AlarmLimit = 2
    QueueLimit = 1
    MissedLimit = 1
    Grace = 1
    RingTimeout = 2
    RetryInitial = 1
    RetryMax = 2
    Schedules <- MCSchedules
    Scenarios <- MCScenarios
INVARIANTS
    RemindersKept
    CheckpointTrue
