SPECIFICATION MCSpec
CONSTANTS
    ClientStreams = 2
    MaxCalls = 6
    Capacity = 2
    Words = 7
    Period = 1
    BufferPeriods = 2
    IdleTicks = 1
    RetryTicks = 1
    MaxFrames = 8
INVARIANTS
    AnswersMatch
    StreamsMatch
    NoOverwrite
    SleepingTold
    RingHeals
PROPERTIES
    FramesTaken
CHECK_DEADLOCK FALSE
