SPECIFICATION RingSpec
CONSTANTS
    Capacity = 2
    Words = 7
    Period = 1
    BufferPeriods = 2
    IdleTicks = 1
    RetryTicks = 1
    MaxFrames = 8
INVARIANTS
    HandOff
