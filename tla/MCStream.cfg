SPECIFICATION FairStreamSpec
CONSTANTS
    Size = 8
    High = 4
    Low = 2
    Cap = 2
INVARIANT SleepingReaderIsWoken
PROPERTY TransfersTheFile
CHECK_DEADLOCK FALSE
