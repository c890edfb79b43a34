SPECIFICATION Spec
CONSTANTS
    MaxActs = 3
    MaxFrames = 1
    MaxUpsets = 2
INVARIANTS RemovalIsKept ShowsTheTruth
CHECK_DEADLOCK FALSE
