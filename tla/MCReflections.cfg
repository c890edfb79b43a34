SPECIFICATION FairSpec
CONSTANTS
    Turns = 2
    FadeFrames = 1
    MaxAhead = 1
    MaxSerial = 2
    MaxGeneration = 1
    MaxFault = 1
INVARIANTS MapsAreQuiet SourcesHaveOneOwner
PROPERTIES StopReturnsEverything SealedMapsDrain CaptureSettles
CHECK_DEADLOCK FALSE
