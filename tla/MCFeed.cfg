SPECIFICATION FairSpec
CONSTANTS
    Fields <- PrintStats
    MaxVersion = 3
    MaxRestarts = 1
    MaxFaults = 1
    MaxActs = 2
INVARIANTS OnlyThisPrinter UnusedSocketIsClosed
PROPERTIES NeverBackwards FeedConverges
