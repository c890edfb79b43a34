SPECIFICATION Spec
CONSTANTS
    Fields <- PrintStats
    MaxVersion = 3
    MaxRestarts = 1
    MaxFaults = 0
    MaxActs = 1
INVARIANT PreviousRunIsOver
