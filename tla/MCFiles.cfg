SPECIFICATION Spec
CONSTANTS
    MaxPath = 3
    MaxVersion = 2
    MaxBind = 2
    MaxLease = 1
INVARIANTS LeasedFilesStay NothingLeftBehind FileIsItsIdentity WantedIsUnderway
CHECK_DEADLOCK FALSE
