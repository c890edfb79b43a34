SPECIFICATION FairSpec
CONSTANTS
    Offered <- PrimeAndCleanUp
    MaxGeneration = 4
    MaxMeddles = 1
INVARIANTS PanelShowsTheAttempt WaitsForAnAnswer CompleteMeansResumed
PROPERTIES KeepsPromise ActsOnWhatItVerified
