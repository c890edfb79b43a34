SPECIFICATION FairSpec
CONSTANTS
    m1 = m1
    m2 = m2
    Machines = {m1, m2}
    NoMachine = nomachine
    Installs <- Small
    MaxFaults = 1
    MaxCrashes = 1
    MaxEdits = 1
    MaxRestores = 1
INVARIANT NothingIsLost
PROPERTIES LiveStateWins MigrationSettles
