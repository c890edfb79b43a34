SPECIFICATION FairSpec
CONSTANTS
    Machines = {m1, m2}
    Prints = {p1}
    NoJob = nojob
    Home = m1
    Strong = {p1}
    Uncodable = {2}
    Unreadable = {}
    MaxLayer = 2
    MaxWriter = 2
    MaxGen = 3
    MaxDemand = 1
    MaxUnnamed = 1
    MaxFault = 1
    MaxCrash = 1
    MaxTrouble = 3
INVARIANTS FilesAreWhole FilesAreTheirOwn TablesMatchFiles CompleteMeansPublished OneWorkItem
PROPERTIES PassEnds AdoptionKeepsTheMost
CHECK_DEADLOCK FALSE
