SPECIFICATION FairSpec
CONSTANTS
    LaneCommands = {"Pause", "Resume"}
    PrinterStates = {"printing", "paused", "cancelled"}
    Layers = {}
    Jobs = {}
    MaxQueued = 1
    MaxSent = 2
INVARIANTS ConfirmedHonestly BusyLaneWaits
PROPERTIES VerdictStands LaneReleases GatedShotsRevalidated
