SPECIFICATION Spec
CONSTANTS
    LaneCommands = {}
    PrinterStates = {"printing", "paused", "cancelled"}
    Layers = {1, 2}
    Jobs = {"j1"}
    MaxQueued = 0
    MaxSent = 0
INVARIANT OnePausePerEntry
