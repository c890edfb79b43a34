SPECIFICATION FairQueueSpec
CONSTANTS
    MaxPending = 2
    MaxQueued = 1
    MaxPush = 3
    MaxPress = 1
    MaxMeddle = 1
PROPERTIES MovesAreChecked QueueSettles
