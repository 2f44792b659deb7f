CONSTANTS
    FailThreshold = 3
    MaxQueue = 2
    MaxTimers = 2
    MaxTilts = 1
SPECIFICATION FairSpec
CHECK_DEADLOCK FALSE
PROPERTY ResetComesBack
