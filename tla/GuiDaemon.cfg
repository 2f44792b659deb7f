CONSTANTS
    FailThreshold = 3
    MaxQueue = 3
    MaxTimers = 2
    MaxTilts = 2
SPECIFICATION FairSpec
CHECK_DEADLOCK FALSE
PROPERTIES
    ShowsDaemon
    ButtonsComeBack
    ResetComesBackWhenOffline
